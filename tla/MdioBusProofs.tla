---------------------------- MODULE MdioBusProofs ----------------------------
(***************************************************************************)
(* Proofs about MdioBus, for every set of devices, every configuration and  *)
(* every length of lists and commands, of a driver whose adapters are        *)
(* initialized and halted one at a time (Serial) and whose mapping of the    *)
(* registers does not fail.                                                *)
(***************************************************************************)
EXTENDS MdioBus, RingLemmas, SequenceTheorems, FiniteSetTheorems

Assumed == Serial /\ "map" \notin Faults

-----------------------------------------------------------------------------
(* The invariant *)

\* The devices a bus counts as its references.
Users(b) == {d \in Devices : b = pBus[d] \/ (b = closing[d] /\ phase[d] = "close")}

\* What a device knows of the bus, by how far its adapter is.
PhaseInv(d) ==
    /\ phase[d] \in {"out", "failed", "create"} => pBus[d] = None /\ closing[d] = None
    /\ phase[d] \in {"link", "add", "in"} =>
          pBus[d] \in Buses /\ bus[pBus[d]].alive /\ closing[d] = None
    /\ phase[d] = "close" =>
          closing[d] \in Buses /\ bus[closing[d]].alive /\ pBus[d] \in {None, closing[d]}
    /\ phase[d] = "stopping" =>
          /\ closing[d] \in Buses /\ bus[closing[d]].alive /\ pBus[d] = None
          /\ Users(closing[d]) = {}
    /\ phase[d] \in {"create", "link"} => busList = <<>>
    /\ phase[d] = "create" => \A b \in Buses : ~bus[b].alive

\* There is at most one bus, and one adapter at work on it.
LifeInv ==
    /\ \A d, e \in Devices : ~Settled(d) /\ ~Settled(e) => d = e
    /\ \A d \in Devices : PhaseInv(d)
    /\ \A b \in Buses : bus[b].alive <=> thread[b] # "none"
    /\ \A b, c \in Buses : bus[b].alive /\ bus[c].alive => b = c
    /\ busList # <<>> => \E b \in Buses : busList = <<b>> /\ bus[b].alive
    /\ \A b \in Buses : bus[b].alive =>
          /\ busList = <<b>> \/ \E d \in Devices : phase[d] = "link"
          /\ bus[b].ref = Cardinality(Users(b))

On(b) == {d \in Devices : phase[d] = "in" /\ pBus[d] = b}

\* The list of a bus has the attached devices; its thread works on one of them.
Served(b) ==
    /\ bus[b].alive => IsInjective(bus[b].first) /\ Range(bus[b].first) = On(b)
    /\ bus[b].alive => bus[b].active \in On(b) \cup {None}
    /\ ~bus[b].alive => ~bus[b].busy
    /\ bus[b].busy => bus[b].active # None /\ thread[b] \in {"arm", "wait", "ended"}
    /\ thread[b] = "callback" => bus[b].active # None
    /\ thread[b] = "scan" => cursor[b] \in On(b)
ThreadInv == \A b \in Buses : Served(b)

\* A device's last frame of a command is in its callback.
LastInCallback(d) == \E b \in InCallback(d) : bus[b].frame.last

NewDevice(d) ==
    /\ free[d] = ListSize /\ pending[d] = <<>> /\ ~CmdPending[d] /\ engine[d] = "idle"
    /\ result[d] = NoFrame

\* What is pending is the rest of one command, whose last frame alone is marked.
WholeInv(d) ==
    LET p == pending[d]
    IN  /\ free[d] + Len(p) = ListSize
        /\ \A i \in DOMAIN p : p[i].dev = d
        /\ \A i \in DOMAIN p : p[i].last <=> engine[d] = "idle" /\ i = Len(p)
        /\ engine[d] = "prefix" =>
              CmdPending[d] /\ ~LastInCallback(d) /\ \E m \in PrefixLens : Len(p) <= m
        /\ engine[d] = "idle" => (CmdPending[d] <=> p # <<>> \/ LastInCallback(d))
        /\ LastInCallback(d) => p = <<>>

CmdOf(d) ==
    /\ phase[d] \in {"create", "link", "add"} => NewDevice(d)
    /\ phase[d] = "in" => WholeInv(d)
    /\ phase[d] # "in" => engine[d] = "idle"
CmdInv == \A d \in Devices : CmdOf(d)

\* A busy bus waits for the frame in MMFR, its active device's oldest one.
Tracked(b) ==
    LET d == bus[b].active
    IN  /\ pending[d] # <<>> /\ MMFR.frame = Head(pending[d]) /\ MSCR = d
        /\ \/ wire = MMFR.frame /\ ~MMFR.done /\ ~EIR_MII
           \/ wire = NoFrame /\ MMFR.done /\ EIR_MII
WireInv ==
    /\ \A b \in Buses : bus[b].busy => Tracked(b)
    /\ (\A b \in Buses : ~bus[b].busy) => wire = NoFrame /\ ~EIR_MII
    /\ \A b \in Buses : thread[b] = "callback" => MMFR = [frame |-> bus[b].frame, done |-> TRUE]

RangeInv ==
    \A d \in Devices : phase[d] \in {"create", "link", "add", "in"} => InRange(Config[d])

-----------------------------------------------------------------------------
(* Types *)

LEMMA Constants ==
    /\ IsFiniteSet(Devices) /\ None \notin Devices /\ None \notin Buses
    /\ ListSize \in Nat
  BY MdioAssumption

Recs == [Buses -> BusType]

LEMMA RecordTyped ==
    ASSUME NEW r \in BusType
    PROVE  /\ r.alive \in BOOLEAN /\ r.ref \in Nat /\ r.first \in Seq(Devices)
           /\ r.active \in Devices \cup {None} /\ r.busy \in BOOLEAN /\ r.start \in BOOLEAN
           /\ r.kill \in BOOLEAN /\ r.timer \in {"off", "set", "fired"} /\ r.frame \in FrameType
  BY DEF BusType

LEMMA RecordChanged ==
    ASSUME NEW r \in BusType
    PROVE  /\ \A x \in BOOLEAN : [r EXCEPT !.alive = x] \in BusType
           /\ \A x \in Nat : [r EXCEPT !.ref = x] \in BusType
           /\ \A x \in Seq(Devices) : [r EXCEPT !.first = x] \in BusType
           /\ \A x \in Devices \cup {None} : [r EXCEPT !.active = x] \in BusType
           /\ \A x \in BOOLEAN : [r EXCEPT !.busy = x] \in BusType
           /\ \A x \in BOOLEAN : [r EXCEPT !.start = x] \in BusType
           /\ \A x \in BOOLEAN : [r EXCEPT !.kill = x] \in BusType
           /\ \A x \in {"off", "set", "fired"} : [r EXCEPT !.timer = x] \in BusType
           /\ \A x \in FrameType : [r EXCEPT !.frame = x] \in BusType
  BY DEF BusType

\* A bus instance is written: the others are left alone.
LEMMA BusWritten ==
    ASSUME bus \in Recs, NEW b \in Buses, NEW r \in BusType, bus' = [bus EXCEPT ![b] = r]
    PROVE  bus' \in Recs /\ bus'[b] = r /\ \A c \in Buses \ {b} : bus'[c] = bus[c]
  BY DEF Recs

LEMMA NoFrameTyped ==
    NoFrame \in FrameType /\ ~NoFrame.last /\ NoFrame.dev = None
  BY DEF NoFrame, FrameType

LEMMA FreshTyped ==
    /\ FreshBus \in BusType /\ FreshBus.alive /\ FreshBus.ref = 1 /\ FreshBus.first = <<>>
    /\ FreshBus.active = None /\ ~FreshBus.busy /\ FreshBus.frame = NoFrame
  BY NoFrameTyped DEF FreshBus, BusType

\* A command: frames of its device, of which the last one alone may be marked.
IsCommand(s, d, last) ==
    /\ s \in Seq(FrameType) /\ Len(s) \in Nat \ {0} /\ DOMAIN s = 1..Len(s)
    /\ \A i \in 1..Len(s) : s[i].dev = d /\ (s[i].last <=> last /\ i = Len(s))

LEMMA FramesTyped ==
    ASSUME NEW d \in Devices, NEW n \in Nat \ {0}, NEW last \in BOOLEAN
    PROVE  IsCommand(Frames(d, n, last), d, last) /\ Len(Frames(d, n, last)) = n
<1> DEFINE s == Frames(d, n, last)
<1>1. ASSUME NEW i \in 1..n
      PROVE  [dev |-> d, nr |-> i, last |-> last /\ i = n] \in FrameType
  <2>1. (last /\ i = n) \in BOOLEAN /\ i \in Nat
    OBVIOUS
  <2> QED
    BY <2>1 DEF FrameType
<1>2. s \in [1..n -> FrameType] /\ s = [i \in 1..n |-> [dev |-> d, nr |-> i, last |-> last /\ i = n]]
  BY <1>1 DEF Frames
<1>3. s \in Seq(FrameType) /\ Len(s) = n /\ DOMAIN s = 1..n
  <2> HIDE DEF s
  <2> QED
    BY <1>2
<1>4. \A i \in 1..n : s[i].dev = d /\ (s[i].last <=> last /\ i = n)
  BY DEF Frames
<1> HIDE DEF s
<1>5. IsCommand(s, d, last) /\ Len(s) = n
  BY <1>3, <1>4 DEF IsCommand
<1> QED
  BY <1>5 DEF s

\* The lists of the code: MDIO_RemoveFromList takes out the item it is given.
LEMMA Unlinked ==
    ASSUME NEW T, NEW s \in Seq(T), NEW x, IsInjective(s)
    PROVE  LET r == MDIO_RemoveFromList(s, x)
           IN  r \in Seq(T) /\ IsInjective(r) /\ Range(r) = Range(s) \ {x}
<1> DEFINE r == MDIO_RemoveFromList(s, x)
           n == Len(s)
           k == Position(s, x)
<1>0. n \in Nat /\ DOMAIN s = 1..n /\ s \in [1..n -> T]
  BY LenProperties
<1>1. CASE x \notin Range(s)
  BY <1>1 DEF MDIO_RemoveFromList
<1>2. CASE x \in Range(s)
  <2>1. \E i \in DOMAIN s : s[i] = x
    BY <1>2 DEF Range
  <2>2. k \in 1..n /\ s[k] = x
    BY <1>0, <2>1 DEF Position
  <2>3. r = SubSeq(s, 1, k - 1) \o SubSeq(s, k + 1, n)
    BY <1>2 DEF MDIO_RemoveFromList, RemoveAt
  <2> HIDE DEF r, k, n
  <2> DEFINE u == SubSeq(s, 1, k - 1)
             v == SubSeq(s, k + 1, n)
  <2>4. u \in Seq(T) /\ Len(u) = k - 1 /\ \A i \in 1..k - 1 : u[i] = s[i]
    <3>1. k - 1 \in 0..n
      BY <1>0, <2>2
    <3> QED
      BY <1>0, <2>2, <3>1, SubSeqProperties DEF n
  <2>5. v \in Seq(T) /\ Len(v) = n - k /\ \A i \in 1..n - k : v[i] = s[k + i]
    <3>1. CASE k = n
      <4>1. v = << >>
        BY <1>0, <2>2, <3>1, SubSeqEmpty
      <4> HIDE DEF v
      <4> QED
        BY <1>0, <3>1, <4>1
    <3>2. CASE k < n
      <4>1. k + 1 \in Int /\ n \in Int /\ k + 1 <= n /\ \A i \in (k + 1)..n : s[i] \in T
        BY <1>0, <2>2, <3>2
      <4>2. /\ v \in Seq(T) /\ Len(v) = (IF k + 1 <= n THEN n - (k + 1) + 1 ELSE 0)
            /\ \A i \in 1..n - (k + 1) + 1 : v[i] = s[(k + 1) + i - 1]
        BY <4>1, SubSeqProperties
      <4> HIDE DEF v
      <4>3. n - (k + 1) + 1 = n - k /\ \A i \in 1..n - k : (k + 1) + i - 1 = k + i
        BY <1>0, <2>2
      <4> QED
        BY <4>1, <4>2, <4>3
    <3> QED
      BY <1>0, <2>2, <3>1, <3>2
  <2> HIDE DEF u, v
  <2>6. /\ r \in Seq(T) /\ Len(r) = (k - 1) + (n - k)
        /\ \A i \in 1..(k - 1) + (n - k) : r[i] = IF i <= k - 1 THEN u[i] ELSE v[i - (k - 1)]
    BY <2>3, <2>4, <2>5, ConcatProperties, SMTT(30) DEF u, v
  <2>7. (k - 1) + (n - k) = n - 1
    BY <1>0, <2>2
  <2>8. DOMAIN r = 1..n - 1
    BY <2>6, <2>7, LenProperties
  <2>9. \A i \in 1..n - 1 : r[i] = IF i < k THEN s[i] ELSE s[i + 1]
    <3> TAKE i \in 1..n - 1
    <3>1. CASE i < k
      BY <1>0, <2>2, <2>4, <2>6, <2>7, <3>1
    <3>2. CASE ~(i < k)
      <4>1. i - (k - 1) \in 1..n - k /\ k + (i - (k - 1)) = i + 1 /\ ~(i <= k - 1)
        BY <1>0, <2>2, <3>2
      <4> QED
        BY <2>5, <2>6, <2>7, <3>2, <4>1
    <3> QED
      BY <3>1, <3>2
  <2>10. IsInjective(r)
    <3> SUFFICES ASSUME NEW a \in 1..n - 1, NEW b \in 1..n - 1, r[a] = r[b] PROVE a = b
      BY <2>8 DEF IsInjective
    <3> DEFINE a1 == IF a < k THEN a ELSE a + 1
               b1 == IF b < k THEN b ELSE b + 1
    <3>1. a1 \in 1..n /\ b1 \in 1..n /\ s[a1] = s[b1]
      BY <1>0, <2>2, <2>9
    <3>2. a1 = b1
      BY <1>0, <3>1 DEF IsInjective
    <3> QED
      BY <1>0, <2>2, <3>2
  <2>11. ASSUME NEW y \in Range(r) PROVE y \in Range(s) /\ y # x
    <3>1. PICK i \in 1..n - 1 : y = r[i]
      BY <2>8 DEF Range
    <3> DEFINE j == IF i < k THEN i ELSE i + 1
    <3>2. j \in 1..n /\ j # k /\ y = s[j]
      BY <1>0, <2>2, <2>9, <3>1
    <3> HIDE DEF j
    <3>3. y # x
      BY <1>0, <2>2, <3>2 DEF IsInjective
    <3> QED
      BY <1>0, <3>2, <3>3 DEF Range
  <2>12. ASSUME NEW y \in Range(s), y # x PROVE y \in Range(r)
    <3>1. PICK j \in 1..n : y = s[j]
      BY <1>0 DEF Range
    <3> DEFINE i == IF j < k THEN j ELSE j - 1
    <3>2. j # k
      BY <2>2, <2>12, <3>1
    <3>3. i \in 1..n - 1 /\ y = r[i]
      BY <1>0, <2>2, <2>9, <3>1, <3>2
    <3> HIDE DEF i
    <3> QED
      BY <2>8, <3>3 DEF Range
  <2> QED
    BY <2>6, <2>10, <2>11, <2>12 DEF r
<1> QED
  BY <1>1, <1>2

LEMMA NextListed ==
    ASSUME NEW s \in Seq(Devices), NEW d \in Range(s)
    PROVE  NextDevice(s, d) \in Range(s) \cup {None}
<1> DEFINE k == Position(s, d)
<1>1. Len(s) \in Nat /\ DOMAIN s = 1..Len(s)
  BY LenProperties
<1>2. k \in 1..Len(s)
  <2>1. \E i \in DOMAIN s : s[i] = d
    BY DEF Range
  <2> QED
    BY <1>1, <2>1 DEF Position
<1> HIDE DEF k
<1>3. CASE k = Len(s)
  BY <1>3 DEF NextDevice, k
<1>4. CASE k # Len(s)
  <2>1. k + 1 \in 1..Len(s)
    <3>1. \A m \in Nat : \A j \in 1..m : j # m => j + 1 \in 1..m
      OBVIOUS
    <3> QED
      BY <1>1, <1>2, <1>4, <3>1
  <2>2. s[k + 1] \in Range(s)
    BY <1>1, <2>1 DEF Range
  <2>3. NextDevice(s, d) = s[k + 1]
    BY <1>4 DEF NextDevice, k
  <2> QED
    BY <2>2, <2>3
<1> QED
  BY <1>3, <1>4

LEMMA FirstListed ==
    ASSUME NEW s \in Seq(Devices)
    PROVE  /\ s = <<>> => FirstDevice(s) = None /\ Range(s) = {}
           /\ s # <<>> => FirstDevice(s) \in Range(s)
<1>1. CASE s = <<>>
  BY <1>1 DEF FirstDevice, Range
<1>2. CASE s # <<>>
  <2>1. 1 \in DOMAIN s /\ Head(s) = s[1]
    BY <1>2
  <2> QED
    BY <1>2, <2>1 DEF FirstDevice, Range
<1> QED
  BY <1>1, <1>2

LEMMA ListedAreDevices ==
    ASSUME NEW s \in Seq(Devices)
    PROVE  Range(s) \subseteq Devices /\ None \notin Range(s)
  BY Constants, LenProperties DEF Range

\* A device is put in front of a list that does not have it.
LEMMA LinkedFirst ==
    ASSUME NEW s \in Seq(Devices), IsInjective(s), NEW d \in Devices \ Range(s)
    PROVE  LET r == <<d>> \o s
           IN  r \in Seq(Devices) /\ IsInjective(r) /\ Range(r) = Range(s) \cup {d}
<1> DEFINE r == <<d>> \o s
           n == Len(s)
<1>1. n \in Nat /\ DOMAIN s = 1..n
  BY LenProperties
<1>2. /\ r \in Seq(Devices) /\ Len(r) = 1 + n
      /\ \A i \in 1..1 + n : r[i] = IF i = 1 THEN d ELSE s[i - 1]
  BY <1>1
<1>3. DOMAIN r = 1..1 + n
  BY <1>2, LenProperties
<1> HIDE DEF r, n
<1>4. IsInjective(r)
  <2> SUFFICES ASSUME NEW a \in 1..1 + n, NEW b \in 1..1 + n, r[a] = r[b] PROVE a = b
    BY <1>3 DEF IsInjective
  <2>1. CASE a = 1 \/ b = 1
    <3>1. ASSUME NEW i \in 1..1 + n, i # 1, r[i] = d PROVE FALSE
      <4>1. i - 1 \in 1..n /\ d = s[i - 1]
        BY <1>1, <1>2, <3>1
      <4> QED
        BY <1>1, <4>1 DEF Range
    <3>2. r[1] = d
      BY <1>1, <1>2
    <3> QED
      BY <2>1, <3>1, <3>2
  <2>2. CASE a # 1 /\ b # 1
    <3>1. a - 1 \in 1..n /\ b - 1 \in 1..n /\ s[a - 1] = s[b - 1]
      BY <1>1, <1>2, <2>2
    <3>2. a - 1 = b - 1
      BY <1>1, <3>1 DEF IsInjective
    <3> QED
      BY <1>1, <3>2
  <2> QED
    BY <2>1, <2>2
<1>5. ASSUME NEW y \in Range(r) PROVE y \in Range(s) \cup {d}
  <2>1. PICK i \in 1..1 + n : y = r[i]
    BY <1>3 DEF Range
  <2>2. CASE i # 1
    <3>1. i - 1 \in 1..n /\ y = s[i - 1]
      BY <1>1, <1>2, <2>1, <2>2
    <3> QED
      BY <1>1, <3>1 DEF Range
  <2> QED
    BY <1>1, <1>2, <2>1, <2>2
<1>6. ASSUME NEW y \in Range(s) PROVE y \in Range(r)
  <2>1. PICK i \in 1..n : y = s[i]
    BY <1>1 DEF Range
  <2>2. i + 1 \in 1..1 + n /\ r[i + 1] = y
    BY <1>1, <1>2, <2>1
  <2> QED
    BY <1>3, <2>2 DEF Range
<1>7. d \in Range(r)
  <2>1. 1 \in 1..1 + n /\ r[1] = d
    BY <1>1, <1>2
  <2> QED
    BY <1>3, <2>1 DEF Range
<1> QED
  BY <1>2, <1>4, <1>5, <1>6, <1>7 DEF r

-----------------------------------------------------------------------------
(* Every step keeps the types *)

Inv == TypeOK /\ LifeInv /\ ThreadInv /\ CmdInv
LEMMA PhaseMoved ==
    ASSUME phase \in [Devices -> Phases], NEW d \in Devices, NEW p \in Phases, Goto(d, p)
    PROVE  /\ phase' \in [Devices -> Phases] /\ phase'[d] = p
           /\ \A e \in Devices \ {d} : phase'[e] = phase[e]
  BY DEF Goto

LEMMA PhaseNames == \A p \in {"out", "failed", "create", "link", "add", "in", "close", "stopping"} : p \in Phases
  BY DEF Phases

LEMMA TypesOfInit == Init => TypeOK
<1> SUFFICES ASSUME Init PROVE TypeOK
  OBVIOUS
<1>1. [FreshBus EXCEPT !.alive = FALSE, !.ref = 0] \in BusType
  <2>1. [FreshBus EXCEPT !.alive = FALSE] \in BusType
    BY FreshTyped, RecordChanged
  <2>2. [[FreshBus EXCEPT !.alive = FALSE] EXCEPT !.ref = 0] \in BusType
    BY <2>1, RecordChanged
  <2> QED
    BY <2>2
<1>2. bus \in [Buses -> BusType]
  BY <1>1 DEF Init
<1>3. ListSize \in Nat
  BY Constants
<1>4. /\ Config \in Configs /\ busList \in Seq(Buses)
      /\ thread \in [Buses -> {"none", "wait", "callback", "scan", "arm", "ended"}]
      /\ cursor \in [Buses -> Devices \cup {None}]
      /\ phase \in [Devices -> Phases]
      /\ pBus \in [Devices -> Buses \cup {None}] /\ closing \in [Devices -> Buses \cup {None}]
  BY DEF Init, Phases
<1>5. /\ free \in [Devices -> Nat] /\ pending \in [Devices -> Seq(FrameType)]
      /\ engine \in [Devices -> {"idle", "prefix"}]
      /\ result \in [Devices -> FrameType]
      /\ MSCR \in Devices \cup {None} /\ wire \in FrameType
  BY <1>3, NoFrameTyped DEF Init
<1>6. CmdPending \in [Devices -> BOOLEAN] /\ EIR_MII \in BOOLEAN
  BY DEF Init
<1>7. MMFR \in [frame : FrameType, done : BOOLEAN]
  BY NoFrameTyped DEF Init
<1> QED
  BY <1>2, <1>4, <1>5, <1>6, <1>7 DEF TypeOK

LEMMA TypesOfInitDevice ==
    ASSUME TypeOK, NEW d \in Devices, MDIODev_InitDevice(d) PROVE TypeOK'
<1> USE DEF MDIODev_InitDevice
<1>1. /\ free' \in [Devices -> Nat] /\ pending' \in [Devices -> Seq(FrameType)]
      /\ engine' \in [Devices -> {"idle", "prefix"}] /\ result' \in [Devices -> FrameType]
  BY Constants, NoFrameTyped DEF TypeOK
<1>2. CmdPending' \in [Devices -> BOOLEAN]
  BY DEF TypeOK
<1>3. phase' \in [Devices -> Phases]
  BY PhaseMoved, PhaseNames DEF TypeOK
<1>4. bus' \in [Buses -> BusType] /\ pBus' \in [Devices -> Buses \cup {None}]
  <2>1. CASE UNCHANGED <<bus, pBus>>
    BY <2>1 DEF TypeOK
  <2>2. CASE /\ busList # <<>> /\ bus' = [bus EXCEPT ![Head(busList)] = Referenced(@)]
             /\ SetBus(d, Head(busList))
    <3>1. Head(busList) \in Buses
      BY <2>2 DEF TypeOK
    <3>2. bus[Head(busList)] \in BusType
      BY <3>1 DEF TypeOK
    <3>3. Referenced(bus[Head(busList)]) \in BusType
      <4>1. bus[Head(busList)].ref + 1 \in Nat
        BY <3>2, RecordTyped
      <4> QED
        BY <3>2, <4>1, RecordChanged DEF Referenced
    <3> QED
      BY <2>2, <3>1, <3>3 DEF TypeOK, SetBus
  <2> QED
    BY <2>1, <2>2
<1> QED
  BY <1>1, <1>2, <1>3, <1>4 DEF TypeOK, hwVars

LEMMA TypesOfCreateBus ==
    ASSUME TypeOK, NEW d \in Devices, CreateBus(d) PROVE TypeOK'
<1> USE DEF CreateBus
<1>1. phase' \in [Devices -> Phases]
  BY PhaseMoved, PhaseNames DEF TypeOK
<1>2. /\ bus' \in [Buses -> BusType] /\ pBus' \in [Devices -> Buses \cup {None}]
      /\ thread' \in [Buses -> {"none", "wait", "callback", "scan", "arm", "ended"}]
  <2>1. CASE UNCHANGED <<bus, thread, pBus>>
    BY <2>1 DEF TypeOK
  <2>2. CASE \E b \in Buses : SetBus(d, b) /\ UNCHANGED <<bus, thread>>
    BY <2>2 DEF TypeOK, SetBus
  <2>3. CASE \E b \in Buses : /\ SetBus(d, b) /\ bus' = [bus EXCEPT ![b] = FreshBus]
                              /\ thread' = [thread EXCEPT ![b] = "wait"]
    BY <2>3, FreshTyped DEF TypeOK, SetBus
  <2> QED
    BY <2>1, <2>2, <2>3
<1> QED
  BY <1>1, <1>2 DEF TypeOK, hwVars, devVars

LEMMA TypesOfLinkBus ==
    ASSUME Inv, NEW d \in Devices, LinkBus(d) PROVE TypeOK'
<1> USE DEF LinkBus
<1>1. phase' \in [Devices -> Phases]
  BY PhaseMoved, PhaseNames DEF Inv, TypeOK
<1>2. pBus[d] \in Buses
  BY DEF Inv, LifeInv, PhaseInv
<1>3. busList' \in Seq(Buses)
  BY <1>2 DEF Inv, TypeOK
<1> QED
  BY <1>1, <1>3 DEF Inv, TypeOK, hwVars, devVars

LEMMA TypesOfAddDevice ==
    ASSUME Inv, NEW d \in Devices, MDIOBus_AddDevice(d) PROVE TypeOK'
<1> USE DEF MDIOBus_AddDevice
<1>1. phase' \in [Devices -> Phases]
  BY PhaseMoved, PhaseNames DEF Inv, TypeOK
<1>2. pBus[d] \in Buses
  BY DEF Inv, LifeInv, PhaseInv
<1>3. bus' \in [Buses -> BusType] /\ closing' \in [Devices -> Buses \cup {None}]
  <2>1. CASE UNCHANGED bus /\ closing' = [closing EXCEPT ![d] = pBus[d]]
    BY <1>2, <2>1 DEF Inv, TypeOK
  <2>2. CASE bus' = [bus EXCEPT ![pBus[d]].first = <<d>> \o @] /\ UNCHANGED closing
    <3>1. bus[pBus[d]] \in BusType
      BY <1>2 DEF Inv, TypeOK
    <3>2. <<d>> \o bus[pBus[d]].first \in Seq(Devices)
      BY <3>1, RecordTyped
    <3>3. [bus[pBus[d]] EXCEPT !.first = <<d>> \o bus[pBus[d]].first] \in BusType
      BY <3>1, <3>2, RecordChanged
    <3> QED
      BY <1>2, <2>2, <3>3 DEF Inv, TypeOK
  <2> QED
    BY <2>1, <2>2
<1> QED
  BY <1>1, <1>3 DEF Inv, TypeOK, hwVars, devVars

\* What a removal leaves of a bus.
LEMMA RemovedTyped ==
    ASSUME NEW r \in BusType, IsInjective(r.first), NEW d \in Devices
    PROVE  LET n == RemovedFrom(d, r)
           IN  /\ n \in BusType /\ n.alive = r.alive /\ n.ref = r.ref /\ n.frame = r.frame
               /\ IsInjective(n.first) /\ Range(n.first) = Range(r.first) \ {d}
               /\ r.active = d => n.active = None /\ ~n.busy
               /\ r.active # d => n.active = r.active /\ n.busy = r.busy
<1> DEFINE l == MDIO_RemoveFromList(r.first, d)
           rest == [r EXCEPT !.first = l]
           n == RemovedFrom(d, r)
<1>1. l \in Seq(Devices) /\ IsInjective(l) /\ Range(l) = Range(r.first) \ {d}
  <2>1. r.first \in Seq(Devices)
    BY RecordTyped
  <2> QED
    BY <2>1, Unlinked
<1>2. n = IF r.active = d THEN [rest EXCEPT !.active = None, !.busy = FALSE, !.start = TRUE]
                          ELSE rest
  BY DEF RemovedFrom
<1> HIDE DEF n, l
<1>3. /\ rest \in BusType /\ rest.first = l /\ rest.alive = r.alive /\ rest.ref = r.ref
      /\ rest.frame = r.frame /\ rest.active = r.active /\ rest.busy = r.busy
  BY <1>1 DEF BusType
<1> HIDE DEF rest
<1>4. CASE r.active # d
  BY <1>1, <1>2, <1>3, <1>4 DEF n
<1>5. CASE r.active = d
  <2>1. n = [rest EXCEPT !.active = None, !.busy = FALSE, !.start = TRUE]
    BY <1>2, <1>5
  <2>2. n \in BusType
    BY <1>3, <2>1 DEF BusType
  <2>3. /\ n.first = rest.first /\ n.alive = rest.alive /\ n.ref = rest.ref
        /\ n.frame = rest.frame /\ n.active = None /\ n.busy = FALSE
    BY <1>3, <2>1 DEF BusType
  <2> QED
    BY <1>1, <1>3, <1>5, <2>2, <2>3 DEF n
<1> QED
  BY <1>4, <1>5

LEMMA TypesOfRemoveDevice ==
    ASSUME Inv, NEW d \in Devices, MDIOBus_RemoveDevice(d) PROVE TypeOK'
<1> USE DEF MDIOBus_RemoveDevice
<1>1. phase' \in [Devices -> Phases]
  BY PhaseMoved, PhaseNames DEF Inv, TypeOK
<1>2. PICK b \in Buses : b = pBus[d]
  BY DEF Inv, TypeOK
<1>3. bus[b] \in BusType /\ bus[b].alive
  BY <1>2 DEF Inv, TypeOK
<1>4. IsInjective(bus[b].first)
  BY <1>3 DEF Inv, ThreadInv, Served
<1>5. RemovedFrom(d, bus[b]) \in BusType
  BY <1>3, <1>4, RemovedTyped
<1>6. bus' \in [Buses -> BusType]
  BY <1>2, <1>5 DEF Inv, TypeOK
<1>7. pBus' \in [Devices -> Buses \cup {None}] /\ closing' \in [Devices -> Buses \cup {None}]
  BY <1>2 DEF Inv, TypeOK, SetBus
<1> QED
  BY <1>1, <1>6, <1>7 DEF Inv, TypeOK, hwVars, devVars

LEMMA UsersFinite == \A b : IsFiniteSet(Users(b)) /\ Cardinality(Users(b)) \in Nat
<1> SUFFICES ASSUME NEW b PROVE IsFiniteSet(Users(b)) /\ Cardinality(Users(b)) \in Nat
  OBVIOUS
<1>1. Users(b) \subseteq Devices
  BY DEF Users
<1>2. IsFiniteSet(Users(b))
  BY <1>1, Constants, FS_Subset
<1> QED
  BY <1>2, FS_CardinalityType

\* A bus that is closed has a reference to give up.
LEMMA ReferenceHeld ==
    ASSUME Inv, NEW d \in Devices, phase[d] = "close"
    PROVE  /\ closing[d] \in Buses /\ bus[closing[d]] \in BusType /\ bus[closing[d]].alive
           /\ bus[closing[d]].ref \in Nat \ {0} /\ d \in Users(closing[d])
           /\ bus[closing[d]].ref = Cardinality(Users(closing[d]))
<1>1. closing[d] \in Buses /\ bus[closing[d]].alive
  BY DEF Inv, LifeInv, PhaseInv
<1>2. bus[closing[d]] \in BusType
  BY <1>1 DEF Inv, TypeOK
<1>3. d \in Users(closing[d])
  BY DEF Users
<1>4. bus[closing[d]].ref = Cardinality(Users(closing[d]))
  BY <1>1 DEF Inv, LifeInv
<1>5. Cardinality(Users(closing[d])) # 0 /\ Cardinality(Users(closing[d])) \in Nat
  BY <1>3, UsersFinite, FS_EmptySet
<1> QED
  BY <1>1, <1>2, <1>3, <1>4, <1>5

LEMMA TypesOfClose ==
    ASSUME Inv, NEW d \in Devices, MDIOBus_Close(d) PROVE TypeOK'
<1> USE DEF MDIOBus_Close
<1>1. phase' \in [Devices -> Phases]
  BY PhaseMoved, PhaseNames DEF Inv, TypeOK
<1>2. PICK b \in Buses : b = closing[d]
  BY ReferenceHeld
<1>3. bus[b] \in BusType /\ bus[b].ref - 1 \in Nat
  BY <1>2, ReferenceHeld
<1> DEFINE k == bus[b].kill \/ LastReference(b)
<1>4. bus' = [bus EXCEPT ![b] = [bus[b] EXCEPT !.ref = bus[b].ref - 1, !.kill = k]]
  BY <1>2, <1>3 DEF Inv, TypeOK
<1>5. k \in BOOLEAN
  BY <1>3, RecordTyped DEF LastReference
<1> HIDE DEF k
<1>6. [bus[b] EXCEPT !.ref = bus[b].ref - 1] \in BusType
  BY <1>3, RecordChanged
<1>7. [[bus[b] EXCEPT !.ref = bus[b].ref - 1] EXCEPT !.kill = k] \in BusType
  BY <1>5, <1>6, RecordChanged
<1>8. bus' \in [Buses -> BusType]
  BY <1>4, <1>7, ZenonT(30) DEF Inv, TypeOK
<1>9. pBus' \in [Devices -> Buses \cup {None}] /\ closing' \in [Devices -> Buses \cup {None}]
  BY DEF Inv, TypeOK, SetBus
<1> QED
  BY <1>1, <1>8, <1>9 DEF Inv, TypeOK, hwVars, devVars

LEMMA BusListShort ==
    ASSUME LifeInv PROVE IsInjective(busList)
<1>1. CASE busList = <<>>
  BY <1>1 DEF IsInjective
<1>2. CASE busList # <<>>
  <2>1. PICK b \in Buses : busList = <<b>>
    BY <1>2 DEF LifeInv
  <2> QED
    BY <2>1 DEF IsInjective
<1> QED
  BY <1>1, <1>2

LEMMA TypesOfFreeBus ==
    ASSUME Inv, NEW d \in Devices, FreeBus(d) PROVE TypeOK'
<1> USE DEF FreeBus
<1>1. phase' \in [Devices -> Phases]
  BY PhaseMoved, PhaseNames DEF Inv, TypeOK
<1>2. PICK b \in Buses : b = closing[d]
  BY DEF Inv, LifeInv, PhaseInv
<1>3. bus[b] \in BusType
  BY DEF Inv, TypeOK
<1>4. bus' \in [Buses -> BusType]
  <2>1. [bus[b] EXCEPT !.alive = FALSE] \in BusType
    BY <1>3, RecordChanged
  <2> QED
    BY <1>2, <2>1 DEF Inv, TypeOK
<1>5. busList' \in Seq(Buses)
  <2>1. busList' = MDIO_RemoveFromList(busList, b)
    BY <1>2
  <2>2. IsInjective(busList) /\ busList \in Seq(Buses)
    BY BusListShort DEF Inv, TypeOK
  <2>3. MDIO_RemoveFromList(busList, b) \in Seq(Buses)
    BY <2>2, Unlinked
  <2> QED
    BY <2>1, <2>3
<1>6. /\ thread' \in [Buses -> {"none", "wait", "callback", "scan", "arm", "ended"}]
      /\ closing' \in [Devices -> Buses \cup {None}]
  BY <1>2 DEF Inv, TypeOK
<1> QED
  BY <1>1, <1>4, <1>5, <1>6 DEF Inv, TypeOK, hwVars, devVars

LEMMA TypesOfNotInitialized ==
    ASSUME TypeOK, NEW d \in Devices, NotInitialized(d) PROVE TypeOK'
<1>1. phase' \in [Devices -> Phases]
  BY PhaseMoved, PhaseNames DEF TypeOK, NotInitialized
<1> QED
  BY <1>1 DEF NotInitialized, TypeOK, busVars, hwVars, devVars

LEMMA CommandFrames ==
    ASSUME NEW d \in Devices, NEW frames
    PROVE  /\ frames \in PrefixCommands(d) =>
                 IsCommand(frames, d, FALSE) /\ Len(frames) \in PrefixLens
           /\ frames \in Commands(d) =>
                 IsCommand(frames, d, TRUE) /\ Len(frames) \in CmdLens
<1>0. PrefixLens \subseteq Nat \ {0} /\ CmdLens \subseteq Nat \ {0}
  BY MdioAssumption
<1>1. ASSUME frames \in PrefixCommands(d)
      PROVE  IsCommand(frames, d, FALSE) /\ Len(frames) \in PrefixLens
  <2>1. PICK n \in PrefixLens : frames = Frames(d, n, FALSE)
    BY <1>1 DEF PrefixCommands
  <2>2. n \in Nat \ {0}
    BY <1>0
  <2> QED
    BY <2>1, <2>2, FramesTyped
<1>2. ASSUME frames \in Commands(d)
      PROVE  IsCommand(frames, d, TRUE) /\ Len(frames) \in CmdLens
  <2>1. PICK n \in CmdLens : frames = Frames(d, n, TRUE)
    BY <1>2 DEF Commands
  <2>2. n \in Nat \ {0}
    BY <1>0
  <2> QED
    BY <2>1, <2>2, FramesTyped
<1> QED
  BY <1>1, <1>2

LEMMA TypesOfQueue ==
    ASSUME TypeOK, NEW d \in Devices, phase[d] = "in", pBus[d] \in Buses,
           NEW frames \in PrefixCommands(d) \cup Commands(d), QueueCommand(d, frames)
    PROVE  /\ free' \in [Devices -> Nat] /\ pending' \in [Devices -> Seq(FrameType)]
           /\ CmdPending' \in [Devices -> BOOLEAN] /\ bus' \in [Buses -> BusType]
<1>0. frames \in Seq(FrameType) /\ Len(frames) \in Nat
  BY CommandFrames DEF IsCommand
<1>1. CASE /\ Len(frames) <= free[d]
           /\ CmdPending' = [CmdPending EXCEPT ![d] = TRUE]
           /\ free' = [free EXCEPT ![d] = @ - Len(frames)]
           /\ pending' = [pending EXCEPT ![d] = Queued(@, frames)]
           /\ bus' = [bus EXCEPT ![pBus[d]].start = @ \/ pending[d] = <<>>]
  <2>1. free[d] \in Nat /\ free[d] - Len(frames) \in Nat
    BY <1>0, <1>1 DEF TypeOK
  <2>2. free' \in [Devices -> Nat]
    BY <1>1, <2>1 DEF TypeOK
  <2>3. Queued(pending[d], frames) \in Seq(FrameType)
    <3>1. pending[d] \in Seq(FrameType)
      BY DEF TypeOK
    <3> QED
      BY <1>0, <3>1, ConcatProperties DEF Queued
  <2>4. pending' \in [Devices -> Seq(FrameType)]
    BY <1>1, <2>3 DEF TypeOK
  <2>5. CmdPending' \in [Devices -> BOOLEAN]
    BY <1>1 DEF TypeOK
  <2>6. bus' \in [Buses -> BusType]
    <3>1. PICK b \in Buses : b = pBus[d]
      OBVIOUS
    <3>2. bus[b] \in BusType
      BY DEF TypeOK
    <3>3. (bus[b].start \/ pending[d] = <<>>) \in BOOLEAN
      OBVIOUS
    <3>4. [bus[b] EXCEPT !.start = bus[b].start \/ pending[d] = <<>>] \in BusType
      BY <3>2, <3>3, RecordChanged
    <3> QED
      BY <1>1, <3>1, <3>4 DEF TypeOK
  <2> QED
    BY <2>2, <2>4, <2>5, <2>6
<1>2. CASE free' = [free EXCEPT ![d] = 0] /\ UNCHANGED <<CmdPending, pending, bus>>
  BY <1>2 DEF TypeOK
<1> QED
  BY <1>1, <1>2 DEF QueueCommand

\* A command is queued by the engine of an attached device.
LEMMA EngineAttached ==
    ASSUME Inv, NEW d \in Devices, QueuePrefix(d) \/ QueueLast(d)
    PROVE  phase[d] = "in" /\ pBus[d] \in Buses /\ bus[pBus[d]].alive
<1>1. phase[d] = "in"
  BY DEF Inv, CmdInv, CmdOf, QueuePrefix, QueueLast, EngineRuns
<1> QED
  BY <1>1 DEF Inv, LifeInv, PhaseInv

LEMMA TypesOfQueuePrefix ==
    ASSUME Inv, NEW d \in Devices, QueuePrefix(d) PROVE TypeOK'
<1>1. PICK frames \in PrefixCommands(d) : QueueCommand(d, frames)
  BY DEF QueuePrefix
<1>2. /\ free' \in [Devices -> Nat] /\ pending' \in [Devices -> Seq(FrameType)]
      /\ CmdPending' \in [Devices -> BOOLEAN] /\ bus' \in [Buses -> BusType]
  BY <1>1, EngineAttached, TypesOfQueue DEF Inv
<1>3. engine' \in [Devices -> {"idle", "prefix"}]
  BY DEF QueuePrefix, Inv, TypeOK
<1> QED
  BY <1>2, <1>3 DEF QueuePrefix, Inv, TypeOK, lifeVars, hwVars

LEMMA TypesOfQueueLast ==
    ASSUME Inv, NEW d \in Devices, QueueLast(d) PROVE TypeOK'
<1>1. PICK frames \in Commands(d) : QueueCommand(d, frames)
  BY DEF QueueLast
<1>2. /\ free' \in [Devices -> Nat] /\ pending' \in [Devices -> Seq(FrameType)]
      /\ CmdPending' \in [Devices -> BOOLEAN] /\ bus' \in [Buses -> BusType]
  BY <1>1, EngineAttached, TypesOfQueue DEF Inv
<1>3. engine' \in [Devices -> {"idle", "prefix"}]
  BY DEF QueueLast, Inv, TypeOK
<1> QED
  BY <1>2, <1>3 DEF QueueLast, Inv, TypeOK, lifeVars, hwVars

\* The second half of the thread's loop.
LEMMA WentOn ==
    ASSUME TypeOK, NEW b \in Buses, NEW rec \in BusType, GoOn(b, rec)
    PROVE  /\ bus' \in [Buses -> BusType] /\ bus'[b] = rec
           /\ thread' \in [Buses -> {"none", "wait", "callback", "scan", "arm", "ended"}]
           /\ cursor' \in [Buses -> Devices \cup {None}]
           /\ thread'[b] \in {"arm", "scan"}
           /\ thread'[b] = "scan" => ~rec.busy /\ rec.first # <<>> /\ cursor'[b] = ScanStart(rec)
           /\ \A c \in Buses \ {b} : /\ bus'[c] = bus[c] /\ thread'[c] = thread[c]
                                     /\ cursor'[c] = cursor[c]
<1>1. rec.first \in Seq(Devices) /\ rec.active \in Devices \cup {None}
  BY RecordTyped
<1>2. ScanStart(rec) \in Devices \cup {None}
  BY <1>1, FirstListed, ListedAreDevices DEF ScanStart
<1>3. bus' \in [Buses -> BusType] /\ bus'[b] = rec /\ \A c \in Buses \ {b} : bus'[c] = bus[c]
  BY DEF GoOn, TypeOK
<1>4. /\ thread' \in [Buses -> {"none", "wait", "callback", "scan", "arm", "ended"}]
      /\ thread'[b] \in {"arm", "scan"}
      /\ thread'[b] = "scan" => ~rec.busy /\ rec.first # <<>>
      /\ \A c \in Buses \ {b} : thread'[c] = thread[c]
  BY DEF GoOn, TypeOK, StillBusy
<1>5. /\ cursor' \in [Buses -> Devices \cup {None}]
      /\ ~rec.busy => cursor'[b] = ScanStart(rec)
      /\ \A c \in Buses \ {b} : cursor'[c] = cursor[c]
  BY <1>2 DEF GoOn, TypeOK, StillBusy
<1> QED
  BY <1>3, <1>4, <1>5

LEMMA WokenTyped ==
    ASSUME NEW rec \in BusType
    PROVE  LET w == Woken(rec)
           IN  /\ w \in BusType /\ w.alive = rec.alive /\ w.ref = rec.ref /\ w.first = rec.first
               /\ w.active = rec.active /\ w.busy = rec.busy /\ w.kill = rec.kill
               /\ w.frame = rec.frame
  BY DEF Woken, BusType

LEMMA TypesOfNothingDone ==
    ASSUME TypeOK, NEW b \in Buses, NothingDone(b) PROVE TypeOK'
<1>1. bus[b] \in BusType
  BY DEF TypeOK
<1>2. Woken(bus[b]) \in BusType
  BY <1>1, WokenTyped
<1>3. /\ bus' \in [Buses -> BusType]
      /\ thread' \in [Buses -> {"none", "wait", "callback", "scan", "arm", "ended"}]
      /\ cursor' \in [Buses -> Devices \cup {None}]
  BY <1>2, WentOn DEF NothingDone
<1>4. EIR_MII' \in BOOLEAN
  BY DEF NothingDone
<1> QED
  BY <1>3, <1>4 DEF NothingDone, TypeOK, lifeVars, devVars

LEMMA TypesOfTransferDone ==
    ASSUME TypeOK, NEW b \in Buses, TransferDone(b) PROVE TypeOK'
<1> DEFINE rec == Woken(bus[b])
<1> USE DEF TransferDone
<1>1. bus[b] \in BusType
  BY DEF TypeOK
<1>2. rec \in BusType
  BY <1>1, WokenTyped
<1>3. rec.active \in Devices
  BY <1>2, RecordTyped
<1>4. [rec EXCEPT !.busy = FALSE] \in BusType
  BY <1>2, RecordChanged
<1>5. \A f \in FrameType : [rec EXCEPT !.busy = FALSE, !.frame = f] \in BusType
  <2> HIDE DEF rec
  <2>1. \A f \in FrameType : [[rec EXCEPT !.busy = FALSE] EXCEPT !.frame = f] \in BusType
    BY <1>4, RecordChanged
  <2> QED
    BY <2>1
<1>6. PICK d \in Devices : d = rec.active
  BY <1>3
<1>7. pending[d] \in Seq(FrameType) /\ free[d] \in Nat
  BY DEF TypeOK
<1>8. /\ bus' \in [Buses -> BusType] /\ pending' \in [Devices -> Seq(FrameType)]
      /\ free' \in [Devices -> Nat]
  <2>1. CASE /\ pending[d] # <<>>
             /\ pending' = [pending EXCEPT ![d] = Tail(@)]
             /\ free' = [free EXCEPT ![d] = @ + 1]
             /\ bus' = [bus EXCEPT ![b] = [rec EXCEPT !.busy = FALSE, !.frame = Head(pending[d])]]
    <3>1. Head(pending[d]) \in FrameType /\ Tail(pending[d]) \in Seq(FrameType)
      BY <1>7, <2>1, HeadTailProperties
    <3>2. [rec EXCEPT !.busy = FALSE, !.frame = Head(pending[d])] \in BusType
      BY <1>5, <3>1
    <3> HIDE DEF rec
    <3>3. bus' \in [Buses -> BusType]
      BY <2>1, <3>2 DEF TypeOK
    <3>4. pending' \in [Devices -> Seq(FrameType)]
      BY <2>1, <3>1 DEF TypeOK
    <3>5. free' \in [Devices -> Nat]
      BY <1>7, <2>1 DEF TypeOK
    <3> QED
      BY <3>3, <3>4, <3>5
  <2>2. CASE /\ bus' = [bus EXCEPT ![b] = [rec EXCEPT !.busy = FALSE, !.frame = NoFrame]]
             /\ UNCHANGED <<pending, free>>
    <3>1. [rec EXCEPT !.busy = FALSE, !.frame = NoFrame] \in BusType
      BY <1>5, NoFrameTyped
    <3> HIDE DEF rec
    <3> QED
      BY <2>2, <3>1 DEF TypeOK
  <2> QED
    BY <1>6, <2>1, <2>2
<1>9. thread' \in [Buses -> {"none", "wait", "callback", "scan", "arm", "ended"}]
  BY DEF TypeOK
<1>10. EIR_MII' \in BOOLEAN
  BY DEF ClearedMII
<1> QED
  BY <1>8, <1>9, <1>10 DEF TypeOK, lifeVars

\* The device whose callbacks are called is one of the list's, and the search
\* goes on with one of the list's.
LEMMA CallbackRecord ==
    ASSUME Inv, NEW b \in Buses, thread[b] = "callback"
    PROVE  LET rec == bus[b]
               new == [rec EXCEPT !.active = Candidate(rec), !.frame = NoFrame]
           IN  /\ rec \in BusType /\ rec.alive /\ rec.active \in Range(rec.first)
               /\ rec.active \in On(b) /\ ~rec.busy
               /\ new \in BusType /\ new.active \in Range(rec.first) \cup {None}
               /\ new.alive = rec.alive /\ new.ref = rec.ref /\ new.first = rec.first
               /\ new.busy = rec.busy /\ new.frame = NoFrame
<1> DEFINE rec == bus[b]
           c == Candidate(rec)
<1>1. rec \in BusType /\ rec.first \in Seq(Devices)
  BY RecordTyped DEF Inv, TypeOK
<1>2. rec.alive
  BY DEF Inv, LifeInv
<1>3. rec.active \in On(b) /\ Range(rec.first) = On(b) /\ ~rec.busy
  BY <1>2 DEF Inv, ThreadInv, Served
<1>4. c \in Range(rec.first) \cup {None}
  BY <1>1, <1>3, NextListed DEF Candidate
<1>5. c \in Devices \cup {None}
  BY <1>1, <1>4, ListedAreDevices
<1> HIDE DEF c
<1> DEFINE mid == [rec EXCEPT !.active = c]
           new == [rec EXCEPT !.active = c, !.frame = NoFrame]
<1>6. mid \in BusType
  BY <1>1, <1>5, RecordChanged
<1>7. new \in BusType
  <2>1. [mid EXCEPT !.frame = NoFrame] \in BusType
    <3> HIDE DEF mid
    <3> QED
      BY <1>6, NoFrameTyped, RecordChanged
  <2> QED
    BY <2>1
<1>8. /\ new.active = c /\ new.alive = rec.alive /\ new.ref = rec.ref /\ new.first = rec.first
      /\ new.busy = rec.busy /\ new.frame = NoFrame
  <2> HIDE DEF rec
  <2> QED
    BY <1>1 DEF BusType
<1> QED
  BY <1>1, <1>2, <1>3, <1>4, <1>7, <1>8 DEF c

LEMMA TypesOfCallback ==
    ASSUME Inv, NEW b \in Buses, Callback(b) PROVE TypeOK'
<1> DEFINE rec == bus[b]
           new == [rec EXCEPT !.active = Candidate(rec), !.frame = NoFrame]
<1>1. thread[b] = "callback" /\ GoOn(b, new)
  BY DEF Callback
<1>2. rec \in BusType /\ new \in BusType /\ rec.active \in Devices
  BY <1>1, CallbackRecord DEF On
<1> HIDE DEF new
<1>3. /\ bus' \in [Buses -> BusType]
      /\ thread' \in [Buses -> {"none", "wait", "callback", "scan", "arm", "ended"}]
      /\ cursor' \in [Buses -> Devices \cup {None}]
  BY <1>1, <1>2, WentOn DEF Inv
<1>4. result' \in [Devices -> FrameType]
  <2>1. (IF MMFR.done THEN MMFR.frame ELSE NoFrame) \in FrameType
    BY NoFrameTyped DEF Inv, TypeOK
  <2> QED
    BY <1>2, <2>1 DEF Callback, Inv, TypeOK
<1>5. CmdPending' \in [Devices -> BOOLEAN]
  BY <1>2 DEF Callback, Inv, TypeOK
<1> QED
  BY <1>3, <1>4, <1>5 DEF Callback, Inv, TypeOK, lifeVars, hwVars

\* The device the thread asks next.
AskedNext(b) ==
    LET e == NextDevice(bus[b].first, cursor[b])
    IN  IF e = None THEN FirstDevice(bus[b].first) ELSE e

LEMMA ScanRecord ==
    ASSUME Inv, NEW b \in Buses, thread[b] = "scan"
    PROVE  LET rec == bus[b]
               new == [rec EXCEPT !.active = cursor[b], !.busy = TRUE]
           IN  /\ rec \in BusType /\ rec.alive /\ cursor[b] \in On(b) /\ cursor[b] \in Devices
               /\ ~rec.busy /\ AskedNext(b) \in On(b)
               /\ new \in BusType /\ new.active = cursor[b] /\ new.busy
               /\ new.alive = rec.alive /\ new.ref = rec.ref /\ new.first = rec.first
               /\ new.frame = rec.frame
<1> DEFINE rec == bus[b]
           d == cursor[b]
<1>1. rec \in BusType /\ rec.first \in Seq(Devices)
  BY RecordTyped DEF Inv, TypeOK
<1>2. rec.alive
  BY DEF Inv, LifeInv
<1>3. d \in On(b) /\ Range(rec.first) = On(b) /\ ~rec.busy
  BY <1>2 DEF Inv, ThreadInv, Served
<1>4. AskedNext(b) \in On(b)
  <2>1. rec.first # <<>> /\ NextDevice(rec.first, d) \in Range(rec.first) \cup {None}
    BY <1>1, <1>3, NextListed, FirstListed
  <2>2. FirstDevice(rec.first) \in Range(rec.first)
    BY <1>1, <2>1, FirstListed
  <2> QED
    BY <1>3, <2>1, <2>2 DEF AskedNext
<1>5. d \in Devices
  BY <1>3 DEF On
<1> DEFINE mid == [rec EXCEPT !.active = d]
           new == [rec EXCEPT !.active = d, !.busy = TRUE]
<1>6. mid \in BusType
  BY <1>1, <1>5, RecordChanged
<1>7. new \in BusType
  <2>1. [mid EXCEPT !.busy = TRUE] \in BusType
    <3> HIDE DEF mid
    <3> QED
      BY <1>6, RecordChanged
  <2> QED
    BY <2>1
<1>8. /\ new.active = d /\ new.alive = rec.alive /\ new.ref = rec.ref /\ new.first = rec.first
      /\ new.busy = TRUE /\ new.frame = rec.frame
  <2> HIDE DEF rec, d
  <2> QED
    BY <1>1 DEF BusType
<1> QED
  BY <1>1, <1>2, <1>3, <1>4, <1>5, <1>7, <1>8

\* The two outcomes of asking a device.
Sends(b) ==
    /\ pending[cursor[b]] # <<>>
    /\ WriteMMFR(Head(pending[cursor[b]])) /\ MSCR' = cursor[b]
    /\ bus' = [bus EXCEPT ![b] = [bus[b] EXCEPT !.active = cursor[b], !.busy = TRUE]]
    /\ thread' = [thread EXCEPT ![b] = "arm"] /\ cursor' = [cursor EXCEPT ![b] = None]
AsksOn(b) ==
    /\ pending[cursor[b]] = <<>>
    /\ \/ thread' = [thread EXCEPT ![b] = "arm"] /\ cursor' = [cursor EXCEPT ![b] = None]
       \/ /\ thread' = [thread EXCEPT ![b] = "scan"]
          /\ cursor' = [cursor EXCEPT ![b] = AskedNext(b)]
    /\ UNCHANGED <<bus, MMFR, MSCR, wire>>

LEMMA ScanCases ==
    ASSUME Inv, NEW b \in Buses, Scan(b)
    PROVE  thread[b] = "scan" /\ (Sends(b) \/ AsksOn(b))
<1>0. thread[b] = "scan" /\ bus \in [Buses -> BusType]
  BY DEF Scan, Inv, TypeOK
<1>1. CASE pending[cursor[b]] # <<>>
  <2>1. /\ bus' = [bus EXCEPT ![b].active = cursor[b], ![b].busy = TRUE]
        /\ WriteMMFR(Head(pending[cursor[b]])) /\ MSCR' = cursor[b]
        /\ thread' = [thread EXCEPT ![b] = "arm"] /\ cursor' = [cursor EXCEPT ![b] = None]
    BY <1>1 DEF Scan, Clocked
  <2>2. bus' = [bus EXCEPT ![b] = [bus[b] EXCEPT !.active = cursor[b], !.busy = TRUE]]
    BY <1>0, <2>1
  <2> QED
    BY <1>0, <1>1, <2>1, <2>2 DEF Sends
<1>2. CASE pending[cursor[b]] = <<>>
  <2> DEFINE nxt == AskedNext(b)
  <2>1. /\ thread' = [thread EXCEPT ![b] = IF nxt = ScanStart(bus[b]) THEN "arm" ELSE "scan"]
        /\ cursor' = [cursor EXCEPT ![b] = IF nxt = ScanStart(bus[b]) THEN None ELSE nxt]
        /\ UNCHANGED <<bus, MMFR, MSCR, wire>>
    BY <1>2 DEF Scan, AskedNext
  <2> HIDE DEF nxt
  <2>2. CASE nxt = ScanStart(bus[b])
    BY <1>0, <1>2, <2>1, <2>2 DEF AsksOn
  <2>3. CASE nxt # ScanStart(bus[b])
    BY <1>0, <1>2, <2>1, <2>3 DEF AsksOn, nxt
  <2> QED
    BY <2>2, <2>3
<1> QED
  BY <1>1, <1>2

LEMMA TypesOfScan ==
    ASSUME Inv, NEW b \in Buses, Scan(b) PROVE TypeOK'
<1>1. thread[b] = "scan"
  BY DEF Scan
<1>2. cursor[b] \in Devices /\ AskedNext(b) \in Devices
  BY <1>1, ScanRecord DEF On
<1>3. CASE Sends(b)
  <2>1. [bus[b] EXCEPT !.active = cursor[b], !.busy = TRUE] \in BusType
    BY <1>1, ScanRecord
  <2>2. bus' \in [Buses -> BusType]
    BY <1>3, <2>1 DEF Sends, Inv, TypeOK
  <2>3. Head(pending[cursor[b]]) \in FrameType
    <3>1. pending[cursor[b]] \in Seq(FrameType)
      BY <1>2 DEF Inv, TypeOK
    <3> QED
      BY <1>3, <3>1, HeadTailProperties DEF Sends
  <2>4. wire' \in FrameType /\ MMFR' \in [frame : FrameType, done : BOOLEAN]
    BY <1>3, <2>3 DEF Sends, WriteMMFR, Inv, TypeOK
  <2>5. /\ thread' \in [Buses -> {"none", "wait", "callback", "scan", "arm", "ended"}]
        /\ cursor' \in [Buses -> Devices \cup {None}]
    BY <1>3 DEF Sends, Inv, TypeOK
  <2>6. MSCR' \in Devices \cup {None}
    BY <1>2, <1>3 DEF Sends
  <2> QED
    BY <2>2, <2>4, <2>5, <2>6 DEF Scan, Inv, TypeOK, lifeVars, devVars
<1>4. CASE AsksOn(b)
  <2>1. /\ thread' \in [Buses -> {"none", "wait", "callback", "scan", "arm", "ended"}]
        /\ cursor' \in [Buses -> Devices \cup {None}]
    <3>1. CASE thread' = [thread EXCEPT ![b] = "arm"] /\ cursor' = [cursor EXCEPT ![b] = None]
      BY <3>1 DEF Inv, TypeOK
    <3>2. CASE /\ thread' = [thread EXCEPT ![b] = "scan"]
               /\ cursor' = [cursor EXCEPT ![b] = AskedNext(b)]
      BY <1>2, <3>2 DEF Inv, TypeOK
    <3> QED
      BY <1>4, <3>1, <3>2 DEF AsksOn
  <2>2. UNCHANGED <<bus, MMFR, MSCR, wire, busList, lifeVars, devVars, EIR_MII>>
    BY <1>4 DEF AsksOn, Scan
  <2> QED
    BY <2>1, <2>2 DEF Inv, TypeOK, lifeVars, devVars
<1> QED
  BY <1>3, <1>4, ScanCases

LEMMA TypesOfArm ==
    ASSUME TypeOK, NEW b \in Buses, Arm(b) PROVE TypeOK'
<1>1. bus[b] \in BusType
  BY DEF TypeOK
<1>2. [bus[b] EXCEPT !.timer = "set"] \in BusType
  BY <1>1, RecordChanged
<1>3. bus' \in [Buses -> BusType] /\ MSCR' \in Devices \cup {None}
  <2>1. CASE bus' = [bus EXCEPT ![b].timer = "set"] /\ UNCHANGED MSCR
    BY <1>2, <2>1 DEF TypeOK
  <2>2. CASE MSCR' = None /\ UNCHANGED bus
    BY <2>2 DEF TypeOK
  <2> QED
    BY <2>1, <2>2 DEF Arm
<1>4. thread' \in [Buses -> {"none", "wait", "callback", "scan", "arm", "ended"}]
  BY DEF Arm, TypeOK
<1> QED
  BY <1>3, <1>4 DEF Arm, TypeOK, lifeVars, devVars

LEMMA TypesOfKilled ==
    ASSUME TypeOK, NEW b \in Buses, Killed(b) PROVE TypeOK'
<1>1. bus[b] \in BusType
  BY DEF TypeOK
<1>2. [bus[b] EXCEPT !.timer = "off"] \in BusType
  BY <1>1, RecordChanged
<1>3. bus' \in [Buses -> BusType]
  BY <1>2 DEF Killed, TypeOK
<1>4. thread' \in [Buses -> {"none", "wait", "callback", "scan", "arm", "ended"}]
  BY DEF Killed, TypeOK
<1> QED
  BY <1>3, <1>4 DEF Killed, TypeOK, lifeVars, devVars, hwVars

LEMMA TypesOfTimerExpires ==
    ASSUME TypeOK, NEW b \in Buses, TimerExpires(b) PROVE TypeOK'
<1>1. bus[b] \in BusType
  BY DEF TypeOK
<1>2. [bus[b] EXCEPT !.timer = "fired"] \in BusType
  BY <1>1, RecordChanged
<1>3. bus' \in [Buses -> BusType]
  BY <1>2 DEF TimerExpires, TypeOK
<1> QED
  BY <1>3 DEF TimerExpires, TypeOK, lifeVars, devVars, hwVars

LEMMA TypesOfFrameSent ==
    ASSUME TypeOK, FrameSent PROVE TypeOK'
<1>1. MMFR' \in [frame : FrameType, done : BOOLEAN] /\ wire' \in FrameType /\ EIR_MII' \in BOOLEAN
  BY NoFrameTyped DEF FrameSent, TypeOK
<1> QED
  BY <1>1 DEF FrameSent, TypeOK, busVars, lifeVars, devVars

LEMMA TypesKept ==
    ASSUME Inv, [Next]_vars PROVE TypeOK'
<1>1. ASSUME NEW d \in Devices, Adapter(d) PROVE TypeOK'
  BY <1>1, TypesOfInitDevice, TypesOfCreateBus, TypesOfLinkBus, TypesOfAddDevice,
     TypesOfNotInitialized, TypesOfRemoveDevice, TypesOfClose, TypesOfFreeBus
     DEF Inv, Adapter
<1>2. ASSUME NEW d \in Devices, QueuePrefix(d) \/ QueueLast(d) PROVE TypeOK'
  BY <1>2, TypesOfQueuePrefix, TypesOfQueueLast
<1>3. ASSUME NEW b \in Buses, MDIOBus_Main(b) PROVE TypeOK'
  BY <1>3, TypesOfNothingDone, TypesOfTransferDone, TypesOfCallback, TypesOfScan, TypesOfArm,
     TypesOfKilled DEF Inv, MDIOBus_Main
<1>4. ASSUME NEW b \in Buses, TimerExpires(b) PROVE TypeOK'
  BY <1>4, TypesOfTimerExpires DEF Inv
<1>5. CASE FrameSent
  BY <1>5, TypesOfFrameSent DEF Inv
<1>6. CASE UNCHANGED vars
  BY <1>6 DEF Inv, TypeOK, vars, busVars, lifeVars, devVars, hwVars
<1> QED
  BY <1>1, <1>2, <1>3, <1>4, <1>5, <1>6 DEF Next

-----------------------------------------------------------------------------
(* The bus lives as long as it is referenced: LifeInv is inductive *)

\* A step that leaves the bus list, the references and the adapters' progress.
LifeKept ==
    /\ UNCHANGED <<phase, pBus, closing, busList>>
    /\ \A b \in Buses : /\ bus'[b].alive = bus[b].alive /\ bus'[b].ref = bus[b].ref
                        /\ thread'[b] = "none" <=> thread[b] = "none"

LEMMA LifeUndisturbed == ASSUME LifeInv, LifeKept PROVE LifeInv'
<1>0. UNCHANGED <<phase, pBus, closing, busList>>
  BY DEF LifeKept
<1>1. \A b : Users(b)' = Users(b)
  BY <1>0 DEF Users
<1>2. ASSUME NEW d \in Devices PROVE PhaseInv(d)'
  <2>1. PhaseInv(d)
    BY DEF LifeInv
  <2> QED
    BY <1>0, <1>1, <2>1 DEF LifeKept, PhaseInv
<1>3. \A d, e \in Devices : (~Settled(d) /\ ~Settled(e) => d = e)'
  BY <1>0 DEF LifeInv, Settled
<1>4. \A b \in Buses : (bus[b].alive <=> thread[b] # "none")'
  BY DEF LifeInv, LifeKept
<1>5. \A b, c \in Buses : (bus[b].alive /\ bus[c].alive => b = c)'
  BY DEF LifeInv, LifeKept
<1>6. (busList # <<>> => \E b \in Buses : busList = <<b>> /\ bus[b].alive)'
  BY <1>0 DEF LifeInv, LifeKept
<1>7. ASSUME NEW b \in Buses, bus'[b].alive
      PROVE  /\ busList' = <<b>> \/ \E d \in Devices : phase'[d] = "link"
             /\ bus'[b].ref = Cardinality(Users(b)')
  BY <1>0, <1>1, <1>7 DEF LifeInv, LifeKept
<1> QED
  BY <1>2, <1>3, <1>4, <1>5, <1>6, <1>7 DEF LifeInv

LEMMA QueueKeepsLife ==
    ASSUME Inv, NEW d \in Devices, QueuePrefix(d) \/ QueueLast(d) PROVE LifeKept
<1>1. PICK frames : QueueCommand(d, frames)
  BY DEF QueuePrefix, QueueLast
<1>2. \A b \in Buses : bus'[b].alive = bus[b].alive /\ bus'[b].ref = bus[b].ref
  <2>1. CASE UNCHANGED bus
    BY <2>1
  <2>2. CASE bus' = [bus EXCEPT ![pBus[d]].start = @ \/ pending[d] = <<>>]
    <3>1. pBus[d] \in Buses /\ bus[pBus[d]] \in BusType /\ bus \in Recs
      BY EngineAttached DEF Inv, TypeOK, Recs
    <3>2. PICK x : x = (bus[pBus[d]].start \/ pending[d] = <<>>)
      OBVIOUS
    <3>3. bus' = [bus EXCEPT ![pBus[d]] = [bus[pBus[d]] EXCEPT !.start = x]]
      BY <2>2, <3>2
    <3> QED
      BY <3>1, <3>3 DEF Recs, BusType
  <2> QED
    BY <1>1, <2>1, <2>2 DEF QueueCommand
<1> QED
  BY <1>2 DEF QueuePrefix, QueueLast, LifeKept, lifeVars

LEMMA MainKeepsLife ==
    ASSUME Inv, NEW b \in Buses, MDIOBus_Main(b) \/ TimerExpires(b) PROVE LifeKept
<1>0. bus \in Recs /\ bus[b] \in BusType /\ TypeOK
  BY DEF Inv, TypeOK, Recs
<1>1. UNCHANGED <<phase, pBus, closing, busList>>
  BY DEF MDIOBus_Main, NothingDone, TransferDone, Callback, Scan, Arm, Killed, TimerExpires,
         lifeVars
<1>2. ASSUME NEW r, bus' = [bus EXCEPT ![b] = r], r.alive = bus[b].alive, r.ref = bus[b].ref
      PROVE  \A c \in Buses : bus'[c].alive = bus[c].alive /\ bus'[c].ref = bus[c].ref
  BY <1>0, <1>2 DEF Recs
<1>3. ASSUME NEW t \in {"wait", "callback", "scan", "arm", "ended"},
             thread' = [thread EXCEPT ![b] = t], thread[b] # "none"
      PROVE  \A c \in Buses : thread'[c] = "none" <=> thread[c] = "none"
  BY <1>0, <1>3 DEF TypeOK
<1>4. CASE NothingDone(b)
  <2>1. Woken(bus[b]) \in BusType /\ GoOn(b, Woken(bus[b])) /\ thread[b] = "wait"
    BY <1>0, <1>4, WokenTyped DEF NothingDone, Awake
  <2>2. \A c \in Buses : thread'[c] = "none" <=> thread[c] = "none"
    BY <1>0, <2>1, WentOn
  <2>3. \A c \in Buses : bus'[c].alive = bus[c].alive /\ bus'[c].ref = bus[c].ref
    BY <1>0, <2>1, WentOn, WokenTyped
  <2> QED
    BY <1>1, <2>2, <2>3 DEF LifeKept
<1>5. CASE TransferDone(b)
  <2> DEFINE rec == Woken(bus[b])
  <2>0. rec \in BusType /\ rec.alive = bus[b].alive /\ rec.ref = bus[b].ref
    BY <1>0, WokenTyped
  <2>1. PICK f : bus' = [bus EXCEPT ![b] = [rec EXCEPT !.busy = FALSE, !.frame = f]]
    BY <1>5 DEF TransferDone
  <2>2. thread[b] = "wait" /\ thread' = [thread EXCEPT ![b] = "callback"]
    BY <1>5 DEF TransferDone, Awake
  <2> HIDE DEF rec
  <2> DEFINE new == [rec EXCEPT !.busy = FALSE, !.frame = f]
  <2>3. new.alive = rec.alive /\ new.ref = rec.ref
    BY <2>0 DEF BusType
  <2> HIDE DEF new
  <2>4. bus' = [bus EXCEPT ![b] = new]
    BY <2>1 DEF new
  <2>5. \A c \in Buses : bus'[c].alive = bus[c].alive /\ bus'[c].ref = bus[c].ref
    BY <1>2, <2>0, <2>3, <2>4
  <2>6. \A c \in Buses : thread'[c] = "none" <=> thread[c] = "none"
    BY <1>3, <2>2
  <2> QED
    BY <1>1, <2>5, <2>6 DEF LifeKept
<1>6. CASE Callback(b)
  <2> DEFINE new == [bus[b] EXCEPT !.active = Candidate(bus[b]), !.frame = NoFrame]
  <2>1. thread[b] = "callback" /\ GoOn(b, new)
    BY <1>6 DEF Callback
  <2>2. new \in BusType /\ new.alive = bus[b].alive /\ new.ref = bus[b].ref
    BY <2>1, CallbackRecord
  <2> HIDE DEF new
  <2>3. \A c \in Buses : thread'[c] = "none" <=> thread[c] = "none"
    BY <1>0, <2>1, <2>2, WentOn
  <2>4. \A c \in Buses : bus'[c].alive = bus[c].alive /\ bus'[c].ref = bus[c].ref
    BY <1>0, <2>1, <2>2, WentOn
  <2> QED
    BY <1>1, <2>3, <2>4 DEF LifeKept
<1>7. CASE Scan(b)
  <2>1. thread[b] = "scan" /\ (Sends(b) \/ AsksOn(b))
    BY <1>7, ScanCases
  <2>2. \A c \in Buses : thread'[c] = "none" <=> thread[c] = "none"
    <3>1. \/ thread' = [thread EXCEPT ![b] = "arm"]
          \/ thread' = [thread EXCEPT ![b] = "scan"]
      BY <2>1 DEF Sends, AsksOn
    <3> QED
      BY <1>3, <2>1, <3>1
  <2>3. \A c \in Buses : bus'[c].alive = bus[c].alive /\ bus'[c].ref = bus[c].ref
    <3>1. CASE Sends(b)
      BY <1>2, <2>1, <3>1, ScanRecord DEF Sends
    <3>2. CASE AsksOn(b)
      BY <3>2 DEF AsksOn
    <3> QED
      BY <2>1, <3>1, <3>2
  <2> QED
    BY <1>1, <2>2, <2>3 DEF LifeKept
<1>8. CASE Arm(b) \/ Killed(b) \/ TimerExpires(b)
  <2>1. \A c \in Buses : thread'[c] = "none" <=> thread[c] = "none"
    <3>1. \/ UNCHANGED thread
          \/ thread[b] = "arm" /\ thread' = [thread EXCEPT ![b] = "wait"]
          \/ thread[b] = "wait" /\ thread' = [thread EXCEPT ![b] = "ended"]
      BY <1>8 DEF Arm, Killed, TimerExpires
    <3>2. CASE UNCHANGED thread
      BY <3>2
    <3>3. CASE thread[b] = "arm" /\ thread' = [thread EXCEPT ![b] = "wait"]
      BY <1>3, <3>3
    <3>4. CASE thread[b] = "wait" /\ thread' = [thread EXCEPT ![b] = "ended"]
      BY <1>3, <3>4
    <3> QED
      BY <3>1, <3>2, <3>3, <3>4
  <2>2. \/ UNCHANGED bus
        \/ \E t \in {"off", "set", "fired"} : bus' = [bus EXCEPT ![b] = [bus[b] EXCEPT !.timer = t]]
    BY <1>8 DEF Arm, Killed, TimerExpires
  <2>3. \A t \in {"off", "set", "fired"} :
           LET r == [bus[b] EXCEPT !.timer = t] IN r.alive = bus[b].alive /\ r.ref = bus[b].ref
    BY <1>0 DEF BusType
  <2>4. \A c \in Buses : bus'[c].alive = bus[c].alive /\ bus'[c].ref = bus[c].ref
    BY <1>2, <2>2, <2>3
  <2> QED
    BY <1>1, <2>1, <2>4 DEF LifeKept
<1> QED
  BY <1>4, <1>5, <1>6, <1>7, <1>8 DEF MDIOBus_Main

\* An adapter at work is the only one that is.
LEMMA WorksAlone ==
    ASSUME Serial, NEW d \in Devices, MayWork(d)
    PROVE  \A e \in Devices \ {d} : phase[e] \in {"out", "failed", "in"}
  BY DEF MayWork, Settled

\* What its step leaves of LifeInv's first two parts.
Elsewhere(d) ==
    \A e \in Devices \ {d} :
        /\ phase[e] \in {"out", "failed", "in"}
        /\ phase'[e] = phase[e] /\ pBus'[e] = pBus[e] /\ closing'[e] = closing[e]
        /\ phase[e] = "in" => bus'[pBus[e]].alive

LEMMA OthersKept ==
    ASSUME LifeInv, NEW d \in Devices, Elsewhere(d), PhaseInv(d)'
    PROVE  /\ \A e, f \in Devices : (~Settled(e) /\ ~Settled(f) => e = f)'
           /\ \A e \in Devices : PhaseInv(e)'
<1>1. \A e, f \in Devices : (~Settled(e) /\ ~Settled(f) => e = f)'
  BY DEF Elsewhere, Settled
<1>2. ASSUME NEW e \in Devices \ {d} PROVE PhaseInv(e)'
  <2>1. PhaseInv(e)
    BY DEF LifeInv
  <2>2. CASE phase[e] = "in"
    BY <2>1, <2>2 DEF PhaseInv, Elsewhere
  <2>3. CASE phase[e] \in {"out", "failed"}
    BY <2>1, <2>3 DEF PhaseInv, Elsewhere
  <2> QED
    BY <2>2, <2>3 DEF Elsewhere
<1> QED
  BY <1>1, <1>2

\* The users of a bus change only by the device at work.
LEMMA UsersElsewhere ==
    ASSUME NEW d \in Devices, Elsewhere(d), NEW b
    PROVE  Users(b)' \ {d} = Users(b) \ {d}
  BY DEF Users, Elsewhere

\* No adapter links a bus while another one is at work.
LEMMA OnlyBus ==
    ASSUME LifeInv, NEW d \in Devices, phase[d] # "link",
           \A e \in Devices \ {d} : phase[e] \in {"out", "failed", "in"},
           NEW b \in Buses, bus[b].alive
    PROVE  busList = <<b>>
  BY DEF LifeInv

LEMMA LifeOfInitDevice ==
    ASSUME Inv, Serial, NEW d \in Devices, MDIODev_InitDevice(d) PROVE LifeInv'
<1>0. TypeOK /\ LifeInv
  BY DEF Inv
<1>1. /\ phase[d] = "out" /\ pBus[d] = None /\ closing[d] = None
      /\ UNCHANGED <<busList, thread, closing>>
      /\ \A e \in Devices \ {d} : phase[e] \in {"out", "failed", "in"}
  <2>1. PhaseInv(d)
    BY DEF Inv, LifeInv
  <2> QED
    BY <2>1, WorksAlone DEF MDIODev_InitDevice, PhaseInv
<1>2. \A b \in Buses : d \notin Users(b)
  BY <1>1, Constants DEF Users
<1>3. CASE UNCHANGED <<bus, pBus>> /\ (Goto(d, "failed") \/ (busList = <<>> /\ Goto(d, "create")))
  <2>1. /\ \A e \in Devices \ {d} : phase'[e] = phase[e]
        /\ phase'[d] = "failed" \/ (phase'[d] = "create" /\ busList = <<>>)
    BY <1>0, <1>3, PhaseMoved, PhaseNames DEF TypeOK
  <2>2. Elsewhere(d)
    BY <1>0, <1>1, <1>3, <2>1 DEF Elsewhere, LifeInv, PhaseInv
  <2>3. \A b \in Buses : bus[b].alive => busList = <<b>>
    BY <1>0, <1>1, OnlyBus
  <2>4. phase'[d] = "create" => \A b \in Buses : ~bus[b].alive
    BY <2>1, <2>3
  <2>5. PhaseInv(d)'
    BY <1>1, <1>3, <2>1, <2>4 DEF PhaseInv
  <2>6. \A b \in Buses : Users(b)' = Users(b)
    BY <1>1, <1>3, <2>1, <2>2 DEF Users, Elsewhere
  <2>7. \A b \in Buses : (bus[b].alive => busList = <<b>> /\ bus[b].ref = Cardinality(Users(b)))'
    BY <1>0, <1>1, <1>3, <2>3, <2>6 DEF LifeInv
  <2> QED
    BY <1>0, <1>1, <1>3, <2>2, <2>5, <2>7, OthersKept DEF LifeInv
<1>4. CASE /\ busList # <<>> /\ bus' = [bus EXCEPT ![Head(busList)] = Referenced(@)]
           /\ SetBus(d, Head(busList)) /\ Goto(d, "add")
  <2>1. PICK b \in Buses : busList = <<b>> /\ bus[b].alive
    BY <1>0, <1>4 DEF LifeInv
  <2>2. /\ bus[b] \in BusType /\ bus' = [bus EXCEPT ![b] = Referenced(bus[b])]
        /\ bus[b].ref \in Nat /\ pBus' = [pBus EXCEPT ![d] = b]
    BY <1>0, <1>4, <2>1, RecordTyped DEF TypeOK, SetBus
  <2>3. Referenced(bus[b]).alive = bus[b].alive /\ Referenced(bus[b]).ref = bus[b].ref + 1
    BY <2>2 DEF Referenced, BusType
  <2>4. /\ \A c \in Buses : bus'[c].alive = bus[c].alive
        /\ bus'[b].ref = bus[b].ref + 1
    BY <1>0, <2>2, <2>3 DEF TypeOK
  <2>5. /\ \A e \in Devices \ {d} : phase'[e] = phase[e] /\ pBus'[e] = pBus[e]
        /\ phase'[d] = "add" /\ pBus'[d] = b
    BY <1>0, <1>4, <2>2, PhaseMoved, PhaseNames DEF TypeOK
  <2>6. Elsewhere(d)
    <3> SUFFICES ASSUME NEW e \in Devices \ {d}, phase[e] = "in" PROVE bus'[pBus[e]].alive
      BY <1>1, <2>5 DEF Elsewhere
    <3>1. pBus[e] \in Buses /\ bus[pBus[e]].alive
      BY <1>0 DEF LifeInv, PhaseInv
    <3> QED
      BY <2>4, <3>1
  <2>7. PhaseInv(d)'
    BY <1>1, <2>1, <2>4, <2>5 DEF PhaseInv
  <2>8. Users(b)' = Users(b) \cup {d}
    <3>1. d \in Users(b)'
      BY <2>5 DEF Users
    <3> QED
      BY <2>6, <3>1, UsersElsewhere
  <2>9. bus'[b].ref = Cardinality(Users(b)')
    <3>1. Cardinality(Users(b) \cup {d}) = Cardinality(Users(b)) + 1
      BY <1>2, UsersFinite, FS_AddElement
    <3>2. bus[b].ref = Cardinality(Users(b))
      BY <1>0, <2>1 DEF LifeInv
    <3> QED
      BY <2>4, <2>8, <3>1, <3>2
  <2>10. \A c \in Buses : bus'[c].alive => c = b
    BY <1>0, <2>1, <2>4 DEF LifeInv
  <2> QED
    BY <1>0, <1>1, <2>1, <2>4, <2>6, <2>7, <2>9, <2>10, OthersKept DEF LifeInv
<1> QED
  BY <1>3, <1>4 DEF MDIODev_InitDevice

LEMMA LifeOfCreateBus ==
    ASSUME Inv, Assumed, NEW d \in Devices, CreateBus(d) PROVE LifeInv'
<1>0. TypeOK /\ LifeInv /\ PhaseInv(d)
  BY DEF Inv, LifeInv
<1>1. /\ phase[d] = "create" /\ pBus[d] = None /\ closing[d] = None /\ busList = <<>>
      /\ UNCHANGED <<busList, closing>>
      /\ \A b \in Buses : ~bus[b].alive
      /\ \A e \in Devices \ {d} : phase[e] \in {"out", "failed", "in"}
  BY <1>0, WorksAlone DEF Assumed, CreateBus, PhaseInv
<1>2. \A e \in Devices \ {d} : phase[e] \in {"out", "failed"} /\ pBus[e] = None /\ closing[e] = None
  BY <1>0, <1>1 DEF LifeInv, PhaseInv
<1>3. CASE UNCHANGED <<bus, thread, pBus>> /\ Goto(d, "failed")
  <2>1. phase'[d] = "failed" /\ \A e \in Devices \ {d} : phase'[e] = phase[e]
    BY <1>0, <1>3, PhaseMoved, PhaseNames DEF TypeOK
  <2>2. Elsewhere(d)
    BY <1>1, <1>2, <1>3, <2>1 DEF Elsewhere
  <2>3. PhaseInv(d)'
    BY <1>1, <1>3, <2>1 DEF PhaseInv
  <2> QED
    BY <1>0, <1>1, <1>3, <2>2, <2>3, OthersKept DEF LifeInv
<1>4. CASE \E b \in Buses : /\ SetBus(d, b) /\ bus' = [bus EXCEPT ![b] = FreshBus]
                            /\ thread' = [thread EXCEPT ![b] = "wait"] /\ Goto(d, "link")
  <2>1. PICK b \in Buses : /\ SetBus(d, b) /\ bus' = [bus EXCEPT ![b] = FreshBus]
                           /\ thread' = [thread EXCEPT ![b] = "wait"] /\ Goto(d, "link")
    BY <1>4
  <2>2. /\ phase'[d] = "link" /\ pBus'[d] = b
        /\ \A e \in Devices \ {d} : phase'[e] = phase[e] /\ pBus'[e] = pBus[e]
    BY <1>0, <2>1, PhaseMoved, PhaseNames DEF TypeOK, SetBus
  <2>3. /\ bus'[b] = FreshBus /\ \A c \in Buses \ {b} : bus'[c] = bus[c]
        /\ thread'[b] = "wait" /\ \A c \in Buses \ {b} : thread'[c] = thread[c]
    BY <1>0, <2>1 DEF TypeOK
  <2>4. bus'[b].alive /\ bus'[b].ref = 1 /\ \A c \in Buses : bus'[c].alive => c = b
    BY <1>1, <2>3, FreshTyped
  <2>5. Elsewhere(d)
    BY <1>1, <1>2, <2>2 DEF Elsewhere
  <2>6. PhaseInv(d)'
    BY <1>1, <2>2, <2>4 DEF PhaseInv
  <2>7. Users(b)' = {d}
    BY <1>1, <1>2, <2>2, Constants DEF Users
  <2>8. bus'[b].ref = Cardinality(Users(b)')
    BY <2>4, <2>7, FS_Singleton
  <2>9. \A c \in Buses : (bus[c].alive <=> thread[c] # "none")'
    BY <1>0, <2>3, <2>4 DEF LifeInv
  <2> QED
    BY <1>0, <1>1, <2>2, <2>4, <2>5, <2>6, <2>8, <2>9, OthersKept DEF LifeInv
<1> QED
  BY <1>3, <1>4 DEF CreateBus, Assumed

LEMMA LifeOfLinkBus ==
    ASSUME Inv, Serial, NEW d \in Devices, LinkBus(d) PROVE LifeInv'
<1>0. TypeOK /\ LifeInv /\ PhaseInv(d)
  BY DEF Inv, LifeInv
<1>1. /\ phase[d] = "link" /\ pBus[d] \in Buses /\ bus[pBus[d]].alive /\ closing[d] = None
      /\ busList = <<>> /\ UNCHANGED <<bus, thread, pBus, closing>>
      /\ \A e \in Devices \ {d} : phase[e] \in {"out", "failed", "in"}
  BY <1>0, WorksAlone DEF LinkBus, PhaseInv
<1>2. PICK b \in Buses : b = pBus[d]
  BY <1>1
<1>3. busList' = <<b>>
  BY <1>1, <1>2 DEF LinkBus
<1>4. phase'[d] = "add" /\ \A e \in Devices \ {d} : phase'[e] = phase[e]
  BY <1>0, PhaseMoved, PhaseNames DEF TypeOK, LinkBus
<1>5. Elsewhere(d)
  BY <1>0, <1>1, <1>4 DEF Elsewhere, LifeInv, PhaseInv
<1>6. PhaseInv(d)'
  BY <1>1, <1>4 DEF PhaseInv
<1>7. \A c \in Buses : Users(c)' = Users(c)
  BY <1>1, <1>4 DEF Users
<1>8. \A c \in Buses : bus[c].alive => c = b
  BY <1>0, <1>1, <1>2 DEF LifeInv
<1> QED
  BY <1>0, <1>1, <1>2, <1>3, <1>5, <1>6, <1>7, <1>8, OthersKept DEF LifeInv

\* Steps of an adapter at work that keep the references, the bus and its list.
LEMMA LifeOfUse ==
    ASSUME Inv, Serial, NEW d \in Devices, MayWork(d), phase[d] # "link",
           Elsewhere(d), PhaseInv(d)', UNCHANGED <<busList, thread>>,
           \A b \in Buses : bus'[b].alive = bus[b].alive /\ bus'[b].ref = bus[b].ref,
           \A b \in Buses : bus[b].alive => (d \in Users(b) <=> d \in Users(b)')
    PROVE  LifeInv'
<1>0. LifeInv
  BY DEF Inv
<1>1. \A b \in Buses : bus[b].alive => Users(b)' = Users(b)
  BY UsersElsewhere, SMTT(30)
<1>2. \A b \in Buses : bus[b].alive => busList = <<b>>
  BY <1>0, WorksAlone, OnlyBus
<1>3. \A b \in Buses : (bus[b].alive => busList = <<b>> /\ bus[b].ref = Cardinality(Users(b)))'
  BY <1>0, <1>1, <1>2 DEF LifeInv
<1> QED
  BY <1>0, <1>3, OthersKept DEF LifeInv

LEMMA LifeOfAddDevice ==
    ASSUME Inv, Serial, NEW d \in Devices, MDIOBus_AddDevice(d) PROVE LifeInv'
<1>0. TypeOK /\ LifeInv /\ PhaseInv(d)
  BY DEF Inv, LifeInv
<1>1. /\ phase[d] = "add" /\ pBus[d] \in Buses /\ bus[pBus[d]].alive /\ closing[d] = None
      /\ UNCHANGED <<busList, thread, pBus>> /\ MayWork(d)
      /\ \A e \in Devices \ {d} : phase[e] \in {"out", "failed", "in"}
  BY <1>0, WorksAlone DEF MDIOBus_AddDevice, PhaseInv
<1>2. PICK b \in Buses : b = pBus[d]
  BY <1>1
<1>3. bus[b] \in BusType
  BY <1>0 DEF TypeOK
<1>4. \A c \in Buses : bus'[c].alive = bus[c].alive /\ bus'[c].ref = bus[c].ref
  <2>1. CASE UNCHANGED bus
    BY <2>1
  <2>2. CASE bus' = [bus EXCEPT ![pBus[d]].first = <<d>> \o @]
    <3>1. PICK l : l = <<d>> \o bus[b].first
      OBVIOUS
    <3>2. bus' = [bus EXCEPT ![b] = [bus[b] EXCEPT !.first = l]]
      BY <1>2, <2>2, <3>1
    <3> QED
      BY <1>0, <1>3, <3>2 DEF TypeOK, BusType
  <2> QED
    BY <2>1, <2>2 DEF MDIOBus_AddDevice
<1>5. /\ \A e \in Devices \ {d} : phase'[e] = phase[e] /\ closing'[e] = closing[e]
      /\ \/ phase'[d] = "close" /\ closing'[d] = b
         \/ phase'[d] = "in" /\ closing'[d] = None
  BY <1>0, <1>1, <1>2, PhaseMoved, PhaseNames DEF MDIOBus_AddDevice, TypeOK
<1>6. Elsewhere(d)
  <2>1. \A e \in Devices \ {d} : phase[e] = "in" => pBus[e] \in Buses /\ bus[pBus[e]].alive
    BY <1>0 DEF LifeInv, PhaseInv
  <2> QED
    BY <1>1, <1>4, <1>5, <2>1 DEF Elsewhere
<1>7. PhaseInv(d)'
  BY <1>1, <1>2, <1>4, <1>5 DEF PhaseInv
<1>8. \A c \in Buses : d \in Users(c) <=> d \in Users(c)'
  BY <1>1, <1>2, <1>5, Constants DEF Users
<1> QED
  BY <1>1, <1>4, <1>6, <1>7, <1>8, LifeOfUse

LEMMA LifeOfNotInitialized ==
    ASSUME Inv, NEW d \in Devices, NotInitialized(d) PROVE LifeInv'
<1>0. TypeOK /\ LifeInv
  BY DEF Inv
<1>1. /\ phase[d] = "failed" /\ phase'[d] = "out"
      /\ \A e \in Devices \ {d} : phase'[e] = phase[e]
      /\ UNCHANGED <<busList, bus, thread, pBus, closing>>
  BY <1>0, PhaseMoved, PhaseNames DEF NotInitialized, TypeOK, busVars
<1>2. \A b : Users(b)' = Users(b)
  BY <1>1 DEF Users
<1>3. ASSUME NEW e \in Devices PROVE PhaseInv(e)'
  <2>1. PhaseInv(e)
    BY <1>0 DEF LifeInv
  <2>2. CASE e = d
    BY <1>1, <2>1, <2>2 DEF PhaseInv
  <2>3. CASE e # d
    <3>1. phase'[e] = phase[e]
      BY <1>1, <2>3
    <3> QED
      BY <1>1, <1>2, <2>1, <3>1 DEF PhaseInv
  <2> QED
    BY <2>2, <2>3
<1>4. \A e \in Devices : Settled(e)' <=> Settled(e)
  BY <1>1 DEF Settled
<1>5. \A e, f \in Devices : (~Settled(e) /\ ~Settled(f) => e = f)'
  BY <1>0, <1>4 DEF LifeInv
<1>6. \A b \in Buses : (bus[b].alive =>
          /\ busList = <<b>> \/ \E e \in Devices : phase[e] = "link"
          /\ bus[b].ref = Cardinality(Users(b)))'
  <2>1. \A e \in Devices : phase[e] = "link" => phase'[e] = "link"
    BY <1>1
  <2> QED
    BY <1>0, <1>1, <1>2, <2>1 DEF LifeInv
<1> QED
  BY <1>0, <1>1, <1>3, <1>5, <1>6 DEF LifeInv

LEMMA LifeOfRemoveDevice ==
    ASSUME Inv, Serial, NEW d \in Devices, MDIOBus_RemoveDevice(d) PROVE LifeInv'
<1>0. TypeOK /\ LifeInv /\ PhaseInv(d)
  BY DEF Inv, LifeInv
<1>1. PICK b \in Buses : b = pBus[d]
  BY <1>0 DEF MDIOBus_RemoveDevice, TypeOK
<1>2. /\ phase[d] = "in" /\ bus[b].alive /\ closing[d] = None
      /\ UNCHANGED <<busList, thread>> /\ MayWork(d)
      /\ bus' = [bus EXCEPT ![b] = RemovedFrom(d, bus[b])]
      /\ pBus' = [pBus EXCEPT ![d] = None] /\ closing' = [closing EXCEPT ![d] = b]
      /\ Goto(d, "close")
      /\ \A e \in Devices \ {d} : phase[e] \in {"out", "failed", "in"}
  BY <1>0, <1>1, WorksAlone DEF MDIOBus_RemoveDevice, PhaseInv, SetBus
<1>3. bus[b] \in BusType /\ IsInjective(bus[b].first)
  BY <1>2 DEF Inv, TypeOK, ThreadInv, Served
<1>4. \A c \in Buses : bus'[c].alive = bus[c].alive /\ bus'[c].ref = bus[c].ref
  <2>1. RemovedFrom(d, bus[b]).alive = bus[b].alive /\ RemovedFrom(d, bus[b]).ref = bus[b].ref
    BY <1>3, RemovedTyped
  <2> QED
    BY <1>0, <1>2, <2>1 DEF TypeOK
<1>5. /\ \A e \in Devices \ {d} : /\ phase'[e] = phase[e] /\ closing'[e] = closing[e]
                                  /\ pBus'[e] = pBus[e]
      /\ phase'[d] = "close" /\ closing'[d] = b /\ pBus'[d] = None
  BY <1>0, <1>2, PhaseMoved, PhaseNames DEF TypeOK
<1>6. Elsewhere(d)
  <2>1. \A e \in Devices \ {d} : phase[e] = "in" => pBus[e] \in Buses /\ bus[pBus[e]].alive
    BY <1>0 DEF LifeInv, PhaseInv
  <2> QED
    BY <1>2, <1>4, <1>5, <2>1 DEF Elsewhere
<1>7. PhaseInv(d)'
  BY <1>2, <1>4, <1>5 DEF PhaseInv
<1>8. \A c \in Buses : d \in Users(c) <=> d \in Users(c)'
  BY <1>1, <1>2, <1>5, Constants DEF Users
<1> QED
  BY <1>2, <1>4, <1>6, <1>7, <1>8, LifeOfUse

LEMMA LifeOfClose ==
    ASSUME Inv, Serial, NEW d \in Devices, MDIOBus_Close(d) PROVE LifeInv'
<1>0. TypeOK /\ LifeInv /\ PhaseInv(d)
  BY DEF Inv, LifeInv
<1>1. phase[d] = "close" /\ MayWork(d) /\ UNCHANGED <<busList, thread>>
  BY DEF MDIOBus_Close
<1>2. PICK b \in Buses : b = closing[d]
  BY <1>1, ReferenceHeld
<1>3. /\ bus[b] \in BusType /\ bus[b].alive /\ bus[b].ref \in Nat \ {0} /\ d \in Users(b)
      /\ bus[b].ref = Cardinality(Users(b))
  BY <1>1, <1>2, ReferenceHeld
<1>4. \A e \in Devices \ {d} : phase[e] \in {"out", "failed", "in"}
  BY <1>1, WorksAlone
<1>5. PICK k : k = (bus[b].kill \/ LastReference(b))
  OBVIOUS
<1>6. bus' = [bus EXCEPT ![b] = [bus[b] EXCEPT !.ref = bus[b].ref - 1, !.kill = k]]
  BY <1>0, <1>2, <1>5 DEF TypeOK, MDIOBus_Close
<1>7. /\ \A c \in Buses : bus'[c].alive = bus[c].alive
      /\ bus'[b].ref = bus[b].ref - 1
  <2>1. LET r == [bus[b] EXCEPT !.ref = bus[b].ref - 1, !.kill = k]
        IN  r.alive = bus[b].alive /\ r.ref = bus[b].ref - 1
    BY <1>3 DEF BusType
  <2> QED
    BY <1>0, <1>6, <2>1 DEF TypeOK
<1>8. /\ \A e \in Devices \ {d} : /\ phase'[e] = phase[e] /\ closing'[e] = closing[e]
                                  /\ pBus'[e] = pBus[e]
      /\ pBus'[d] = None
      /\ \/ phase'[d] = "stopping" /\ closing'[d] = b /\ bus[b].ref = 1
         \/ phase'[d] = "out" /\ closing'[d] = None
  <2>1. /\ pBus'[d] = None /\ \A e \in Devices \ {d} : pBus'[e] = pBus[e]
    BY <1>0 DEF MDIOBus_Close, SetBus, TypeOK
  <2>2. CASE LastReference(b)
    <3>1. Goto(d, "stopping") /\ UNCHANGED closing
      BY <1>2, <2>2 DEF MDIOBus_Close
    <3> QED
      BY <1>0, <1>2, <2>1, <2>2, <3>1, PhaseMoved, PhaseNames DEF TypeOK, LastReference
  <2>3. CASE ~LastReference(b)
    <3>1. Goto(d, "out") /\ closing' = [closing EXCEPT ![d] = None]
      BY <1>2, <2>3 DEF MDIOBus_Close
    <3> QED
      BY <1>0, <2>1, <3>1, PhaseMoved, PhaseNames DEF TypeOK
  <2> QED
    BY <2>2, <2>3
<1>9. Elsewhere(d)
  <2>1. \A e \in Devices \ {d} : phase[e] = "in" => pBus[e] \in Buses /\ bus[pBus[e]].alive
    BY <1>0 DEF LifeInv, PhaseInv
  <2> QED
    BY <1>4, <1>7, <1>8, <2>1 DEF Elsewhere
<1>10. Users(b)' = Users(b) \ {d}
  <2>1. d \notin Users(b)'
    BY <1>8, Constants DEF Users
  <2> QED
    BY <1>9, <2>1, UsersElsewhere
<1>11. bus'[b].ref = Cardinality(Users(b)')
  <2>1. Cardinality(Users(b) \ {d}) = Cardinality(Users(b)) - 1
    BY <1>3, UsersFinite, FS_RemoveElement
  <2> QED
    BY <1>3, <1>7, <1>10, <2>1
<1>12. bus[b].ref = 1 => Users(b)' = {}
  <2> SUFFICES ASSUME bus[b].ref = 1 PROVE Users(b)' = {}
    OBVIOUS
  <2>1. Cardinality(Users(b) \ {d}) = 0
    BY <1>3, <1>7, <1>10, <1>11
  <2>2. IsFiniteSet(Users(b) \ {d})
    BY UsersFinite, FS_RemoveElement
  <2> QED
    BY <1>10, <2>1, <2>2, FS_EmptySet
<1>13. PhaseInv(d)'
  <2>1. CASE phase'[d] = "stopping" /\ closing'[d] = b /\ bus[b].ref = 1
    <3>1. Users(closing[d])' = {}
      BY <1>12, <2>1 DEF Users
    <3>2. bus'[closing'[d]].alive /\ closing'[d] \in Buses
      BY <1>3, <1>7, <2>1
    <3> QED
      BY <1>8, <2>1, <3>1, <3>2 DEF PhaseInv
  <2>2. CASE phase'[d] = "out" /\ closing'[d] = None
    BY <1>8, <2>2 DEF PhaseInv
  <2> QED
    BY <1>8, <2>1, <2>2
<1>14. busList = <<b>> /\ \A c \in Buses : bus[c].alive => c = b
  BY <1>0, <1>1, <1>3, <1>4, OnlyBus DEF LifeInv
<1>15. \A c \in Buses : (bus[c].alive => busList = <<c>> /\ bus[c].ref = Cardinality(Users(c)))'
  BY <1>1, <1>7, <1>11, <1>14
<1> QED
  BY <1>0, <1>1, <1>3, <1>7, <1>9, <1>13, <1>14, <1>15, OthersKept DEF LifeInv

LEMMA LifeOfFreeBus ==
    ASSUME Inv, Serial, NEW d \in Devices, FreeBus(d) PROVE LifeInv'
<1>0. TypeOK /\ LifeInv /\ PhaseInv(d)
  BY DEF Inv, LifeInv
<1>1. /\ phase[d] = "stopping" /\ closing[d] \in Buses /\ bus[closing[d]].alive
      /\ pBus[d] = None /\ Users(closing[d]) = {} /\ MayWork(d) /\ UNCHANGED pBus
      /\ \A e \in Devices \ {d} : phase[e] \in {"out", "failed", "in"}
  BY <1>0, WorksAlone DEF FreeBus, PhaseInv
<1>2. PICK b \in Buses : b = closing[d]
  BY <1>1
<1>3. busList = <<b>> /\ \A c \in Buses : bus[c].alive => c = b
  BY <1>0, <1>1, <1>2, OnlyBus DEF LifeInv
<1>4. busList' = <<>>
  <2>1. busList' = MDIO_RemoveFromList(busList, b) /\ busList \in Seq(Buses)
    BY <1>0, <1>2 DEF FreeBus, TypeOK
  <2>2. Range(busList) = {b}
    BY <1>3 DEF Range
  <2>3. busList' \in Seq(Buses) /\ Range(busList') = {}
    BY <1>0, <2>1, <2>2, BusListShort, Unlinked
  <2>4. DOMAIN busList' = {}
    BY <2>3 DEF Range
  <2> QED
    BY <2>3, <2>4
<1>5. /\ \A c \in Buses : ~bus'[c].alive
      /\ \A c \in Buses : thread'[c] = "none"
  <2>1. bus' = [bus EXCEPT ![b].alive = FALSE] /\ thread' = [thread EXCEPT ![b] = "none"]
    BY <1>2 DEF FreeBus
  <2>2. ~bus'[b].alive /\ \A c \in Buses \ {b} : bus'[c] = bus[c]
    BY <1>0, <2>1 DEF TypeOK, BusType
  <2>3. thread'[b] = "none" /\ \A c \in Buses \ {b} : thread'[c] = thread[c]
    BY <1>0, <2>1 DEF TypeOK
  <2>4. \A c \in Buses \ {b} : ~bus[c].alive /\ thread[c] = "none"
    BY <1>0, <1>3 DEF LifeInv
  <2> QED
    BY <2>2, <2>3, <2>4
<1>6. /\ \A e \in Devices \ {d} : phase'[e] = phase[e] /\ closing'[e] = closing[e]
      /\ phase'[d] = "out" /\ closing'[d] = None
  BY <1>0, PhaseMoved, PhaseNames DEF FreeBus, TypeOK
<1>7. \A e \in Devices \ {d} : phase[e] # "in"
  <2> SUFFICES ASSUME NEW e \in Devices \ {d}, phase[e] = "in" PROVE FALSE
    OBVIOUS
  <2>1. pBus[e] \in Buses /\ bus[pBus[e]].alive
    BY <1>0 DEF LifeInv, PhaseInv
  <2>2. e \in Users(b)
    BY <1>3, <2>1 DEF Users
  <2> QED
    BY <1>1, <1>2, <2>2
<1>8. Elsewhere(d)
  BY <1>1, <1>6, <1>7 DEF Elsewhere
<1>9. PhaseInv(d)'
  BY <1>1, <1>6 DEF PhaseInv
<1> QED
  BY <1>0, <1>4, <1>5, <1>8, <1>9, OthersKept DEF LifeInv

LEMMA LifeOfInit == Init => LifeInv
<1> SUFFICES ASSUME Init PROVE LifeInv
  OBVIOUS
<1>1. \A d \in Devices : phase[d] = "out" /\ pBus[d] = None /\ closing[d] = None
  BY DEF Init
<1>2. \A b \in Buses : ~bus[b].alive /\ thread[b] = "none"
  BY FreshTyped DEF Init, BusType
<1>3. busList = <<>>
  BY DEF Init
<1>4. \A d \in Devices : PhaseInv(d)
  BY <1>1 DEF PhaseInv
<1> QED
  BY <1>1, <1>2, <1>3, <1>4 DEF LifeInv, Settled

LEMMA LifeStep ==
    ASSUME Inv, Assumed, [Next]_vars PROVE LifeInv'
<1>0. Serial /\ LifeInv
  BY DEF Inv, Assumed
<1>1. ASSUME NEW d \in Devices, Adapter(d) PROVE LifeInv'
  BY <1>0, <1>1, LifeOfInitDevice, LifeOfCreateBus, LifeOfLinkBus, LifeOfAddDevice,
     LifeOfNotInitialized, LifeOfRemoveDevice, LifeOfClose, LifeOfFreeBus DEF Adapter
<1>2. ASSUME NEW d \in Devices, QueuePrefix(d) \/ QueueLast(d) PROVE LifeInv'
  BY <1>0, <1>2, QueueKeepsLife, LifeUndisturbed
<1>3. ASSUME NEW b \in Buses, MDIOBus_Main(b) \/ TimerExpires(b) PROVE LifeInv'
  BY <1>0, <1>3, MainKeepsLife, LifeUndisturbed
<1>4. CASE FrameSent \/ UNCHANGED vars
  <2>1. LifeKept
    BY <1>4 DEF FrameSent, vars, busVars, lifeVars, LifeKept
  <2> QED
    BY <1>0, <2>1, LifeUndisturbed
<1> QED
  BY <1>1, <1>2, <1>3, <1>4 DEF Next

-----------------------------------------------------------------------------
(* The thread works on attached devices: ThreadInv is inductive *)

\* A step leaves a bus, its thread and its devices, but for the reference count,
\* the events, the timer and the frame that is done.
ServiceKept(b) ==
    /\ On(b)' = On(b)
    /\ bus'[b].alive = bus[b].alive /\ bus'[b].first = bus[b].first
    /\ bus'[b].active = bus[b].active /\ bus'[b].busy = bus[b].busy
    /\ thread'[b] = thread[b] /\ cursor'[b] = cursor[b]

AllServiceKept == \A b \in Buses : ServiceKept(b)

LEMMA ServedKept ==
    ASSUME NEW b \in Buses, Served(b), ServiceKept(b) PROVE Served(b)'
<1> DEFINE o == On(b)
<1>1. On(b)' = o
  BY DEF ServiceKept
<1> QED
  BY <1>1 DEF ServiceKept, Served

LEMMA OnKept ==
    ASSUME NEW d \in Devices, phase[d] # "in", phase'[d] # "in",
           \A e \in Devices \ {d} : phase'[e] = phase[e] /\ pBus'[e] = pBus[e], NEW b
    PROVE  On(b)' = On(b)
  BY DEF On

LEMMA ThreadOfInitDevice ==
    ASSUME Inv, NEW d \in Devices, MDIODev_InitDevice(d) PROVE ThreadInv' /\ AllServiceKept
<1>0. TypeOK /\ ThreadInv
  BY DEF Inv
<1>1. /\ phase[d] = "out" /\ phase'[d] # "in" /\ UNCHANGED <<thread, cursor>>
      /\ \A e \in Devices \ {d} : phase'[e] = phase[e] /\ pBus'[e] = pBus[e]
  <2>1. \A e \in Devices \ {d} : pBus'[e] = pBus[e]
    BY <1>0 DEF MDIODev_InitDevice, SetBus, TypeOK
  <2> QED
    BY <1>0, <2>1, PhaseMoved, PhaseNames DEF MDIODev_InitDevice, TypeOK
<1>2. \A b \in Buses : /\ bus'[b].alive = bus[b].alive /\ bus'[b].first = bus[b].first
                       /\ bus'[b].active = bus[b].active /\ bus'[b].busy = bus[b].busy
  <2>1. CASE UNCHANGED bus
    BY <2>1
  <2>2. CASE busList # <<>> /\ bus' = [bus EXCEPT ![Head(busList)] = Referenced(@)]
    <3>1. PICK c \in Buses : c = Head(busList)
      BY <1>0, <2>2 DEF TypeOK
    <3>2. bus[c] \in BusType /\ bus' = [bus EXCEPT ![c] = Referenced(bus[c])]
      BY <1>0, <2>2, <3>1 DEF TypeOK
    <3>3. LET r == Referenced(bus[c])
          IN  /\ r.alive = bus[c].alive /\ r.first = bus[c].first
              /\ r.active = bus[c].active /\ r.busy = bus[c].busy
      BY <3>2 DEF Referenced, BusType
    <3> QED
      BY <1>0, <3>2, <3>3 DEF TypeOK
  <2> QED
    BY <2>1, <2>2 DEF MDIODev_InitDevice
<1>3. \A b \in Buses : ServiceKept(b)
  BY <1>1, <1>2, OnKept DEF ServiceKept
<1> QED
  BY <1>0, <1>3, ServedKept DEF ThreadInv, AllServiceKept

LEMMA ThreadOfCreateBus ==
    ASSUME Inv, Assumed, NEW d \in Devices, CreateBus(d) PROVE ThreadInv'
<1>0. TypeOK /\ ThreadInv /\ LifeInv
  BY DEF Inv
<1>1. /\ phase[d] = "create" /\ phase'[d] # "in" /\ UNCHANGED <<cursor>>
      /\ \A e \in Devices \ {d} : phase'[e] = phase[e] /\ pBus'[e] = pBus[e]
  <2>1. \A e \in Devices \ {d} : pBus'[e] = pBus[e]
    BY <1>0 DEF CreateBus, SetBus, TypeOK
  <2> QED
    BY <1>0, <2>1, PhaseMoved, PhaseNames DEF CreateBus, TypeOK
<1>2. \A b \in Buses : On(b)' = On(b)
  BY <1>1, OnKept
<1>3. CASE UNCHANGED <<bus, thread>>
  <2>1. \A b \in Buses : ServiceKept(b)
    BY <1>1, <1>2, <1>3 DEF ServiceKept
  <2> QED
    BY <1>0, <2>1, ServedKept DEF ThreadInv
<1>4. CASE \E b \in Buses : /\ ~bus[b].alive /\ bus' = [bus EXCEPT ![b] = FreshBus]
                            /\ thread' = [thread EXCEPT ![b] = "wait"]
  <2>1. PICK b \in Buses : /\ ~bus[b].alive /\ bus' = [bus EXCEPT ![b] = FreshBus]
                           /\ thread' = [thread EXCEPT ![b] = "wait"]
    BY <1>4
  <2>2. bus'[b] = FreshBus /\ thread'[b] = "wait"
    BY <1>0, <2>1 DEF TypeOK
  <2>3. On(b)' = {}
    <3>1. On(b) = {}
      BY <1>0, <2>1 DEF On, LifeInv, PhaseInv
    <3> QED
      BY <1>2, <3>1
  <2>4. Served(b)'
    <3>1. /\ bus'[b].first = <<>> /\ bus'[b].active = None /\ ~bus'[b].busy /\ bus'[b].alive
      BY <2>2, FreshTyped
    <3>2. IsInjective(bus'[b].first) /\ Range(bus'[b].first) = {}
      BY <3>1 DEF IsInjective, Range
    <3> QED
      BY <2>2, <2>3, <3>1, <3>2 DEF Served
  <2>5. \A c \in Buses \ {b} : ServiceKept(c)
    BY <1>0, <1>1, <1>2, <2>1 DEF ServiceKept, TypeOK
  <2> QED
    BY <1>0, <2>4, <2>5, ServedKept DEF ThreadInv
<1> QED
  BY <1>3, <1>4 DEF CreateBus

LEMMA ThreadOfLinkClose ==
    ASSUME Inv, NEW d \in Devices, LinkBus(d) \/ NotInitialized(d) \/ MDIOBus_Close(d)
    PROVE  ThreadInv' /\ AllServiceKept
<1>0. TypeOK /\ ThreadInv
  BY DEF Inv
<1>1. /\ phase[d] # "in" /\ phase'[d] # "in" /\ UNCHANGED <<thread, cursor>>
      /\ \A e \in Devices \ {d} : phase'[e] = phase[e] /\ pBus'[e] = pBus[e]
  <2>1. \A e \in Devices \ {d} : pBus'[e] = pBus[e]
    BY <1>0 DEF LinkBus, NotInitialized, MDIOBus_Close, SetBus, TypeOK
  <2>2. PICK p \in {"add", "out", "stopping"} : Goto(d, p)
    BY DEF LinkBus, NotInitialized, MDIOBus_Close
  <2>3. phase'[d] = p /\ \A e \in Devices \ {d} : phase'[e] = phase[e]
    BY <1>0, <2>2, PhaseMoved, PhaseNames DEF TypeOK
  <2> QED
    BY <2>1, <2>3 DEF LinkBus, NotInitialized, MDIOBus_Close
<1>2. \A b \in Buses : /\ bus'[b].alive = bus[b].alive /\ bus'[b].first = bus[b].first
                       /\ bus'[b].active = bus[b].active /\ bus'[b].busy = bus[b].busy
  <2>1. CASE UNCHANGED bus
    BY <2>1
  <2>2. CASE MDIOBus_Close(d)
    <3>1. phase[d] = "close"
      BY <2>2 DEF MDIOBus_Close
    <3>2. PICK c \in Buses : c = closing[d]
      BY <3>1, ReferenceHeld
    <3>3. PICK k, n : k = (bus[c].kill \/ LastReference(c)) /\ n = bus[c].ref - 1
      OBVIOUS
    <3>4. bus' = [bus EXCEPT ![c] = [bus[c] EXCEPT !.ref = n, !.kill = k]] /\ bus[c] \in BusType
      BY <1>0, <2>2, <3>2, <3>3 DEF TypeOK, MDIOBus_Close
    <3>5. LET r == [bus[c] EXCEPT !.ref = n, !.kill = k]
          IN  /\ r.alive = bus[c].alive /\ r.first = bus[c].first
              /\ r.active = bus[c].active /\ r.busy = bus[c].busy
      BY <3>4 DEF BusType
    <3> QED
      BY <1>0, <3>4, <3>5 DEF TypeOK
  <2> QED
    BY <2>1, <2>2 DEF LinkBus, NotInitialized, busVars
<1>3. \A b \in Buses : ServiceKept(b)
  BY <1>1, <1>2, OnKept DEF ServiceKept
<1> QED
  BY <1>0, <1>3, ServedKept DEF ThreadInv, AllServiceKept

LEMMA ThreadOfAddDevice ==
    ASSUME Inv, NEW d \in Devices, MDIOBus_AddDevice(d) PROVE ThreadInv'
<1>0. TypeOK /\ ThreadInv
  BY DEF Inv
<1>1. PICK b \in Buses : b = pBus[d] /\ bus[b].alive
  BY DEF MDIOBus_AddDevice, Inv, LifeInv, PhaseInv
<1>2. /\ phase[d] = "add" /\ UNCHANGED <<thread, cursor, pBus>>
      /\ thread[b] \in {"none", "wait", "ended"} /\ bus[b] \in BusType
  BY <1>0, <1>1 DEF MDIOBus_AddDevice, Unlocked, TypeOK
<1>3. CASE UNCHANGED bus /\ Goto(d, "close")
  <2>1. phase'[d] = "close" /\ \A e \in Devices \ {d} : phase'[e] = phase[e]
    BY <1>0, <1>3, PhaseMoved, PhaseNames DEF TypeOK
  <2>2. \A c \in Buses : ServiceKept(c)
    BY <1>2, <1>3, <2>1, OnKept DEF ServiceKept
  <2> QED
    BY <1>0, <2>2, ServedKept DEF ThreadInv
<1>4. CASE bus' = [bus EXCEPT ![pBus[d]].first = <<d>> \o @] /\ Goto(d, "in")
  <2>1. phase'[d] = "in" /\ \A e \in Devices \ {d} : phase'[e] = phase[e]
    BY <1>0, <1>4, PhaseMoved, PhaseNames DEF TypeOK
  <2>2. On(b)' = On(b) \cup {d} /\ \A c \in Buses \ {b} : On(c)' = On(c)
    BY <1>1, <1>2, <2>1 DEF On
  <2>3. d \notin On(b)
    BY <1>2 DEF On
  <2> DEFINE l == <<d>> \o bus[b].first
  <2>4. bus' = [bus EXCEPT ![b] = [bus[b] EXCEPT !.first = l]]
    BY <1>1, <1>4
  <2>5. l \in Seq(Devices) /\ IsInjective(l) /\ Range(l) = On(b) \cup {d}
    <3>1. bus[b].first \in Seq(Devices) /\ IsInjective(bus[b].first) /\ Range(bus[b].first) = On(b)
      BY <1>0, <1>1, <1>2, RecordTyped DEF ThreadInv, Served
    <3> QED
      BY <2>3, <3>1, LinkedFirst
  <2> HIDE DEF l
  <2>6. /\ bus'[b].alive = bus[b].alive /\ bus'[b].first = l
        /\ bus'[b].active = bus[b].active /\ bus'[b].busy = bus[b].busy
        /\ \A c \in Buses \ {b} : bus'[c] = bus[c]
    BY <1>0, <1>2, <2>4 DEF TypeOK, BusType
  <2>7. Served(b)'
    <3>1. Served(b)
      BY <1>0 DEF ThreadInv
    <3> QED
      BY <1>1, <1>2, <2>2, <2>5, <2>6, <3>1 DEF Served
  <2>8. \A c \in Buses \ {b} : ServiceKept(c)
    BY <1>2, <2>2, <2>6 DEF ServiceKept
  <2> QED
    BY <1>0, <2>7, <2>8, ServedKept DEF ThreadInv
<1> QED
  BY <1>3, <1>4 DEF MDIOBus_AddDevice

LEMMA ThreadOfRemoveDevice ==
    ASSUME Inv, NEW d \in Devices, MDIOBus_RemoveDevice(d) PROVE ThreadInv'
<1>0. TypeOK /\ ThreadInv
  BY DEF Inv
<1>1. PICK b \in Buses : b = pBus[d]
  BY <1>0 DEF MDIOBus_RemoveDevice, TypeOK
<1>2. /\ bus[b].alive /\ bus[b] \in BusType /\ UNCHANGED <<thread, cursor>>
      /\ thread[b] \in {"none", "wait", "ended"}
      /\ bus' = [bus EXCEPT ![b] = RemovedFrom(d, bus[b])]
      /\ Goto(d, "close") /\ pBus' = [pBus EXCEPT ![d] = None]
  BY <1>0, <1>1 DEF MDIOBus_RemoveDevice, Unlocked, TypeOK, SetBus
<1>3. phase'[d] = "close" /\ \A e \in Devices \ {d} : phase'[e] = phase[e] /\ pBus'[e] = pBus[e]
  BY <1>0, <1>2, PhaseMoved, PhaseNames DEF TypeOK
<1>4. On(b)' = On(b) \ {d} /\ \A c \in Buses \ {b} : On(c)' = On(c)
  BY <1>1, <1>3 DEF On
<1> DEFINE n == RemovedFrom(d, bus[b])
<1>5. IsInjective(bus[b].first) /\ Range(bus[b].first) = On(b)
  BY <1>0, <1>2 DEF ThreadInv, Served
<1>6. /\ n \in BusType /\ n.alive = bus[b].alive
      /\ IsInjective(n.first) /\ Range(n.first) = On(b) \ {d}
      /\ bus[b].active = d => n.active = None /\ ~n.busy
      /\ bus[b].active # d => n.active = bus[b].active /\ n.busy = bus[b].busy
  BY <1>2, <1>5, RemovedTyped, ZenonT(30)
<1> HIDE DEF n
<1>7. bus'[b] = n /\ \A c \in Buses \ {b} : bus'[c] = bus[c]
  BY <1>0, <1>2 DEF TypeOK, n
<1>8. Served(b)'
  <2>1. Served(b)
    BY <1>0 DEF ThreadInv
  <2>2. CASE bus[b].active = d
    BY <1>2, <1>4, <1>6, <1>7, <2>1, <2>2 DEF Served
  <2>3. CASE bus[b].active # d
    BY <1>2, <1>4, <1>6, <1>7, <2>1, <2>3 DEF Served
  <2> QED
    BY <2>2, <2>3
<1>9. \A c \in Buses \ {b} : ServiceKept(c)
  BY <1>2, <1>4, <1>7 DEF ServiceKept
<1> QED
  BY <1>0, <1>8, <1>9, ServedKept DEF ThreadInv

LEMMA ThreadOfFreeBus ==
    ASSUME Inv, NEW d \in Devices, FreeBus(d) PROVE ThreadInv'
<1>0. TypeOK /\ ThreadInv
  BY DEF Inv
<1>1. PICK b \in Buses : b = closing[d] /\ bus[b].alive /\ Users(b) = {} /\ phase[d] = "stopping"
  BY DEF FreeBus, Inv, LifeInv, PhaseInv
<1>2. /\ UNCHANGED <<cursor, pBus>> /\ bus' = [bus EXCEPT ![b] = [bus[b] EXCEPT !.alive = FALSE]]
      /\ thread' = [thread EXCEPT ![b] = "none"] /\ Goto(d, "out") /\ bus[b] \in BusType
  BY <1>0, <1>1 DEF FreeBus, TypeOK
<1>3. phase'[d] = "out" /\ \A e \in Devices \ {d} : phase'[e] = phase[e]
  BY <1>0, <1>2, PhaseMoved, PhaseNames DEF TypeOK
<1>4. \A c \in Buses : On(c)' = On(c)
  BY <1>1, <1>2, <1>3, OnKept
<1>5. ~bus[b].busy
  <2>1. On(b) = {}
    BY <1>1 DEF On, Users
  <2> QED
    BY <1>0, <1>1, <2>1 DEF ThreadInv, Served
<1>6. ~bus'[b].alive /\ bus'[b].busy = bus[b].busy /\ thread'[b] = "none"
  BY <1>0, <1>2 DEF TypeOK, BusType
<1>7. Served(b)'
  BY <1>5, <1>6 DEF Served
<1>8. \A c \in Buses \ {b} : ServiceKept(c)
  BY <1>0, <1>2, <1>4 DEF ServiceKept, TypeOK
<1> QED
  BY <1>0, <1>7, <1>8, ServedKept DEF ThreadInv

LEMMA ThreadOfQueue ==
    ASSUME Inv, NEW d \in Devices, QueuePrefix(d) \/ QueueLast(d) PROVE ThreadInv' /\ AllServiceKept
<1>0. TypeOK /\ ThreadInv
  BY DEF Inv
<1>1. PICK frames : QueueCommand(d, frames)
  BY DEF QueuePrefix, QueueLast
<1>2. UNCHANGED <<phase, pBus, thread, cursor>>
  BY DEF QueuePrefix, QueueLast, lifeVars
<1>3. \A b \in Buses : /\ bus'[b].alive = bus[b].alive /\ bus'[b].first = bus[b].first
                       /\ bus'[b].active = bus[b].active /\ bus'[b].busy = bus[b].busy
  <2>1. CASE UNCHANGED bus
    BY <2>1
  <2>2. CASE bus' = [bus EXCEPT ![pBus[d]].start = @ \/ pending[d] = <<>>]
    <3>1. pBus[d] \in Buses /\ bus[pBus[d]] \in BusType
      BY <1>0, EngineAttached DEF TypeOK
    <3>2. PICK x : x = (bus[pBus[d]].start \/ pending[d] = <<>>)
      OBVIOUS
    <3>3. bus' = [bus EXCEPT ![pBus[d]] = [bus[pBus[d]] EXCEPT !.start = x]]
      BY <2>2, <3>2
    <3> QED
      BY <1>0, <3>1, <3>3 DEF TypeOK, BusType
  <2> QED
    BY <1>1, <2>1, <2>2 DEF QueueCommand
<1>4. \A b \in Buses : ServiceKept(b)
  BY <1>2, <1>3 DEF ServiceKept, On
<1> QED
  BY <1>0, <1>4, ServedKept DEF ThreadInv, AllServiceKept

\* Where a search starts, a device is attached.
LEMMA SearchServed ==
    ASSUME NEW rec \in BusType, rec.first # <<>>, rec.active \in Range(rec.first) \cup {None}
    PROVE  ScanStart(rec) \in Range(rec.first)
<1>1. rec.first \in Seq(Devices)
  BY RecordTyped
<1> QED
  BY <1>1, FirstListed DEF ScanStart

LEMMA ThreadOfGoOn ==
    ASSUME TypeOK, ThreadInv, NEW b \in Buses, NEW rec \in BusType, GoOn(b, rec),
           UNCHANGED <<phase, pBus>>, bus[b].alive,
           rec.alive = bus[b].alive, rec.first = bus[b].first, rec.busy = bus[b].busy,
           rec.active \in Range(rec.first) \cup {None}, rec.busy => rec.active # None
    PROVE  ThreadInv'
<1>1. \A c \in Buses : On(c)' = On(c)
  BY DEF On
<1>2. /\ bus'[b] = rec /\ thread'[b] \in {"arm", "scan"}
      /\ thread'[b] = "scan" => ~rec.busy /\ rec.first # <<>> /\ cursor'[b] = ScanStart(rec)
      /\ \A c \in Buses \ {b} : /\ bus'[c] = bus[c] /\ thread'[c] = thread[c]
                                /\ cursor'[c] = cursor[c]
  BY WentOn
<1>3. IsInjective(rec.first) /\ Range(rec.first) = On(b)
  BY DEF ThreadInv, Served
<1>4. Served(b)'
  <2>1. thread'[b] = "scan" => cursor'[b] \in On(b)
    BY <1>2, <1>3, SearchServed
  <2> QED
    BY <1>1, <1>2, <1>3, <2>1 DEF Served
<1>5. \A c \in Buses \ {b} : ServiceKept(c)
  BY <1>1, <1>2 DEF ServiceKept
<1> QED
  BY <1>4, <1>5, ServedKept DEF ThreadInv

LEMMA ThreadOfMain ==
    ASSUME Inv, NEW b \in Buses, MDIOBus_Main(b) PROVE ThreadInv'
<1>0. TypeOK /\ ThreadInv /\ bus[b] \in BusType
  BY DEF Inv, TypeOK
<1>1. UNCHANGED <<phase, pBus>>
  BY DEF MDIOBus_Main, NothingDone, TransferDone, Callback, Scan, Arm, Killed, lifeVars
<1>2. \A c \in Buses : On(c)' = On(c)
  BY <1>1 DEF On
<1>3. bus[b].alive
  BY DEF MDIOBus_Main, NothingDone, TransferDone, Awake, Callback, Scan, Arm, Killed, Inv, LifeInv
<1>4. /\ Served(b) /\ Range(bus[b].first) = On(b)
  BY <1>0, <1>3 DEF ThreadInv, Served
<1>5. CASE NothingDone(b)
  <2> DEFINE rec == Woken(bus[b])
  <2>1. /\ rec \in BusType /\ rec.alive = bus[b].alive /\ rec.first = bus[b].first
        /\ rec.busy = bus[b].busy /\ rec.active = bus[b].active
    BY <1>0, WokenTyped
  <2>2. GoOn(b, rec)
    BY <1>5 DEF NothingDone
  <2>3. rec.active \in Range(rec.first) \cup {None} /\ (rec.busy => rec.active # None)
    BY <1>3, <1>4, <2>1 DEF Served
  <2> HIDE DEF rec
  <2> QED
    BY <1>0, <1>1, <1>3, <2>1, <2>2, <2>3, ThreadOfGoOn
<1>6. CASE TransferDone(b)
  <2> DEFINE rec == Woken(bus[b])
  <2>1. /\ rec \in BusType /\ rec.alive = bus[b].alive /\ rec.first = bus[b].first
        /\ rec.busy = bus[b].busy /\ rec.active = bus[b].active
    BY <1>0, WokenTyped
  <2>2. PICK f : bus' = [bus EXCEPT ![b] = [rec EXCEPT !.busy = FALSE, !.frame = f]]
    BY <1>6 DEF TransferDone
  <2>3. rec.active # None /\ thread' = [thread EXCEPT ![b] = "callback"] /\ UNCHANGED cursor
    BY <1>6 DEF TransferDone
  <2> HIDE DEF rec
  <2> DEFINE new == [rec EXCEPT !.busy = FALSE, !.frame = f]
  <2>4. new.alive = rec.alive /\ new.first = rec.first /\ new.active = rec.active /\ ~new.busy
    BY <2>1 DEF BusType
  <2> HIDE DEF new
  <2>5. bus'[b] = new /\ \A c \in Buses \ {b} : bus'[c] = bus[c]
    BY <1>0, <2>2 DEF TypeOK, new
  <2>6. thread'[b] = "callback" /\ \A c \in Buses \ {b} : thread'[c] = thread[c]
    BY <1>0, <2>3 DEF TypeOK
  <2>7. Served(b)'
    BY <1>2, <1>3, <1>4, <2>1, <2>3, <2>4, <2>5, <2>6 DEF Served
  <2>8. \A c \in Buses \ {b} : ServiceKept(c)
    BY <1>2, <2>3, <2>5, <2>6 DEF ServiceKept
  <2> QED
    BY <1>0, <2>7, <2>8, ServedKept DEF ThreadInv
<1>7. CASE Callback(b)
  <2> DEFINE new == [bus[b] EXCEPT !.active = Candidate(bus[b]), !.frame = NoFrame]
  <2>1. thread[b] = "callback" /\ GoOn(b, new)
    BY <1>7 DEF Callback
  <2>2. /\ new \in BusType /\ new.active \in Range(bus[b].first) \cup {None}
        /\ new.alive = bus[b].alive /\ new.first = bus[b].first
        /\ new.busy = bus[b].busy /\ ~bus[b].busy
    BY <2>1, CallbackRecord
  <2> HIDE DEF new
  <2> QED
    BY <1>0, <1>1, <1>3, <2>1, <2>2, ThreadOfGoOn
<1>8. CASE Scan(b)
  <2>1. thread[b] = "scan" /\ (Sends(b) \/ AsksOn(b))
    BY <1>8, ScanCases
  <2>2. CASE Sends(b)
    <3> DEFINE new == [bus[b] EXCEPT !.active = cursor[b], !.busy = TRUE]
    <3>1. /\ new \in BusType /\ new.active = cursor[b] /\ new.busy /\ cursor[b] \in On(b)
          /\ cursor[b] \in Devices /\ new.alive = bus[b].alive /\ new.first = bus[b].first
      BY <2>1, ScanRecord
    <3>2. bus' = [bus EXCEPT ![b] = new]
      BY <2>2 DEF Sends
    <3> HIDE DEF new
    <3>3. /\ bus'[b] = new /\ \A c \in Buses \ {b} : bus'[c] = bus[c]
          /\ thread'[b] = "arm" /\ \A c \in Buses \ {b} : thread'[c] = thread[c]
          /\ \A c \in Buses \ {b} : cursor'[c] = cursor[c]
      BY <1>0, <2>2, <3>2 DEF Sends, TypeOK
    <3>4. Served(b)'
      BY <1>2, <1>3, <1>4, <3>1, <3>3, Constants DEF Served
    <3>5. \A c \in Buses \ {b} : ServiceKept(c)
      BY <1>2, <3>3 DEF ServiceKept
    <3> QED
      BY <1>0, <3>4, <3>5, ServedKept DEF ThreadInv
  <2>3. CASE AsksOn(b)
    <3>1. /\ UNCHANGED bus
          /\ \A c \in Buses \ {b} : thread'[c] = thread[c] /\ cursor'[c] = cursor[c]
          /\ thread'[b] = "arm" \/ (thread'[b] = "scan" /\ cursor'[b] = AskedNext(b))
      <4>1. CASE thread' = [thread EXCEPT ![b] = "arm"] /\ cursor' = [cursor EXCEPT ![b] = None]
        BY <1>0, <2>3, <4>1 DEF AsksOn, TypeOK
      <4>2. CASE /\ thread' = [thread EXCEPT ![b] = "scan"]
                 /\ cursor' = [cursor EXCEPT ![b] = AskedNext(b)]
        BY <1>0, <2>3, <4>2 DEF AsksOn, TypeOK
      <4> QED
        BY <2>3, <4>1, <4>2 DEF AsksOn
    <3>2. AskedNext(b) \in On(b) /\ ~bus[b].busy
      BY <2>1, ScanRecord
    <3>3. Served(b)'
      BY <1>2, <1>3, <1>4, <3>1, <3>2 DEF Served
    <3>4. \A c \in Buses \ {b} : ServiceKept(c)
      BY <1>2, <3>1 DEF ServiceKept
    <3> QED
      BY <1>0, <3>3, <3>4, ServedKept DEF ThreadInv
  <2> QED
    BY <2>1, <2>2, <2>3
<1>9. CASE Arm(b) \/ Killed(b)
  <2>1. PICK t \in {"wait", "ended"} : thread' = [thread EXCEPT ![b] = t]
    BY <1>9 DEF Arm, Killed
  <2>2. UNCHANGED cursor
    BY <1>9 DEF Arm, Killed
  <2>3. \/ UNCHANGED bus
        \/ \E x \in {"off", "set"} : bus' = [bus EXCEPT ![b] = [bus[b] EXCEPT !.timer = x]]
    BY <1>9 DEF Arm, Killed
  <2>4. \A c \in Buses : /\ bus'[c].alive = bus[c].alive /\ bus'[c].first = bus[c].first
                         /\ bus'[c].active = bus[c].active /\ bus'[c].busy = bus[c].busy
    <3>1. CASE UNCHANGED bus
      BY <3>1
    <3>2. ASSUME NEW x, bus' = [bus EXCEPT ![b] = [bus[b] EXCEPT !.timer = x]]
          PROVE  \A c \in Buses : /\ bus'[c].alive = bus[c].alive /\ bus'[c].first = bus[c].first
                                 /\ bus'[c].active = bus[c].active /\ bus'[c].busy = bus[c].busy
      BY <1>0, <3>2 DEF TypeOK, BusType
    <3> QED
      BY <2>3, <3>1, <3>2
  <2>5. thread'[b] = t /\ \A c \in Buses \ {b} : thread'[c] = thread[c]
    BY <1>0, <2>1 DEF TypeOK
  <2>6. Served(b)'
    <3>1. /\ bus'[b].alive = bus[b].alive /\ bus'[b].first = bus[b].first
          /\ bus'[b].active = bus[b].active /\ bus'[b].busy = bus[b].busy
          /\ thread'[b] \in {"wait", "ended"} /\ On(b)' = On(b)
      BY <1>2, <2>4, <2>5
    <3> QED
      BY <1>4, <3>1 DEF Served
  <2>7. \A c \in Buses \ {b} : ServiceKept(c)
    BY <1>2, <2>2, <2>4, <2>5 DEF ServiceKept
  <2> QED
    BY <1>0, <2>6, <2>7, ServedKept DEF ThreadInv
<1> QED
  BY <1>5, <1>6, <1>7, <1>8, <1>9 DEF MDIOBus_Main

LEMMA ThreadOfTimer ==
    ASSUME Inv, NEW b \in Buses, TimerExpires(b) PROVE ThreadInv' /\ AllServiceKept
<1>0. TypeOK /\ ThreadInv /\ bus[b] \in BusType
  BY DEF Inv, TypeOK
<1>1. bus' = [bus EXCEPT ![b] = [bus[b] EXCEPT !.timer = "fired"]]
  BY DEF TimerExpires
<1>2. \A c \in Buses : /\ bus'[c].alive = bus[c].alive /\ bus'[c].first = bus[c].first
                       /\ bus'[c].active = bus[c].active /\ bus'[c].busy = bus[c].busy
  BY <1>0, <1>1 DEF TypeOK, BusType
<1>3. \A c \in Buses : ServiceKept(c)
  BY <1>2 DEF TimerExpires, lifeVars, ServiceKept, On
<1> QED
  BY <1>0, <1>3, ServedKept DEF ThreadInv, AllServiceKept

LEMMA ThreadOfInit == Init => ThreadInv
<1> SUFFICES ASSUME Init, NEW b \in Buses PROVE Served(b)
  BY DEF ThreadInv
<1>1. ~bus[b].alive /\ thread[b] = "none" /\ ~bus[b].busy
  BY FreshTyped DEF Init, BusType
<1> QED
  BY <1>1 DEF Served

LEMMA ThreadStep ==
    ASSUME Inv, Assumed, [Next]_vars PROVE ThreadInv'
<1>1. ASSUME NEW d \in Devices, Adapter(d) PROVE ThreadInv'
  BY <1>1, ThreadOfInitDevice, ThreadOfCreateBus, ThreadOfLinkClose, ThreadOfAddDevice,
     ThreadOfRemoveDevice, ThreadOfFreeBus DEF Adapter
<1>2. ASSUME NEW d \in Devices, QueuePrefix(d) \/ QueueLast(d) PROVE ThreadInv'
  BY <1>2, ThreadOfQueue
<1>3. ASSUME NEW b \in Buses, MDIOBus_Main(b) \/ TimerExpires(b) PROVE ThreadInv'
  BY <1>3, ThreadOfMain, ThreadOfTimer
<1>4. CASE FrameSent \/ UNCHANGED vars
  <2>1. \A b \in Buses : ServiceKept(b)
    BY <1>4 DEF FrameSent, vars, busVars, lifeVars, ServiceKept, On
  <2> QED
    BY <2>1, ServedKept DEF Inv, ThreadInv
<1> QED
  BY <1>1, <1>2, <1>3, <1>4 DEF Next

-----------------------------------------------------------------------------
(* A device has at most one command under way: CmdInv is inductive *)

\* A step that neither begins nor ends the callbacks of a frame.
CallbacksKept ==
    \A b \in Buses :
        /\ thread'[b] = "callback" <=> thread[b] = "callback"
        /\ thread[b] = "callback" =>
              bus'[b].active = bus[b].active /\ bus'[b].frame = bus[b].frame

ListsKept(d) ==
    /\ free'[d] = free[d] /\ pending'[d] = pending[d] /\ CmdPending'[d] = CmdPending[d]
    /\ engine'[d] = engine[d] /\ result'[d] = result[d]

LEMMA LastKept ==
    ASSUME CallbacksKept, NEW d PROVE LastInCallback(d)' <=> LastInCallback(d)
  BY DEF CallbacksKept, LastInCallback, InCallback

LEMMA WholeKept ==
    ASSUME NEW d \in Devices, WholeInv(d), ListsKept(d),
           LastInCallback(d)' <=> LastInCallback(d)
    PROVE  WholeInv(d)'
  BY DEF WholeInv, ListsKept

LEMMA CmdKept ==
    ASSUME NEW d \in Devices, CmdOf(d), ListsKept(d), phase'[d] = phase[d],
           LastInCallback(d)' <=> LastInCallback(d)
    PROVE  CmdOf(d)'
  BY WholeKept DEF CmdOf, NewDevice, ListsKept

\* An adapter's own step leaves the lists, and comes from and goes to where the
\* device is not attached.
LEMMA CmdMoved ==
    ASSUME NEW d \in Devices, CmdOf(d), ListsKept(d), phase'[d] # "in", engine[d] = "idle",
           phase'[d] \in {"create", "link", "add"} => phase[d] \in {"create", "link", "add"}
    PROVE  CmdOf(d)'
  BY DEF CmdOf, NewDevice, ListsKept

\* One bus has a thread.
LEMMA OneThread ==
    ASSUME LifeInv, NEW b \in Buses, NEW c \in Buses, thread[b] # "none", thread[c] # "none"
    PROVE  b = c
  BY DEF LifeInv

LEMMA NoCallback ==
    ASSUME LifeInv, NEW b \in Buses, bus[b].alive, thread[b] # "callback", NEW d
    PROVE  (\A c \in Buses : thread[c] # "callback") /\ ~LastInCallback(d)
<1>1. thread[b] # "none"
  BY DEF LifeInv
<1>2. \A c \in Buses : thread[c] # "callback"
  BY <1>1, OneThread
<1> QED
  BY <1>2 DEF LastInCallback, InCallback

LEMMA CmdOfInitDevice ==
    ASSUME Inv, NEW d \in Devices, MDIODev_InitDevice(d) PROVE CmdInv' /\ CallbacksKept
<1>0. TypeOK /\ CmdInv
  BY DEF Inv
<1>1. UNCHANGED thread /\ \A e \in Devices \ {d} : phase'[e] = phase[e]
  BY <1>0, PhaseMoved, PhaseNames DEF MDIODev_InitDevice, TypeOK
<1>2. phase'[d] # "in"
  BY <1>0, PhaseMoved, PhaseNames DEF MDIODev_InitDevice, TypeOK
<1>3. \A b \in Buses : bus'[b].active = bus[b].active /\ bus'[b].frame = bus[b].frame
  <2>1. CASE UNCHANGED bus
    BY <2>1
  <2>2. CASE busList # <<>> /\ bus' = [bus EXCEPT ![Head(busList)] = Referenced(@)]
    <3>1. PICK c \in Buses : c = Head(busList)
      BY <1>0, <2>2 DEF TypeOK
    <3>2. bus[c] \in BusType /\ bus' = [bus EXCEPT ![c] = Referenced(bus[c])]
      BY <1>0, <2>2, <3>1 DEF TypeOK
    <3>3. LET r == Referenced(bus[c]) IN r.active = bus[c].active /\ r.frame = bus[c].frame
      BY <3>2 DEF Referenced, BusType
    <3> QED
      BY <1>0, <3>2, <3>3 DEF TypeOK
  <2> QED
    BY <2>1, <2>2 DEF MDIODev_InitDevice
<1>4. CallbacksKept
  BY <1>1, <1>3 DEF CallbacksKept
<1>5. \A e \in Devices \ {d} : ListsKept(e)
  BY <1>0 DEF MDIODev_InitDevice, TypeOK, ListsKept
<1>6. NewDevice(d)'
  <2>1. /\ free'[d] = ListSize /\ pending'[d] = <<>> /\ engine'[d] = "idle"
        /\ result'[d] = NoFrame
    BY <1>0 DEF MDIODev_InitDevice, TypeOK
  <2>2. ~CmdPending'[d]
    BY <1>0 DEF MDIODev_InitDevice, TypeOK
  <2> QED
    BY <2>1, <2>2 DEF NewDevice
<1>7. CmdOf(d)'
  BY <1>2, <1>6 DEF CmdOf, NewDevice
<1>8. ASSUME NEW e \in Devices \ {d} PROVE CmdOf(e)'
  BY <1>0, <1>1, <1>4, <1>5, CmdKept, LastKept DEF CmdInv
<1> QED
  BY <1>4, <1>7, <1>8 DEF CmdInv

LEMMA CmdOfAddDevice ==
    ASSUME Inv, NEW d \in Devices, MDIOBus_AddDevice(d) PROVE CmdInv' /\ CallbacksKept
<1>0. TypeOK /\ CmdInv /\ LifeInv
  BY DEF Inv
<1>1. PICK b \in Buses : b = pBus[d] /\ bus[b].alive /\ phase[d] = "add"
  BY DEF MDIOBus_AddDevice, Inv, LifeInv, PhaseInv
<1>2. /\ UNCHANGED thread /\ thread[b] # "callback" /\ UNCHANGED devVars
      /\ phase'[d] \in {"close", "in"} /\ \A e \in Devices \ {d} : phase'[e] = phase[e]
  BY <1>0, <1>1, PhaseMoved, PhaseNames DEF MDIOBus_AddDevice, Unlocked, TypeOK
<1>3. \A c \in Buses : thread[c] # "callback"
  BY <1>0, <1>1, <1>2, NoCallback
<1>4. CallbacksKept /\ ~LastInCallback(d) /\ ~LastInCallback(d)'
  BY <1>2, <1>3 DEF CallbacksKept, LastInCallback, InCallback
<1>5. \A e \in Devices : ListsKept(e)
  BY <1>2 DEF devVars, ListsKept
<1>6. CmdOf(d)'
  <2>1. NewDevice(d) /\ CmdOf(d)
    BY <1>0, <1>1 DEF CmdInv, CmdOf
  <2>2. WholeInv(d)
    BY <1>4, <2>1, Constants DEF NewDevice, WholeInv
  <2>3. WholeInv(d)'
    BY <1>4, <1>5, <2>2, WholeKept
  <2>4. engine'[d] = "idle"
    BY <1>5, <2>1 DEF NewDevice, ListsKept
  <2> QED
    BY <1>2, <2>3, <2>4 DEF CmdOf
<1>7. ASSUME NEW e \in Devices \ {d} PROVE CmdOf(e)'
  BY <1>0, <1>2, <1>4, <1>5, CmdKept, LastKept DEF CmdInv
<1> QED
  BY <1>4, <1>6, <1>7 DEF CmdInv

\* The other steps of adapters.
LEMMA CmdOfAdapter ==
    ASSUME Inv, NEW d \in Devices,
           \/ CreateBus(d) \/ LinkBus(d) \/ NotInitialized(d) \/ MDIOBus_RemoveDevice(d)
           \/ MDIOBus_Close(d) \/ FreeBus(d)
    PROVE  CmdInv' /\ CallbacksKept
<1>0. TypeOK /\ CmdInv /\ LifeInv
  BY DEF Inv
<1>1. UNCHANGED devVars
  BY DEF CreateBus, LinkBus, NotInitialized, MDIOBus_RemoveDevice, MDIOBus_Close, FreeBus
<1>2. engine[d] = "idle"
  BY <1>0 DEF CreateBus, LinkBus, NotInitialized, MDIOBus_RemoveDevice, MDIOBus_Close, FreeBus,
              CmdInv, CmdOf
<1>3. \/ Goto(d, "failed") /\ phase[d] = "create"
      \/ Goto(d, "link") /\ phase[d] = "create"
      \/ Goto(d, "add") /\ phase[d] = "link"
      \/ Goto(d, "out") \/ Goto(d, "close") \/ Goto(d, "stopping")
  BY DEF CreateBus, LinkBus, NotInitialized, MDIOBus_RemoveDevice, MDIOBus_Close, FreeBus
<1>4. /\ \A e \in Devices \ {d} : phase'[e] = phase[e]
      /\ phase'[d] # "in"
      /\ phase'[d] \in {"create", "link", "add"} => phase[d] \in {"create", "link", "add"}
  BY <1>0, <1>3, PhaseMoved, PhaseNames DEF TypeOK
<1>5. \A e \in Devices : ListsKept(e)
  BY <1>1 DEF devVars, ListsKept
<1>6. CallbacksKept
  <2>1. CASE CreateBus(d) \/ LinkBus(d) \/ NotInitialized(d)
    <3>1. CASE UNCHANGED <<bus, thread>>
      BY <3>1 DEF CallbacksKept
    <3>2. CASE \E b \in Buses : /\ ~bus[b].alive /\ bus' = [bus EXCEPT ![b] = FreshBus]
                                /\ thread' = [thread EXCEPT ![b] = "wait"]
      <4>1. PICK b \in Buses : /\ ~bus[b].alive /\ bus' = [bus EXCEPT ![b] = FreshBus]
                               /\ thread' = [thread EXCEPT ![b] = "wait"]
        BY <3>2
      <4>2. thread[b] = "none" /\ thread'[b] = "wait"
        BY <1>0, <4>1 DEF LifeInv, TypeOK
      <4>3. \A c \in Buses \ {b} : thread'[c] = thread[c] /\ bus'[c] = bus[c]
        BY <1>0, <4>1 DEF TypeOK
      <4> QED
        BY <4>2, <4>3 DEF CallbacksKept
    <3> QED
      BY <2>1, <3>1, <3>2 DEF CreateBus, LinkBus, NotInitialized, busVars
  <2>2. CASE MDIOBus_RemoveDevice(d)
    <3>1. PICK b \in Buses : b = pBus[d] /\ bus[b].alive /\ thread[b] # "callback"
      BY <1>0, <2>2 DEF MDIOBus_RemoveDevice, TypeOK, Unlocked
    <3>2. \A c \in Buses : thread[c] # "callback"
      BY <1>0, <3>1, NoCallback
    <3> QED
      BY <2>2, <3>2 DEF MDIOBus_RemoveDevice, CallbacksKept
  <2>3. CASE MDIOBus_Close(d)
    <3>1. phase[d] = "close" /\ UNCHANGED thread
      BY <2>3 DEF MDIOBus_Close
    <3>2. PICK c \in Buses : c = closing[d]
      BY <3>1, ReferenceHeld
    <3>3. PICK k, n : k = (bus[c].kill \/ LastReference(c)) /\ n = bus[c].ref - 1
      OBVIOUS
    <3>4. bus' = [bus EXCEPT ![c] = [bus[c] EXCEPT !.ref = n, !.kill = k]] /\ bus[c] \in BusType
      BY <1>0, <2>3, <3>2, <3>3 DEF TypeOK, MDIOBus_Close
    <3>5. LET r == [bus[c] EXCEPT !.ref = n, !.kill = k]
          IN  r.active = bus[c].active /\ r.frame = bus[c].frame
      BY <3>4 DEF BusType
    <3>6. \A b \in Buses : bus'[b].active = bus[b].active /\ bus'[b].frame = bus[b].frame
      BY <1>0, <3>4, <3>5 DEF TypeOK
    <3> QED
      BY <3>1, <3>6 DEF CallbacksKept
  <2>4. CASE FreeBus(d)
    <3>1. PICK b \in Buses : b = closing[d]
      BY <2>4 DEF FreeBus, Inv, LifeInv, PhaseInv
    <3>2. /\ thread[b] = "ended" /\ thread' = [thread EXCEPT ![b] = "none"]
          /\ bus' = [bus EXCEPT ![b] = [bus[b] EXCEPT !.alive = FALSE]]
      BY <2>4, <3>1 DEF FreeBus
    <3>3. thread'[b] = "none" /\ \A c \in Buses \ {b} : thread'[c] = thread[c] /\ bus'[c] = bus[c]
      BY <1>0, <3>2 DEF TypeOK
    <3> QED
      BY <3>2, <3>3 DEF CallbacksKept
  <2> QED
    BY <2>1, <2>2, <2>3, <2>4
<1>7. CmdOf(d)'
  BY <1>0, <1>2, <1>4, <1>5, CmdMoved DEF CmdInv
<1>8. ASSUME NEW e \in Devices \ {d} PROVE CmdOf(e)'
  BY <1>0, <1>4, <1>5, <1>6, CmdKept, LastKept DEF CmdInv
<1> QED
  BY <1>6, <1>7, <1>8 DEF CmdInv

\* What a list becomes when a command is put behind it.
LEMMA CommandAppended ==
    ASSUME NEW d \in Devices, NEW last \in BOOLEAN, NEW p \in Seq(FrameType), NEW frames,
           IsCommand(frames, d, last), \A i \in DOMAIN p : p[i].dev = d /\ ~p[i].last
    PROVE  /\ Queued(p, frames) \in Seq(FrameType) /\ Queued(p, frames) # <<>>
           /\ Len(Queued(p, frames)) = Len(p) + Len(frames)
           /\ \A i \in DOMAIN Queued(p, frames) :
                 /\ Queued(p, frames)[i].dev = d
                 /\ Queued(p, frames)[i].last <=> last /\ i = Len(Queued(p, frames))
<1> DEFINE q == Queued(p, frames)
           m == Len(p)
           n == Len(frames)
<1>0. /\ m \in Nat /\ DOMAIN p = 1..m /\ n \in Nat /\ n # 0 /\ frames \in Seq(FrameType)
      /\ \A i \in 1..n : frames[i].dev = d /\ (frames[i].last <=> last /\ i = n)
  BY LenProperties DEF IsCommand
<1>1. /\ q \in Seq(FrameType) /\ Len(q) = m + n
      /\ \A i \in 1..m + n : q[i] = IF i <= m THEN p[i] ELSE frames[i - m]
  BY <1>0, ConcatProperties DEF Queued
<1>2. DOMAIN q = 1..m + n
  BY <1>1, LenProperties
<1> HIDE DEF q, m, n
<1>3. ASSUME NEW i \in 1..m + n
      PROVE  q[i].dev = d /\ (q[i].last <=> last /\ i = m + n)
  <2>1. CASE i <= m
    <3>1. q[i] = p[i] /\ i \in DOMAIN p /\ i # m + n
      BY <1>0, <1>1, <2>1
    <3> QED
      BY <3>1
  <2>2. CASE ~(i <= m)
    <3>1. q[i] = frames[i - m] /\ i - m \in 1..n /\ (i - m = n <=> i = m + n)
      BY <1>0, <1>1, <2>2
    <3> QED
      BY <1>0, <3>1
  <2> QED
    BY <2>1, <2>2
<1>4. q # <<>>
  <2>1. Len(q) # 0
    BY <1>0, <1>1
  <2> QED
    BY <2>1
<1> QED
  BY <1>1, <1>2, <1>3, <1>4 DEF q, m, n

\* The frames suffice for a command whose engine may queue it.
LEMMA CmdOfQueue ==
    ASSUME Inv, NEW d \in Devices, phase[d] = "in", NEW last \in BOOLEAN, NEW frames,
           IsCommand(frames, d, last), QueueCommand(d, frames),
           \/ /\ engine[d] = "idle" /\ ~CmdPending[d]
              /\ Len(frames) \in IF last THEN CmdLens ELSE PrefixLens
           \/ engine[d] = "prefix" /\ last /\ Len(frames) \in CmdLens,
           engine' = [engine EXCEPT ![d] = IF last THEN "idle" ELSE "prefix"],
           UNCHANGED <<phase, thread, result>>
    PROVE  CmdInv' /\ CallbacksKept /\ pending' = [pending EXCEPT ![d] = Queued(pending[d], frames)]
           /\ CmdPending' = [CmdPending EXCEPT ![d] = TRUE]
<1>0. TypeOK /\ CmdInv
  BY DEF Inv
<1> DEFINE p == pending[d]
           n == Len(frames)
           q == Queued(p, frames)
<1>1. /\ p \in Seq(FrameType) /\ Len(p) \in Nat /\ free[d] \in Nat /\ n \in Nat \ {0}
      /\ engine[d] \in {"idle", "prefix"}
  BY <1>0, LenProperties DEF TypeOK, IsCommand
<1>2. WholeInv(d)
  BY <1>0 DEF CmdInv, CmdOf
<1>3. free[d] + Len(p) = ListSize /\ ~LastInCallback(d)
  BY <1>2 DEF WholeInv
<1>4. \A i \in DOMAIN p : p[i].dev = d /\ ~p[i].last
  <2>1. CASE engine[d] = "prefix"
    BY <1>2, <2>1 DEF WholeInv
  <2>2. CASE engine[d] = "idle"
    <3>1. p = <<>>
      BY <1>2, <2>2 DEF WholeInv
    <3> QED
      BY <3>1
  <2> QED
    BY <1>1, <2>1, <2>2
<1>5. n <= free[d] /\ (~last => Len(p) = 0 /\ n \in PrefixLens)
  <2>1. CASE engine[d] = "idle"
    <3>1. p = <<>> /\ ~CmdPending[d]
      BY <1>2, <2>1 DEF WholeInv
    <3>2. n \in PrefixLens \cup CmdLens /\ (~last => n \in PrefixLens)
      BY <2>1
    <3>3. n <= ListSize
      BY <3>2, MdioAssumption
    <3>4. Len(p) = 0
      BY <3>1
    <3> HIDE DEF n, p
    <3> QED
      BY <1>1, <1>3, <3>2, <3>3, <3>4, Constants
  <2>2. CASE engine[d] = "prefix"
    <3>1. last /\ n \in CmdLens
      BY <2>2
    <3>2. PICK m \in PrefixLens : Len(p) <= m
      BY <1>2, <2>2 DEF WholeInv
    <3>3. m \in Nat /\ m + n <= ListSize
      BY <3>1, MdioAssumption
    <3> HIDE DEF n, p
    <3> QED
      BY <1>1, <1>3, <3>1, <3>2, <3>3, Constants
  <2> QED
    BY <1>1, <2>1, <2>2
<1>6. /\ CmdPending' = [CmdPending EXCEPT ![d] = TRUE]
      /\ free' = [free EXCEPT ![d] = free[d] - n]
      /\ pending' = [pending EXCEPT ![d] = q]
      /\ bus' = [bus EXCEPT ![pBus[d]].start = @ \/ pending[d] = <<>>]
  <2>1. ~(n > free[d])
    <3> HIDE DEF n
    <3> QED
      BY <1>1, <1>5
  <2> QED
    BY <2>1 DEF QueueCommand
<1>7. \A b \in Buses : bus'[b].active = bus[b].active /\ bus'[b].frame = bus[b].frame
  <2>1. PICK c \in Buses : c = pBus[d]
    BY DEF Inv, LifeInv, PhaseInv
  <2>2. PICK x : x = (bus[c].start \/ pending[d] = <<>>)
    OBVIOUS
  <2>3. bus' = [bus EXCEPT ![c] = [bus[c] EXCEPT !.start = x]] /\ bus[c] \in BusType
    BY <1>0, <1>6, <2>1, <2>2 DEF TypeOK
  <2> QED
    BY <1>0, <2>3 DEF TypeOK, BusType
<1>8. CallbacksKept
  BY <1>7 DEF CallbacksKept
<1>9. /\ q # <<>> /\ Len(q) = Len(p) + n
      /\ \A i \in DOMAIN q : q[i].dev = d /\ (q[i].last <=> last /\ i = Len(q))
  BY <1>1, <1>4, CommandAppended
<1>10. free'[d] = free[d] - n /\ pending'[d] = q /\ engine'[d] = IF last THEN "idle" ELSE "prefix"
  BY <1>0, <1>6 DEF TypeOK
<1>11. CmdPending'[d]
  BY <1>0, <1>6 DEF TypeOK
<1>12. ~LastInCallback(d)'
  BY <1>3, <1>8, LastKept
<1>13. free'[d] + Len(pending'[d]) = ListSize
  <2> HIDE DEF n, q, p
  <2>1. free'[d] = free[d] - n /\ Len(pending'[d]) = Len(p) + n
    BY <1>9, <1>10
  <2>2. \A x, y, z \in Nat : (x - z) + (y + z) = x + y
    OBVIOUS
  <2>3. n \in Nat
    BY <1>1
  <2>4. (free[d] - n) + (Len(p) + n) = free[d] + Len(p)
    BY <1>1, <2>2, <2>3
  <2> QED
    BY <1>3, <2>1, <2>4
<1>14. ~last => \E m \in PrefixLens : Len(pending'[d]) <= m
  <2> SUFFICES ASSUME ~last PROVE Len(pending'[d]) <= n /\ n \in PrefixLens
    OBVIOUS
  <2> HIDE DEF n, q, p
  <2> QED
    BY <1>1, <1>5, <1>9, <1>10
<1> HIDE DEF q, p, n
<1>15. WholeInv(d)'
  <2>1. CASE last
    <3>1. engine'[d] = "idle"
      BY <1>10, <2>1
    <3> QED
      BY <1>9, <1>10, <1>11, <1>12, <1>13, <2>1, <3>1 DEF WholeInv
  <2>2. CASE ~last
    <3>1. engine'[d] = "prefix"
      BY <1>10, <2>2
    <3> QED
      BY <1>9, <1>10, <1>11, <1>12, <1>13, <1>14, <2>2, <3>1 DEF WholeInv
  <2> QED
    BY <2>1, <2>2
<1>16. \A e \in Devices \ {d} : ListsKept(e)
  BY <1>0, <1>6 DEF TypeOK, ListsKept
<1>17. CmdOf(d)'
  BY <1>15 DEF CmdOf
<1>18. ASSUME NEW e \in Devices \ {d} PROVE CmdOf(e)'
  BY <1>0, <1>8, <1>16, CmdKept, LastKept DEF CmdInv
<1> QED
  BY <1>6, <1>8, <1>17, <1>18 DEF CmdInv, q, p

\* A command of the PHY engine is queued as a whole.
QueuesCommand(d) ==
    \E frames \in PrefixCommands(d) \cup Commands(d) :
        /\ pending' = [pending EXCEPT ![d] = Queued(pending[d], frames)]
        /\ CmdPending' = [CmdPending EXCEPT ![d] = TRUE]

LEMMA CmdOfQueuePrefix ==
    ASSUME Inv, NEW d \in Devices, QueuePrefix(d)
    PROVE  CmdInv' /\ CallbacksKept /\ QueuesCommand(d)
<1>1. PICK frames \in PrefixCommands(d) : QueueCommand(d, frames)
  BY DEF QueuePrefix
<1>2. IsCommand(frames, d, FALSE) /\ Len(frames) \in PrefixLens
  BY CommandFrames
<1>3. engine[d] = "idle" /\ ~CmdPending[d] /\ phase[d] = "in"
  BY DEF QueuePrefix, EngineRuns
<1>4. /\ engine' = [engine EXCEPT ![d] = IF FALSE THEN "idle" ELSE "prefix"]
      /\ UNCHANGED <<phase, thread, result>>
  BY DEF QueuePrefix, lifeVars
<1> QED
  BY <1>1, <1>2, <1>3, <1>4, CmdOfQueue DEF QueuesCommand

LEMMA CmdOfQueueLast ==
    ASSUME Inv, NEW d \in Devices, QueueLast(d)
    PROVE  CmdInv' /\ CallbacksKept /\ QueuesCommand(d)
<1>1. PICK frames \in Commands(d) : QueueCommand(d, frames)
  BY DEF QueueLast
<1>2. IsCommand(frames, d, TRUE) /\ Len(frames) \in CmdLens
  BY CommandFrames
<1>3. (engine[d] = "idle" /\ ~CmdPending[d]) \/ engine[d] = "prefix"
  BY DEF QueueLast, EngineRuns
<1>4. phase[d] = "in"
  BY EngineAttached
<1>5. /\ engine' = [engine EXCEPT ![d] = IF TRUE THEN "idle" ELSE "prefix"]
      /\ UNCHANGED <<phase, thread, result>>
  BY DEF QueueLast, lifeVars
<1> QED
  BY <1>1, <1>2, <1>3, <1>4, <1>5, CmdOfQueue DEF QueuesCommand

\* Removing the oldest frame leaves the rest of the command.
LEMMA OldestRemoved ==
    ASSUME NEW p \in Seq(FrameType), p # <<>>
    PROVE  /\ Tail(p) \in Seq(FrameType) /\ Len(Tail(p)) = Len(p) - 1 /\ Len(p) \in Nat \ {0}
           /\ Head(p) = p[1] /\ 1 \in DOMAIN p
           /\ \A i \in DOMAIN Tail(p) : i + 1 \in DOMAIN p /\ Tail(p)[i] = p[i + 1]
<1>1. /\ Tail(p) \in Seq(FrameType) /\ Len(Tail(p)) = Len(p) - 1 /\ Head(p) = p[1]
      /\ \A i \in 1..Len(Tail(p)) : Tail(p)[i] = p[i + 1]
  BY HeadTailProperties
<1>2. Len(p) \in Nat /\ DOMAIN p = 1..Len(p) /\ DOMAIN Tail(p) = 1..Len(Tail(p))
  BY <1>1, LenProperties
<1>3. Len(p) # 0
  BY <1>2, EmptySeq
<1>4. \A n \in Nat \ {0} : \A i \in 1..n - 1 : i + 1 \in 1..n
  OBVIOUS
<1> QED
  BY <1>1, <1>2, <1>3, <1>4

LEMMA CmdOfTransferDone ==
    ASSUME Inv, NEW b \in Buses, TransferDone(b) PROVE CmdInv'
<1>0. TypeOK /\ CmdInv /\ LifeInv /\ bus[b] \in BusType
  BY DEF Inv, TypeOK
<1> DEFINE rec == Woken(bus[b])
<1>1. rec \in BusType /\ rec.active = bus[b].active /\ rec.active # None
  BY <1>0, WokenTyped DEF TransferDone
<1>2. thread[b] = "wait" /\ bus[b].alive /\ thread' = [thread EXCEPT ![b] = "callback"]
  BY <1>0 DEF TransferDone, Awake, LifeInv
<1>3. bus[b].active \in On(b)
  BY <1>1, <1>2 DEF Inv, ThreadInv, Served
<1>4. PICK d \in Devices : d = bus[b].active /\ phase[d] = "in"
  BY <1>3 DEF On
<1>5. WholeInv(d)
  BY <1>0, <1>4 DEF CmdInv, CmdOf
<1>6. \A e : ~LastInCallback(e)
  BY <1>0, <1>2, NoCallback
<1>7. \A c \in Buses : thread'[c] = "callback" <=> c = b
  <2>1. \A c \in Buses : thread[c] # "callback"
    BY <1>0, <1>2, NoCallback
  <2> QED
    BY <1>0, <1>2, <2>1 DEF TypeOK
<1>8. UNCHANGED <<phase, CmdPending, engine, result>>
  BY DEF TransferDone, lifeVars
<1>9. PICK f \in FrameType :
          /\ bus' = [bus EXCEPT ![b] = [rec EXCEPT !.busy = FALSE, !.frame = f]]
          /\ \/ /\ pending[d] # <<>> /\ f = Head(pending[d])
                /\ pending' = [pending EXCEPT ![d] = Tail(@)]
                /\ free' = [free EXCEPT ![d] = @ + 1]
             \/ pending[d] = <<>> /\ f = NoFrame /\ UNCHANGED <<pending, free>>
  <2>1. CASE pending[d] # <<>>
    <3>1. Head(pending[d]) \in FrameType
      BY <1>0, <2>1, HeadTailProperties DEF TypeOK
    <3> QED
      BY <1>1, <1>4, <2>1, <3>1 DEF TransferDone
  <2>2. CASE pending[d] = <<>>
    BY <1>1, <1>4, <2>2, NoFrameTyped DEF TransferDone
  <2> QED
    BY <2>1, <2>2
<1> HIDE DEF rec
<1>10. bus'[b].active = d /\ bus'[b].frame = f
  <2>1. LET r == [rec EXCEPT !.busy = FALSE, !.frame = f] IN r.active = rec.active /\ r.frame = f
    BY <1>1 DEF BusType
  <2> QED
    BY <1>0, <1>1, <1>4, <1>9, <2>1 DEF TypeOK
<1>11. \A e \in Devices : LastInCallback(e)' <=> e = d /\ f.last
  BY <1>7, <1>10 DEF LastInCallback, InCallback
<1>12. \A e \in Devices \ {d} : ListsKept(e)
  BY <1>0, <1>8, <1>9 DEF TypeOK, ListsKept
<1>13. WholeInv(d)'
  <2>1. CASE pending[d] = <<>>
    <3>1. ListsKept(d) /\ f = NoFrame
      BY <1>8, <1>9, <2>1 DEF ListsKept
    <3>2. LastInCallback(d)' <=> LastInCallback(d)
      BY <1>6, <1>11, <3>1, NoFrameTyped
    <3> QED
      BY <1>5, <3>1, <3>2, WholeKept
  <2>2. CASE pending[d] # <<>>
    <3> DEFINE p == pending[d]
               q == Tail(p)
    <3>1. pending'[d] = q /\ free'[d] = free[d] + 1 /\ f = Head(p)
      BY <1>0, <1>9, <2>2 DEF TypeOK
    <3>2. /\ q \in Seq(FrameType) /\ Len(q) = Len(p) - 1 /\ Len(p) \in Nat \ {0}
          /\ f = p[1] /\ 1 \in DOMAIN p
          /\ \A i \in DOMAIN q : i + 1 \in DOMAIN p /\ q[i] = p[i + 1]
      <4>1. p \in Seq(FrameType)
        BY <1>0 DEF TypeOK
      <4> QED
        BY <2>2, <3>1, <4>1, OldestRemoved
    <3> HIDE DEF p, q
    <3>3. /\ free[d] + Len(p) = ListSize /\ free[d] \in Nat
          /\ \A i \in DOMAIN p : p[i].dev = d
          /\ \A i \in DOMAIN p : p[i].last <=> engine[d] = "idle" /\ i = Len(p)
      BY <1>0, <1>5 DEF WholeInv, p, TypeOK
    <3>4. free'[d] + Len(pending'[d]) = ListSize
      <4>1. \A x \in Nat, y \in Nat \ {0} : (x + 1) + (y - 1) = x + y
        OBVIOUS
      <4>2. (free[d] + 1) + (Len(p) - 1) = free[d] + Len(p)
        BY <3>2, <3>3, <4>1
      <4> QED
        BY <3>1, <3>2, <3>3, <4>2
    <3>5. ASSUME NEW i \in DOMAIN q
          PROVE  q[i].dev = d /\ (q[i].last <=> engine[d] = "idle" /\ i = Len(q))
      <4>1. i \in Int
        BY <3>2, LenProperties
      <4>2. i + 1 = Len(p) <=> i = Len(q)
        BY <3>2, <4>1
      <4> QED
        BY <3>2, <3>3, <4>2
    <3>6. f.last <=> engine[d] = "idle" /\ Len(p) = 1
      BY <3>2, <3>3
    <3>7. Len(p) = 1 <=> q = <<>>
      <4>1. Len(q) = 0 <=> q = <<>>
        BY <3>2, EmptySeq
      <4> QED
        BY <3>2, <4>1
    <3>8. LastInCallback(d)' <=> engine[d] = "idle" /\ q = <<>>
      BY <1>11, <3>6, <3>7
    <3>9. ASSUME engine[d] = "prefix"
          PROVE  CmdPending'[d] /\ \E m \in PrefixLens : Len(q) <= m
      <4>1. CmdPending[d] /\ \E m \in PrefixLens : Len(p) <= m
        BY <1>5, <3>9 DEF WholeInv, p
      <4>2. PICK m \in PrefixLens : Len(p) <= m
        BY <4>1
      <4>3. Len(q) <= m
        <5>1. m \in Nat
          BY MdioAssumption
        <5> QED
          BY <3>2, <4>2, <5>1
      <4> QED
        BY <1>8, <4>1, <4>3
    <3>10. ASSUME engine[d] = "idle" PROVE CmdPending'[d]
      BY <1>5, <1>8, <2>2, <3>10 DEF WholeInv, p
    <3>11. engine[d] \in {"idle", "prefix"} /\ engine'[d] = engine[d]
      BY <1>0, <1>8 DEF TypeOK
    <3>12. CASE engine[d] = "idle"
      BY <3>1, <3>4, <3>5, <3>8, <3>10, <3>11, <3>12 DEF WholeInv
    <3>13. CASE engine[d] = "prefix"
      BY <3>1, <3>4, <3>5, <3>8, <3>9, <3>11, <3>13 DEF WholeInv
    <3> QED
      BY <3>11, <3>12, <3>13
  <2> QED
    BY <2>1, <2>2
<1>14. CmdOf(d)'
  BY <1>4, <1>8, <1>13 DEF CmdOf
<1>15. ASSUME NEW e \in Devices \ {d} PROVE CmdOf(e)'
  BY <1>0, <1>6, <1>8, <1>11, <1>12, CmdKept DEF CmdInv
<1> QED
  BY <1>14, <1>15 DEF CmdInv

LEMMA CmdOfCallback ==
    ASSUME Inv, NEW b \in Buses, Callback(b) PROVE CmdInv'
<1>0. TypeOK /\ CmdInv /\ LifeInv
  BY DEF Inv
<1> DEFINE rec == bus[b]
           new == [rec EXCEPT !.active = Candidate(rec), !.frame = NoFrame]
<1>1. thread[b] = "callback" /\ GoOn(b, new)
  BY DEF Callback
<1>2. rec \in BusType /\ new \in BusType /\ rec.active \in On(b)
  BY <1>1, CallbackRecord
<1> HIDE DEF new
<1>3. PICK d \in Devices : d = rec.active /\ phase[d] = "in"
  BY <1>2 DEF On
<1>4. \A c \in Buses : thread[c] = "callback" <=> c = b
  BY <1>0, <1>1, OneThread
<1>5. \A c \in Buses : thread'[c] # "callback"
  BY <1>0, <1>1, <1>2, <1>4, WentOn
<1>6. \A e : ~LastInCallback(e)'
  BY <1>5 DEF LastInCallback, InCallback
<1>7. \A e \in Devices : LastInCallback(e) <=> e = d /\ rec.frame.last
  BY <1>3, <1>4 DEF LastInCallback, InCallback
<1>8. UNCHANGED <<phase, free, pending, engine>>
  BY DEF Callback, lifeVars
<1>9. /\ CmdPending'[d] <=> CmdPending[d] /\ ~rec.frame.last
      /\ \A e \in Devices \ {d} : CmdPending'[e] = CmdPending[e]
  BY <1>0, <1>3 DEF Callback, TypeOK
<1>10. \A e \in Devices \ {d} : ListsKept(e)
  BY <1>0, <1>3, <1>8, <1>9 DEF Callback, TypeOK, ListsKept
<1>11. WholeInv(d)'
  <2>1. WholeInv(d)
    BY <1>0, <1>3 DEF CmdInv, CmdOf
  <2>2. CASE rec.frame.last
    <3>1. LastInCallback(d) /\ pending[d] = <<>> /\ ~CmdPending'[d] /\ engine[d] # "prefix"
      BY <1>7, <1>9, <2>1, <2>2 DEF WholeInv
    <3> QED
      BY <1>6, <1>8, <2>1, <3>1 DEF WholeInv
  <2>3. CASE ~rec.frame.last
    <3>1. ~LastInCallback(d) /\ (CmdPending'[d] <=> CmdPending[d])
      BY <1>7, <1>9, <2>3
    <3> QED
      BY <1>6, <1>8, <2>1, <3>1 DEF WholeInv
  <2> QED
    BY <2>2, <2>3
<1>12. CmdOf(d)'
  BY <1>3, <1>8, <1>11 DEF CmdOf
<1>13. ASSUME NEW e \in Devices \ {d} PROVE CmdOf(e)'
  BY <1>0, <1>6, <1>7, <1>8, <1>10, CmdKept DEF CmdInv
<1> QED
  BY <1>12, <1>13 DEF CmdInv

\* Steps of the bus that are not about a frame that is done.
Passes(b) == NothingDone(b) \/ Scan(b) \/ Arm(b) \/ Killed(b) \/ TimerExpires(b)

LEMMA PassesKeepCallbacks ==
    ASSUME Inv, NEW b \in Buses, Passes(b)
    PROVE  CallbacksKept /\ UNCHANGED <<phase, devVars>>
<1>0. TypeOK /\ bus[b] \in BusType
  BY DEF Inv, TypeOK
<1>1. UNCHANGED <<phase, devVars>>
  BY DEF Passes, NothingDone, Scan, Arm, Killed, TimerExpires, lifeVars
<1>2. CASE TimerExpires(b)
  <2>1. bus' = [bus EXCEPT ![b] = [bus[b] EXCEPT !.timer = "fired"]] /\ UNCHANGED thread
    BY <1>2 DEF TimerExpires
  <2>2. \A c \in Buses : bus'[c].active = bus[c].active /\ bus'[c].frame = bus[c].frame
    BY <1>0, <2>1 DEF TypeOK, BusType
  <2> QED
    BY <1>1, <2>1, <2>2 DEF CallbacksKept
<1>3. CASE NothingDone(b) \/ Scan(b) \/ Arm(b) \/ Killed(b)
  <2>1. thread[b] \in {"wait", "scan", "arm"}
    BY <1>3 DEF NothingDone, Awake, Scan, Arm, Killed
  <2>2. thread'[b] # "callback" /\ \A c \in Buses \ {b} : thread'[c] = thread[c]
    <3>1. CASE NothingDone(b)
      <4>1. Woken(bus[b]) \in BusType
        BY <1>0, WokenTyped
      <4> QED
        BY <1>0, <3>1, <4>1, WentOn DEF NothingDone
    <3>2. CASE Scan(b)
      <4>1. \/ thread' = [thread EXCEPT ![b] = "arm"]
            \/ thread' = [thread EXCEPT ![b] = "scan"]
        BY <3>2, ScanCases DEF Sends, AsksOn
      <4> QED
        BY <1>0, <4>1 DEF TypeOK
    <3>3. CASE Arm(b) \/ Killed(b)
      BY <1>0, <3>3 DEF Arm, Killed, TypeOK
    <3> QED
      BY <1>3, <3>1, <3>2, <3>3
  <2>3. \A c \in Buses \ {b} : bus'[c] = bus[c]
    <3>1. UNCHANGED bus \/ \E r : bus' = [bus EXCEPT ![b] = r]
      <4>1. CASE Scan(b)
        BY <4>1, ScanCases DEF Sends, AsksOn
      <4>2. CASE NothingDone(b)
        BY <4>2 DEF NothingDone, GoOn
      <4>3. CASE Arm(b) \/ Killed(b)
        BY <4>3 DEF Arm, Killed
      <4> QED
        BY <1>3, <4>1, <4>2, <4>3
    <3> QED
      BY <1>0, <3>1 DEF TypeOK
  <2> QED
    BY <1>1, <2>1, <2>2, <2>3 DEF CallbacksKept
<1> QED
  BY <1>2, <1>3 DEF Passes

LEMMA CmdUndisturbed ==
    ASSUME CmdInv, CallbacksKept, UNCHANGED <<phase, devVars>> PROVE CmdInv'
<1>1. \A e \in Devices : ListsKept(e)
  BY DEF devVars, ListsKept
<1>2. ASSUME NEW e \in Devices PROVE CmdOf(e)'
  BY <1>1, CmdKept, LastKept DEF CmdInv
<1> QED
  BY <1>2 DEF CmdInv

LEMMA CmdOfInit == Init => CmdInv
  BY DEF Init, CmdInv, CmdOf

LEMMA CmdStep ==
    ASSUME Inv, [Next]_vars PROVE CmdInv'
<1>1. ASSUME NEW d \in Devices, Adapter(d) PROVE CmdInv'
  BY <1>1, CmdOfInitDevice, CmdOfAddDevice, CmdOfAdapter DEF Adapter
<1>2. ASSUME NEW d \in Devices, QueuePrefix(d) \/ QueueLast(d) PROVE CmdInv'
  BY <1>2, CmdOfQueuePrefix, CmdOfQueueLast
<1>3. ASSUME NEW b \in Buses, MDIOBus_Main(b) \/ TimerExpires(b) PROVE CmdInv'
  BY <1>3, CmdOfTransferDone, CmdOfCallback, PassesKeepCallbacks, CmdUndisturbed
     DEF Inv, MDIOBus_Main, Passes
<1>4. CASE FrameSent \/ UNCHANGED vars
  <2>1. CallbacksKept /\ UNCHANGED <<phase, devVars>>
    BY <1>4 DEF FrameSent, vars, busVars, lifeVars, CallbacksKept
  <2> QED
    BY <2>1, CmdUndisturbed DEF Inv
<1> QED
  BY <1>1, <1>2, <1>3, <1>4 DEF Next

-----------------------------------------------------------------------------
(* The invariant of every run of the driver *)

LEMMA InvHolds == Assumed => (Spec => []Inv)
<1> SUFFICES ASSUME Assumed PROVE Spec => []Inv
  OBVIOUS
<1>1. Init => Inv
  BY TypesOfInit, LifeOfInit, ThreadOfInit, CmdOfInit DEF Inv
<1>2. Inv /\ [Next]_vars => Inv'
  <2> SUFFICES ASSUME Inv, [Next]_vars PROVE Inv'
    OBVIOUS
  <2> QED
    BY TypesKept, LifeStep, ThreadStep, CmdStep DEF Inv
<1> QED
  BY <1>1, <1>2, PTL DEF Spec

\* With adapters initialized and halted one at a time, in every order, MDIOBus_Open
\* and MDIOBus_Close keep one bus: every pointer to it is to memory that has not
\* been freed, and it lives exactly as long as its reference count says.
THEOREM BusIsSharedSafely == Assumed => (Spec => []BusLifetime)
<1> SUFFICES ASSUME Assumed PROVE Spec => []BusLifetime
  OBVIOUS
<1>1. Inv => BusLifetime
  <2> SUFFICES ASSUME Inv PROVE BusLifetime
    OBVIOUS
  <2>0. TypeOK /\ LifeInv
    BY DEF Inv
  <2>1. NothingFreedIsUsed
    <3>1. ASSUME NEW d \in Devices, NEW b \in {pBus[d], closing[d]} \ {None} PROVE bus[b].alive
      <4>1. PhaseInv(d) /\ phase[d] \in Phases
        BY <2>0 DEF LifeInv, TypeOK
      <4> QED
        BY <3>1, <4>1 DEF PhaseInv, Phases
    <3>2. ASSUME NEW b \in Range(busList) PROVE bus[b].alive
      <4>1. busList # <<>>
        BY DEF Range
      <4>2. PICK c \in Buses : busList = <<c>> /\ bus[c].alive
        BY <2>0, <4>1 DEF LifeInv
      <4>3. b = c
        BY <4>2 DEF Range
      <4> QED
        BY <4>2, <4>3
    <3> QED
      BY <2>0, <3>1, <3>2 DEF NothingFreedIsUsed, LifeInv
  <2>2. OneBus
    <3> DEFINE T == {b \in Buses : thread[b] # "none"}
    <3>1. T = {} \/ \E b \in Buses : T = {b}
      <4>1. \A b, c \in T : b = c
        BY <2>0, OneThread
      <4> QED
        BY <4>1
    <3>2. Cardinality(T) <= 1
      <4>1. CASE T = {}
        BY <4>1, FS_EmptySet
      <4>2. CASE \E b \in Buses : T = {b}
        BY <4>2, FS_Singleton
      <4> QED
        BY <3>1, <4>1, <4>2
    <3>3. \A b \in Buses : bus[b].alive => bus[b].ref = Cardinality(Users(b))
      BY <2>0 DEF LifeInv
    <3> QED
      BY <3>2, <3>3 DEF OneBus, Users
  <2> QED
    BY <2>0, <2>1, <2>2 DEF BusLifetime
<1>2. Spec => []Inv
  BY InvHolds
<1> QED
  BY <1>1, <1>2, PTL

\* No frame of a device's array is lost, and every command the PHY engine queues
\* finds the frames it needs, for every length of the commands that fit in.
THEOREM FramesAreConserved == Assumed => (Spec => []FramesConserved)
<1> SUFFICES ASSUME Assumed PROVE Spec => []FramesConserved
  OBVIOUS
<1>1. Inv => FramesConserved
  BY DEF Inv, CmdInv, CmdOf, WholeInv, FramesConserved
<1>2. Spec => []Inv
  BY InvHolds
<1> QED
  BY <1>1, <1>2, PTL

-----------------------------------------------------------------------------
(* The thread and the wire agree: WireInv is inductive when no device is    *)
(* removed while its frame is on the wire                                   *)

\* A step that leaves the controller, which bus waits for which device, and the
\* oldest frames of attached devices.
WireKept ==
    /\ UNCHANGED <<EIR_MII, MMFR, MSCR, wire>>
    /\ \A b \in Buses : /\ bus'[b].busy = bus[b].busy
                        /\ bus[b].busy => bus'[b].active = bus[b].active
    /\ \A d \in Devices : phase[d] = "in" /\ pending[d] # <<>> =>
           pending'[d] # <<>> /\ Head(pending'[d]) = Head(pending[d])

\* The device a busy bus waits for.
LEMMA BusyBus ==
    ASSUME Inv, NEW b \in Buses, bus[b].busy
    PROVE  /\ bus[b].alive /\ bus[b].active \in On(b) /\ bus[b].active \in Devices
           /\ phase[bus[b].active] = "in" /\ \A c \in Buses : bus[c].busy => c = b
<1>1. \A c \in Buses : bus[c].busy => bus[c].alive
  BY DEF Inv, ThreadInv, Served
<1>2. bus[b].active \in On(b)
  BY <1>1 DEF Inv, ThreadInv, Served
<1> QED
  BY <1>1, <1>2 DEF On, Inv, LifeInv

LEMMA WireUndisturbed ==
    ASSUME Inv, WireInv, WireKept, CallbacksKept PROVE WireInv'
<1>1. ASSUME NEW b \in Buses, bus'[b].busy PROVE Tracked(b)'
  <2>1. bus[b].busy
    BY <1>1 DEF WireKept
  <2>2. PICK d \in Devices : d = bus[b].active /\ phase[d] = "in"
    BY <2>1, BusyBus
  <2>3. Tracked(b) /\ bus'[b].active = d
    BY <2>1, <2>2 DEF WireInv, WireKept
  <2>4. /\ pending[d] # <<>> /\ MMFR.frame = Head(pending[d]) /\ MSCR = d
        /\ \/ wire = MMFR.frame /\ ~MMFR.done /\ ~EIR_MII
           \/ wire = NoFrame /\ MMFR.done /\ EIR_MII
    BY <2>2, <2>3 DEF Tracked
  <2>5. pending'[d] # <<>> /\ Head(pending'[d]) = Head(pending[d])
    BY <2>2, <2>4 DEF WireKept
  <2>6. UNCHANGED <<EIR_MII, MMFR, MSCR, wire>>
    BY DEF WireKept
  <2> QED
    BY <2>3, <2>4, <2>5, <2>6 DEF Tracked
<1>2. ASSUME \A b \in Buses : ~bus'[b].busy PROVE wire' = NoFrame /\ ~EIR_MII'
  BY <1>2 DEF WireInv, WireKept
<1>3. ASSUME NEW b \in Buses, thread'[b] = "callback"
      PROVE  MMFR' = [frame |-> bus'[b].frame, done |-> TRUE]
  BY <1>3 DEF WireInv, WireKept, CallbacksKept
<1> QED
  BY <1>1, <1>2, <1>3 DEF WireInv

LEMMA WireOfAdapter ==
    ASSUME Inv, WireInv, ~RemoveActive, Assumed, NEW d \in Devices, Adapter(d) PROVE WireInv'
<1>0. TypeOK /\ LifeInv /\ ThreadInv
  BY DEF Inv
<1>1. CallbacksKept
  BY CmdOfInitDevice, CmdOfAddDevice, CmdOfAdapter DEF Adapter
<1>2. UNCHANGED <<EIR_MII, MMFR, MSCR, wire>>
  BY DEF Adapter, MDIODev_InitDevice, CreateBus, LinkBus, NotInitialized, MDIOBus_AddDevice,
         MDIOBus_RemoveDevice, MDIOBus_Close, FreeBus, hwVars
<1>3. ASSUME NEW e \in Devices, phase[e] = "in" PROVE pending'[e] = pending[e]
  <2>1. CASE MDIODev_InitDevice(d)
    BY <1>0, <1>3, <2>1 DEF MDIODev_InitDevice, TypeOK
  <2>2. CASE ~MDIODev_InitDevice(d)
    BY <2>2 DEF Adapter, CreateBus, LinkBus, NotInitialized, MDIOBus_AddDevice,
                MDIOBus_RemoveDevice, MDIOBus_Close, FreeBus, devVars
  <2> QED
    BY <2>1, <2>2
<1>4. \A b \in Buses : bus'[b].busy = bus[b].busy /\ (bus[b].busy => bus'[b].active = bus[b].active)
  <2>1. CASE MDIODev_InitDevice(d) \/ LinkBus(d) \/ NotInitialized(d) \/ MDIOBus_Close(d)
    BY <2>1, ThreadOfInitDevice, ThreadOfLinkClose DEF AllServiceKept, ServiceKept
  <2>2. CASE CreateBus(d)
    <3>1. CASE UNCHANGED bus
      BY <3>1
    <3>2. CASE \E b \in Buses : ~bus[b].alive /\ bus' = [bus EXCEPT ![b] = FreshBus]
      <4>1. PICK b \in Buses : ~bus[b].alive /\ bus' = [bus EXCEPT ![b] = FreshBus]
        BY <3>2
      <4>2. bus'[b] = FreshBus /\ \A c \in Buses \ {b} : bus'[c] = bus[c]
        BY <1>0, <4>1 DEF TypeOK
      <4>3. bus[b].busy = FALSE /\ FreshBus.busy = FALSE
        <5>1. bus[b] \in BusType
          BY <1>0 DEF TypeOK
        <5>2. bus[b].busy \in BOOLEAN /\ ~bus[b].busy
          BY <1>0, <4>1, <5>1, RecordTyped DEF ThreadInv, Served
        <5> QED
          BY <5>2 DEF FreshBus
      <4> QED
        BY <4>2, <4>3
    <3> QED
      BY <2>2, <3>1, <3>2 DEF CreateBus
  <2>3. CASE MDIOBus_AddDevice(d)
    <3>1. CASE UNCHANGED bus
      BY <3>1
    <3>2. CASE bus' = [bus EXCEPT ![pBus[d]].first = <<d>> \o @]
      <4>1. PICK b \in Buses : b = pBus[d]
        BY <1>0, <2>3 DEF MDIOBus_AddDevice, LifeInv, PhaseInv
      <4>2. PICK l : l = <<d>> \o bus[b].first
        OBVIOUS
      <4>3. bus' = [bus EXCEPT ![b] = [bus[b] EXCEPT !.first = l]] /\ bus[b] \in BusType
        BY <1>0, <3>2, <4>1, <4>2 DEF TypeOK
      <4> QED
        BY <1>0, <4>3 DEF TypeOK, BusType
    <3> QED
      BY <2>3, <3>1, <3>2 DEF MDIOBus_AddDevice
  <2>4. CASE MDIOBus_RemoveDevice(d)
    <3>1. PICK b \in Buses : b = pBus[d]
      BY <1>0, <2>4 DEF MDIOBus_RemoveDevice, TypeOK
    <3>2. /\ bus[b].alive /\ bus[b] \in BusType /\ ~(bus[b].active = d /\ bus[b].busy)
          /\ bus' = [bus EXCEPT ![b] = RemovedFrom(d, bus[b])]
      BY <1>0, <2>4, <3>1 DEF MDIOBus_RemoveDevice, TypeOK
    <3> DEFINE n == RemovedFrom(d, bus[b])
    <3>3. IsInjective(bus[b].first)
      BY <1>0, <3>2 DEF ThreadInv, Served
    <3>4. /\ n \in BusType /\ (bus[b].active = d => ~n.busy)
          /\ bus[b].active # d => n.active = bus[b].active /\ n.busy = bus[b].busy
      BY <3>2, <3>3, RemovedTyped
    <3>5. n.busy \in BOOLEAN /\ bus[b].busy \in BOOLEAN
      BY <3>2, <3>4, RecordTyped
    <3> HIDE DEF n
    <3>6. n.busy = bus[b].busy /\ (bus[b].busy => n.active = bus[b].active)
      BY <3>2, <3>4, <3>5
    <3>7. bus'[b] = n /\ \A c \in Buses \ {b} : bus'[c] = bus[c]
      BY <1>0, <3>2 DEF TypeOK, n
    <3> QED
      BY <3>6, <3>7
  <2>5. CASE FreeBus(d)
    <3>1. PICK b \in Buses : b = closing[d]
      BY <1>0, <2>5 DEF FreeBus, LifeInv, PhaseInv
    <3>2. bus' = [bus EXCEPT ![b] = [bus[b] EXCEPT !.alive = FALSE]] /\ bus[b] \in BusType
      BY <1>0, <2>5, <3>1 DEF FreeBus, TypeOK
    <3> QED
      BY <1>0, <3>2 DEF TypeOK, BusType
  <2> QED
    BY <2>1, <2>2, <2>3, <2>4, <2>5 DEF Adapter
<1>5. WireKept
  BY <1>2, <1>3, <1>4 DEF WireKept
<1> QED
  BY <1>1, <1>5, WireUndisturbed

LEMMA WireOfQueue ==
    ASSUME Inv, WireInv, NEW d \in Devices, QueuePrefix(d) \/ QueueLast(d) PROVE WireInv'
<1>0. TypeOK
  BY DEF Inv
<1>1. CallbacksKept /\ QueuesCommand(d)
  BY CmdOfQueuePrefix, CmdOfQueueLast
<1>2. UNCHANGED <<EIR_MII, MMFR, MSCR, wire>>
  BY DEF QueuePrefix, QueueLast, hwVars
<1>3. PICK frames \in PrefixCommands(d) \cup Commands(d) :
          pending' = [pending EXCEPT ![d] = Queued(pending[d], frames)]
  BY <1>1 DEF QueuesCommand
<1>4. ASSUME NEW e \in Devices, pending[e] # <<>>
      PROVE  pending'[e] # <<>> /\ Head(pending'[e]) = Head(pending[e])
  <2>1. CASE e # d
    BY <1>0, <1>3, <1>4, <2>1 DEF TypeOK
  <2>2. CASE e = d
    <3> DEFINE p == pending[d]
               q == p \o frames
    <3>1. pending'[d] = q
      BY <1>0, <1>3 DEF TypeOK, Queued
    <3>2. p \in Seq(FrameType) /\ frames \in Seq(FrameType) /\ p # <<>>
      BY <1>0, <1>4, <2>2, CommandFrames DEF TypeOK, IsCommand
    <3> HIDE DEF p
    <3>3. Len(p) \in Nat \ {0} /\ Len(frames) \in Nat
      BY <3>2, EmptySeq, LenProperties
    <3>4. q \in Seq(FrameType) /\ Len(q) = Len(p) + Len(frames) /\ q[1] = p[1]
      BY <3>2, <3>3, ConcatProperties
    <3> HIDE DEF q
    <3>5. Len(q) # 0
      BY <3>3, <3>4
    <3>6. q # <<>>
      BY <3>5
    <3>7. Head(q) = q[1] /\ Head(p) = p[1]
      BY <3>2, <3>4, <3>6, HeadTailProperties
    <3> QED
      BY <2>2, <3>1, <3>4, <3>6, <3>7 DEF p
  <2> QED
    BY <2>1, <2>2
<1>5. WireKept
  BY <1>2, <1>4, ThreadOfQueue DEF WireKept, AllServiceKept, ServiceKept
<1> QED
  BY <1>1, <1>5, WireUndisturbed

LEMMA WireOfNothingDone ==
    ASSUME Inv, WireInv, NEW b \in Buses, NothingDone(b) PROVE WireInv'
<1>0. TypeOK /\ bus[b] \in BusType
  BY DEF Inv, TypeOK
<1>1. CallbacksKept /\ UNCHANGED <<phase, devVars>>
  BY PassesKeepCallbacks DEF Passes
<1>2. EIR_MII' = EIR_MII
  <2>1. ~EIR_MII
    <3> SUFFICES ASSUME EIR_MII PROVE FALSE
      OBVIOUS
    <3>1. bus[b].active = None
      BY DEF NothingDone
    <3>2. PICK c \in Buses : bus[c].busy
      BY DEF WireInv
    <3>3. bus[b].alive /\ bus[c].alive /\ bus[c].active \in Devices
      BY <3>2, BusyBus DEF NothingDone, Awake, Inv, LifeInv
    <3>4. b = c
      BY <3>3 DEF Inv, LifeInv
    <3> QED
      BY <3>1, <3>3, <3>4, Constants
  <2>2. EIR_MII' = FALSE /\ EIR_MII \in BOOLEAN
    BY <1>0 DEF NothingDone, TypeOK
  <2> QED
    BY <2>1, <2>2
<1>3. \A c \in Buses : bus'[c].busy = bus[c].busy /\ bus'[c].active = bus[c].active
  <2> DEFINE rec == Woken(bus[b])
  <2>1. rec \in BusType /\ rec.busy = bus[b].busy /\ rec.active = bus[b].active /\ GoOn(b, rec)
    BY <1>0, WokenTyped DEF NothingDone
  <2> HIDE DEF rec
  <2> QED
    BY <1>0, <2>1, WentOn
<1>4. WireKept
  BY <1>1, <1>2, <1>3 DEF WireKept, NothingDone, devVars
<1> QED
  BY <1>1, <1>4, WireUndisturbed

\* The flag tells that the bus that looks at it waits, and for what.
LEMMA FlagIsOwn ==
    ASSUME Inv, WireInv, NEW b \in Buses, EIR_MII, thread[b] # "none"
    PROVE  /\ bus[b].busy /\ Tracked(b) /\ MMFR.done /\ wire = NoFrame
           /\ \A c \in Buses : bus[c].busy => c = b
<1>1. PICK c \in Buses : bus[c].busy
  BY DEF WireInv
<1>2. bus[c].alive /\ bus[b].alive
  BY <1>1, BusyBus DEF Inv, LifeInv
<1>3. b = c
  BY <1>2 DEF Inv, LifeInv
<1>4. Tracked(b)
  BY <1>1, <1>3 DEF WireInv
<1> QED
  BY <1>1, <1>3, <1>4, BusyBus DEF Tracked

LEMMA WireOfTransferDone ==
    ASSUME Inv, WireInv, NEW b \in Buses, TransferDone(b) PROVE WireInv'
<1>0. TypeOK /\ LifeInv /\ bus[b] \in BusType
  BY DEF Inv, TypeOK
<1> DEFINE rec == Woken(bus[b])
<1>1. rec \in BusType /\ rec.active = bus[b].active
  BY <1>0, WokenTyped
<1>2. thread[b] = "wait" /\ thread' = [thread EXCEPT ![b] = "callback"] /\ EIR_MII
  BY DEF TransferDone, Awake
<1>3. /\ bus[b].busy /\ Tracked(b) /\ MMFR.done /\ wire = NoFrame
      /\ \A c \in Buses : bus[c].busy => c = b
  BY <1>2, FlagIsOwn
<1>4. ~EIR_MII' /\ UNCHANGED <<MMFR, MSCR, wire>>
  BY DEF TransferDone, ClearedMII
<1>5. PICK d \in Devices : d = bus[b].active
  BY <1>3, BusyBus
<1>6. pending[d] # <<>> /\ MMFR.frame = Head(pending[d])
  BY <1>3, <1>5 DEF Tracked
<1>7. bus' = [bus EXCEPT ![b] = [rec EXCEPT !.busy = FALSE, !.frame = Head(pending[d])]]
  BY <1>1, <1>5, <1>6 DEF TransferDone
<1> HIDE DEF rec
<1> DEFINE new == [rec EXCEPT !.busy = FALSE, !.frame = Head(pending[d])]
<1>8. ~new.busy /\ new.frame = Head(pending[d])
  BY <1>1 DEF BusType
<1> HIDE DEF new
<1>9. bus'[b] = new /\ \A c \in Buses \ {b} : bus'[c] = bus[c]
  BY <1>0, <1>7 DEF TypeOK, new
<1>10. \A c \in Buses : ~bus'[c].busy
  BY <1>3, <1>8, <1>9
<1>11. \A c \in Buses : thread'[c] = "callback" => c = b
  <2>1. \A c \in Buses : thread[c] # "callback"
    BY <1>0, <1>2, OneThread
  <2> QED
    BY <1>0, <1>2, <2>1 DEF TypeOK
<1>12. MMFR' = [frame |-> bus'[b].frame, done |-> TRUE]
  <2>1. MMFR = [frame |-> MMFR.frame, done |-> MMFR.done] /\ MMFR.done \in BOOLEAN
    BY <1>0 DEF TypeOK
  <2> QED
    BY <1>3, <1>4, <1>6, <1>8, <1>9, <2>1
<1> QED
  BY <1>3, <1>4, <1>10, <1>11, <1>12 DEF WireInv

LEMMA WireOfCallback ==
    ASSUME Inv, WireInv, NEW b \in Buses, Callback(b) PROVE WireInv'
<1>0. TypeOK /\ LifeInv
  BY DEF Inv
<1> DEFINE rec == bus[b]
           new == [rec EXCEPT !.active = Candidate(rec), !.frame = NoFrame]
<1>1. thread[b] = "callback" /\ GoOn(b, new) /\ UNCHANGED <<EIR_MII, MMFR, MSCR, wire>>
  BY DEF Callback, hwVars
<1>2. rec.alive /\ new \in BusType /\ new.busy = rec.busy /\ ~rec.busy
  BY <1>1, CallbackRecord
<1> HIDE DEF new
<1>3. /\ bus'[b] = new /\ thread'[b] # "callback"
      /\ \A c \in Buses \ {b} : bus'[c] = bus[c] /\ thread'[c] = thread[c]
  BY <1>0, <1>1, <1>2, WentOn
<1>4. \A c \in Buses : ~bus[c].busy
  <2> SUFFICES ASSUME NEW c \in Buses, bus[c].busy PROVE FALSE
    OBVIOUS
  <2>1. bus[c].alive
    BY BusyBus
  <2> QED
    BY <1>0, <1>2, <2>1 DEF LifeInv
<1>5. \A c \in Buses : ~bus'[c].busy
  BY <1>2, <1>3, <1>4
<1>6. \A c \in Buses : thread'[c] # "callback"
  BY <1>0, <1>1, <1>3, OneThread
<1> QED
  BY <1>1, <1>4, <1>5, <1>6 DEF WireInv

LEMMA WireOfScan ==
    ASSUME Inv, WireInv, NEW b \in Buses, Scan(b) PROVE WireInv'
<1>0. TypeOK /\ LifeInv
  BY DEF Inv
<1>1. thread[b] = "scan" /\ (Sends(b) \/ AsksOn(b)) /\ UNCHANGED <<devVars, EIR_MII>>
  BY ScanCases DEF Scan
<1>2. CallbacksKept
  BY PassesKeepCallbacks DEF Passes
<1>3. bus[b].alive /\ ~bus[b].busy /\ cursor[b] \in Devices
  BY <1>1, ScanRecord
<1>4. \A c \in Buses : ~bus[c].busy
  <2> SUFFICES ASSUME NEW c \in Buses, bus[c].busy PROVE FALSE
    OBVIOUS
  <2>1. bus[c].alive
    BY BusyBus
  <2> QED
    BY <1>0, <1>3, <2>1 DEF LifeInv
<1>5. wire = NoFrame /\ ~EIR_MII
  BY <1>4 DEF WireInv
<1>6. CASE AsksOn(b)
  <2>1. WireKept
    BY <1>1, <1>6 DEF AsksOn, WireKept, devVars
  <2> QED
    BY <1>2, <2>1, WireUndisturbed
<1>7. CASE Sends(b)
  <2> DEFINE new == [bus[b] EXCEPT !.active = cursor[b], !.busy = TRUE]
  <2>1. new.active = cursor[b] /\ new.busy
    BY <1>1, ScanRecord
  <2>2. bus' = [bus EXCEPT ![b] = new] /\ thread' = [thread EXCEPT ![b] = "arm"]
    BY <1>7 DEF Sends
  <2> HIDE DEF new
  <2>3. /\ bus'[b] = new /\ thread'[b] = "arm"
        /\ \A c \in Buses \ {b} : bus'[c] = bus[c] /\ thread'[c] = thread[c]
    BY <1>0, <2>2 DEF TypeOK
  <2>4. \A c \in Buses : bus'[c].busy => c = b
    BY <1>4, <2>3
  <2>5. \A c \in Buses : thread'[c] # "callback"
    BY <1>0, <1>1, <2>3, OneThread
  <2>6. PICK f : f = Head(pending[cursor[b]])
    OBVIOUS
  <2>7. MMFR' = [frame |-> f, done |-> FALSE] /\ wire' = f /\ MSCR' = cursor[b]
    BY <1>5, <1>7, <2>6 DEF Sends, WriteMMFR
  <2>8. Tracked(b)'
    <3>1. PICK d \in Devices : d = cursor[b]
      BY <1>3
    <3>2. bus'[b].active = d /\ pending'[d] # <<>> /\ Head(pending'[d]) = f
      BY <1>1, <1>7, <2>1, <2>3, <2>6, <3>1 DEF Sends, devVars
    <3>3. MMFR'.frame = f /\ ~MMFR'.done
      BY <2>7
    <3> QED
      BY <1>1, <1>5, <2>7, <3>1, <3>2, <3>3 DEF Tracked
  <2> QED
    BY <2>1, <2>3, <2>4, <2>5, <2>8 DEF WireInv
<1> QED
  BY <1>1, <1>6, <1>7

LEMMA WireOfArmed ==
    ASSUME Inv, WireInv, NEW b \in Buses, Arm(b) \/ Killed(b) \/ TimerExpires(b) PROVE WireInv'
<1>0. TypeOK /\ LifeInv /\ bus[b] \in BusType
  BY DEF Inv, TypeOK
<1>1. CallbacksKept /\ UNCHANGED <<phase, devVars>>
  BY PassesKeepCallbacks DEF Passes
<1>2. \A c \in Buses : bus'[c].busy = bus[c].busy /\ bus'[c].active = bus[c].active
  <2>1. CASE UNCHANGED bus
    BY <2>1
  <2>2. ASSUME NEW x, bus' = [bus EXCEPT ![b] = [bus[b] EXCEPT !.timer = x]]
        PROVE  \A c \in Buses : bus'[c].busy = bus[c].busy /\ bus'[c].active = bus[c].active
    BY <1>0, <2>2 DEF TypeOK, BusType
  <2>3. \/ UNCHANGED bus
        \/ \E x : bus' = [bus EXCEPT ![b] = [bus[b] EXCEPT !.timer = x]]
    BY DEF Arm, Killed, TimerExpires
  <2> QED
    BY <2>1, <2>2, <2>3
<1>3. UNCHANGED <<EIR_MII, MMFR, wire, pending>>
  BY <1>1 DEF Arm, Killed, TimerExpires, hwVars, devVars
<1>4. CASE UNCHANGED MSCR
  <2>1. WireKept
    BY <1>2, <1>3, <1>4 DEF WireKept
  <2> QED
    BY <1>1, <2>1, WireUndisturbed
<1>5. CASE Arm(b) /\ ~bus[b].busy
  <2>1. bus[b].alive
    BY <1>0, <1>5 DEF Arm, LifeInv
  <2>2. \A c \in Buses : ~bus[c].busy
    <3> SUFFICES ASSUME NEW c \in Buses, bus[c].busy PROVE FALSE
      OBVIOUS
    <3>1. bus[c].alive
      BY BusyBus
    <3> QED
      BY <1>0, <1>5, <2>1, <3>1 DEF LifeInv
  <2>3. \A c \in Buses : ~bus'[c].busy
    BY <1>2, <2>2
  <2>4. \A c \in Buses : (thread[c] = "callback" => MMFR = [frame |-> bus[c].frame, done |-> TRUE])'
    BY <1>1, <1>3 DEF CallbacksKept, WireInv
  <2> QED
    BY <1>3, <2>2, <2>3, <2>4 DEF WireInv
<1> QED
  BY <1>4, <1>5 DEF Arm, Killed, TimerExpires, hwVars

LEMMA WireOfFrameSent ==
    ASSUME Inv, WireInv, FrameSent PROVE WireInv'
<1>0. TypeOK /\ LifeInv
  BY DEF Inv
<1>1. /\ wire # NoFrame /\ wire' = NoFrame /\ EIR_MII'
      /\ UNCHANGED <<bus, thread, pending, MSCR>>
  BY DEF FrameSent, busVars, devVars
<1>2. PICK b \in Buses : bus[b].busy
  BY <1>1 DEF WireInv
<1>3. Tracked(b) /\ \A c \in Buses : bus[c].busy => c = b
  BY <1>2, BusyBus DEF WireInv
<1>4. wire = MMFR.frame
  BY <1>1, <1>3 DEF Tracked
<1>5. MMFR'.frame = MMFR.frame /\ MMFR'.done
  BY <1>0, <1>4 DEF FrameSent, TypeOK
<1>6. Tracked(b)'
  BY <1>1, <1>3, <1>5 DEF Tracked
<1>7. \A c \in Buses : thread'[c] # "callback"
  <2> SUFFICES ASSUME NEW c \in Buses, thread[c] = "callback" PROVE FALSE
    BY <1>1
  <2>1. bus[c].alive /\ ~bus[c].busy
    BY CallbackRecord
  <2>2. bus[b].alive
    BY <1>2, BusyBus
  <2> QED
    BY <1>0, <1>2, <2>1, <2>2 DEF LifeInv
<1> QED
  BY <1>1, <1>2, <1>3, <1>6, <1>7 DEF WireInv

LEMMA WireOfInit == Init => WireInv
<1> SUFFICES ASSUME Init PROVE WireInv
  OBVIOUS
<1>1. \A b \in Buses : ~bus[b].busy /\ thread[b] = "none"
  BY FreshTyped DEF Init, BusType
<1>2. wire = NoFrame /\ ~EIR_MII
  BY DEF Init
<1> QED
  BY <1>1, <1>2 DEF WireInv

LEMMA WireStep ==
    ASSUME Inv, WireInv, Assumed, ~RemoveActive, [Next]_vars PROVE WireInv'
<1>1. ASSUME NEW d \in Devices, Adapter(d) PROVE WireInv'
  BY <1>1, WireOfAdapter
<1>2. ASSUME NEW d \in Devices, QueuePrefix(d) \/ QueueLast(d) PROVE WireInv'
  BY <1>2, WireOfQueue
<1>3. ASSUME NEW b \in Buses, MDIOBus_Main(b) \/ TimerExpires(b) PROVE WireInv'
  BY <1>3, WireOfNothingDone, WireOfTransferDone, WireOfCallback, WireOfScan, WireOfArmed
     DEF MDIOBus_Main
<1>4. CASE FrameSent
  BY <1>4, WireOfFrameSent
<1>5. CASE UNCHANGED vars
  <2>1. WireKept /\ CallbacksKept
    BY <1>5 DEF vars, busVars, devVars, hwVars, WireKept, CallbacksKept
  <2> QED
    BY <2>1, WireUndisturbed
<1> QED
  BY <1>1, <1>2, <1>3, <1>4, <1>5 DEF Next

LEMMA WireHolds == Assumed /\ ~RemoveActive => (Spec => [](Inv /\ WireInv))
<1> SUFFICES ASSUME Assumed, ~RemoveActive PROVE Spec => [](Inv /\ WireInv)
  OBVIOUS
<1>1. Init => WireInv
  BY WireOfInit
<1>2. Inv /\ WireInv /\ [Next]_vars => WireInv'
  BY WireStep
<1>3. Spec => []Inv
  BY InvHolds
<1> QED
  BY <1>1, <1>2, <1>3, PTL DEF Spec

LEMMA OldestIsOwn ==
    ASSUME Inv, NEW d \in Devices, phase[d] = "in", pending[d] # <<>>
    PROVE  Head(pending[d]).dev = d
<1>1. pending[d] \in Seq(FrameType) /\ \A i \in DOMAIN pending[d] : pending[d][i].dev = d
  BY DEF Inv, TypeOK, CmdInv, CmdOf, WholeInv
<1>2. 1 \in DOMAIN pending[d] /\ Head(pending[d]) = pending[d][1]
  BY <1>1, OldestRemoved
<1> QED
  BY <1>1, <1>2

\* MMFR is written only when nothing is on the wire, and the callbacks of a frame
\* read that frame's result, of a device that is still attached: the flag, the
\* register and the pending list never get out of step.
THEOREM ResultsAreOwn == Assumed /\ ~RemoveActive => (Spec => []ResultsMatch)
<1> SUFFICES ASSUME Assumed, ~RemoveActive PROVE Spec => []ResultsMatch
  OBVIOUS
<1>1. Inv /\ WireInv => ResultsMatch
  <2> SUFFICES ASSUME Inv, WireInv PROVE ResultsMatch
    OBVIOUS
  <2>1. WireIsTracked
    <3> SUFFICES ASSUME wire # NoFrame
                 PROVE  \E b \in Buses :
                            /\ bus[b].alive /\ bus[b].busy /\ bus[b].active = wire.dev
                            /\ pending[wire.dev] # <<>> /\ Head(pending[wire.dev]) = wire
      BY DEF WireIsTracked
    <3>1. PICK b \in Buses : bus[b].busy
      BY DEF WireInv
    <3>2. Tracked(b) /\ bus[b].alive
      BY <3>1, BusyBus DEF WireInv
    <3>3. PICK d \in Devices : d = bus[b].active /\ phase[d] = "in"
      BY <3>1, BusyBus
    <3>4. pending[d] # <<>> /\ wire = Head(pending[d])
      BY <3>2, <3>3 DEF Tracked
    <3>5. wire.dev = d
      BY <3>3, <3>4, OldestIsOwn
    <3> QED
      BY <3>1, <3>2, <3>3, <3>4, <3>5
  <2>2. OwnResult
    <3> SUFFICES ASSUME NEW b \in Buses, thread[b] = "callback"
                 PROVE  /\ bus[b].active \in {d \in Devices : phase[d] = "in"}
                        /\ MMFR = [frame |-> bus[b].frame, done |-> TRUE]
      BY DEF OwnResult
    <3>1. bus[b].active \in On(b)
      BY CallbackRecord
    <3> QED
      BY <3>1 DEF On, WireInv
  <2> QED
    BY <2>1, <2>2 DEF ResultsMatch
<1>2. Spec => [](Inv /\ WireInv)
  BY WireHolds
<1> QED
  BY <1>1, <1>2, PTL

-----------------------------------------------------------------------------
(* The clock divider and the hold time *)

\* Seven cycles of its controller's clock, what HOLDTIME can hold, are enough for
\* every device.
ShortHolds ==
    \A c \in Configs, d \in Devices : 7 * CycleNs(c[d]) >= c[d].minHold

ConfigType == [addr : Nat, clk : Nat \ {0}, maxClk : Nat, minHold : Nat]

LEMMA CycleTyped ==
    ASSUME NEW cfg \in ConfigType PROVE CycleNs(cfg) \in Nat /\ cfg.minHold \in Nat
<1>1. cfg.clk \in Nat \ {0} /\ cfg.minHold \in Nat
  BY DEF ConfigType
<1> QED
  BY <1>1 DEF CycleNs

LEMMA DividerFound ==
    ASSUME NEW cfg, FastestDivs(cfg) # {}
    PROVE  MII_Div(cfg) \in FastestDivs(cfg)
<1>1. FastestDivs(cfg) \subseteq Nat
  BY DEF FastestDivs
<1>2. \E x \in FastestDivs(cfg) : \A y \in FastestDivs(cfg) : x <= y
  BY <1>1, LeastNat
<1> QED
  BY <1>2 DEF MII_Div

\* The loop that looks for the hold time stops at the first number of cycles that is enough.
LEMMA HoldFound ==
    ASSUME NEW cfg \in ConfigType, 7 * CycleNs(cfg) >= cfg.minHold
    PROVE  MII_Hold(cfg) \in 1..7 /\ MII_Hold(cfg) * CycleNs(cfg) >= cfg.minHold
<1> DEFINE Enough == {n \in 1..7 : n * CycleNs(cfg) >= cfg.minHold}
<1>1. CycleNs(cfg) \in Nat /\ cfg.minHold \in Nat
  BY CycleTyped
<1>2. Enough \subseteq Nat /\ 7 \in Enough
  BY <1>1
<1>3. PICK n \in Enough : \A m \in Enough : n <= m
  <2> HIDE DEF Enough
  <2> QED
    BY <1>2, LeastNat
<1>4. \A m \in 1..n - 1 : m * CycleNs(cfg) < cfg.minHold
  <2> SUFFICES ASSUME NEW m \in 1..n - 1, m * CycleNs(cfg) >= cfg.minHold PROVE FALSE
    BY <1>1
  <2>1. m \in Enough
    BY <1>3
  <2> QED
    BY <1>3, <2>1
<1> DEFINE C == CycleNs(cfg)
           H == cfg.minHold
           IsHold(k) == (k = 9 \/ k * C >= H) /\ \A m \in 1..k - 1 : m * C < H
<1>5. IsHold(n) /\ n \in 1..9
  BY <1>3, <1>4
<1>6. MII_Hold(cfg) = CHOOSE k \in 1..9 : IsHold(k)
  BY DEF MII_Hold
<1> HIDE DEF IsHold
<1>7. MII_Hold(cfg) \in 1..9 /\ IsHold(MII_Hold(cfg))
  BY <1>5, <1>6
<1> USE DEF IsHold
<1>8. MII_Hold(cfg) <= n
  <2> SUFFICES ASSUME MII_Hold(cfg) > n PROVE FALSE
    BY <1>3, <1>7
  <2>1. n \in 1..MII_Hold(cfg) - 1
    BY <1>3, <1>7
  <2>2. n * C < H /\ n * C >= H
    BY <1>3, <1>7, <2>1
  <2> QED
    BY <1>1, <1>3, <2>2
<1> QED
  BY <1>3, <1>7, <1>8

\* The configuration is read once, and only a device whose clock and hold time are
\* in range gets beyond MDIODev_InitDevice.
LEMMA RangeMoved ==
    ASSUME TypeOK, RangeInv, Config' = Config, NEW d \in Devices, NEW p, Goto(d, p),
           p \in {"create", "link", "add", "in"} => InRange(Config[d])
    PROVE  RangeInv'
<1> SUFFICES ASSUME NEW e \in Devices, phase'[e] \in {"create", "link", "add", "in"}
             PROVE  InRange(Config'[e])
  BY DEF RangeInv
<1>1. phase'[e] = IF e = d THEN p ELSE phase[e]
  BY DEF Goto, TypeOK
<1>2. CASE e = d
  BY <1>1, <1>2
<1>3. CASE e # d
  BY <1>1, <1>3 DEF RangeInv
<1> QED
  BY <1>2, <1>3

LEMMA RangeKept ==
    ASSUME RangeInv, Config' = Config, phase' = phase PROVE RangeInv'
  BY DEF RangeInv

LEMMA RangeOfAdapter ==
    ASSUME TypeOK, RangeInv, NEW d \in Devices, Adapter(d)
    PROVE  RangeInv'
<1>1. Config' = Config
  BY DEF Adapter, MDIODev_InitDevice, CreateBus, LinkBus, MDIOBus_AddDevice, NotInitialized,
         MDIOBus_RemoveDevice, MDIOBus_Close, FreeBus, hwVars
<1>2. CASE MDIODev_InitDevice(d)
  <2>1. \E p : Goto(d, p) /\ (p \in {"create", "link", "add", "in"} => InRange(Config[d]))
    BY <1>2 DEF MDIODev_InitDevice
  <2> QED
    BY <1>1, <2>1, RangeMoved
<1>3. CASE CreateBus(d)
  <2>1. InRange(Config[d])
    BY <1>3 DEF CreateBus, RangeInv
  <2>2. \E p : Goto(d, p)
    BY <1>3 DEF CreateBus
  <2> QED
    BY <1>1, <2>1, <2>2, RangeMoved
<1>4. CASE LinkBus(d)
  <2>1. InRange(Config[d]) /\ Goto(d, "add")
    BY <1>4 DEF LinkBus, RangeInv
  <2> QED
    BY <1>1, <2>1, RangeMoved
<1>5. CASE MDIOBus_AddDevice(d)
  <2>1. InRange(Config[d])
    BY <1>5 DEF MDIOBus_AddDevice, RangeInv
  <2>2. \E p : Goto(d, p)
    BY <1>5 DEF MDIOBus_AddDevice
  <2> QED
    BY <1>1, <2>1, <2>2, RangeMoved
<1>6. CASE NotInitialized(d) \/ MDIOBus_RemoveDevice(d) \/ MDIOBus_Close(d) \/ FreeBus(d)
  <2>1. \E p \in {"out", "close", "stopping"} : Goto(d, p)
    BY <1>6 DEF NotInitialized, MDIOBus_RemoveDevice, MDIOBus_Close, FreeBus
  <2> QED
    BY <1>1, <2>1, RangeMoved
<1> QED
  BY <1>2, <1>3, <1>4, <1>5, <1>6 DEF Adapter

LEMMA RangeStep ==
    ASSUME TypeOK, RangeInv, [Next]_vars PROVE RangeInv'
<1>1. ASSUME NEW d \in Devices, QueuePrefix(d) \/ QueueLast(d) PROVE RangeInv'
  BY <1>1, RangeKept DEF QueuePrefix, QueueLast, lifeVars
<1>2. ASSUME NEW b \in Buses, MDIOBus_Main(b) PROVE RangeInv'
  BY <1>2, RangeKept
     DEF MDIOBus_Main, NothingDone, TransferDone, Callback, Scan, Arm, Killed, lifeVars
<1>3. ASSUME NEW b \in Buses, TimerExpires(b) PROVE RangeInv'
  BY <1>3, RangeKept DEF TimerExpires, lifeVars
<1>4. CASE FrameSent
  BY <1>4, RangeKept DEF FrameSent, lifeVars
<1>5. CASE UNCHANGED vars
  BY <1>5, RangeKept DEF vars, lifeVars
<1> QED
  BY <1>1, <1>2, <1>3, <1>4, <1>5, RangeOfAdapter DEF Next

\* As long as no device is removed with its frame on the wire, and HOLDTIME can hold
\* what the devices ask for, every frame is clocked and held as its own PHY demands,
\* whichever PHY of the bus was served before it.
THEOREM TimingIsMet == Assumed /\ ~RemoveActive /\ ShortHolds => (Spec => []TimingMet)
<1> SUFFICES ASSUME Assumed, ~RemoveActive, ShortHolds PROVE Spec => []TimingMet
  OBVIOUS
<1>1. Init => RangeInv
  BY DEF Init, RangeInv
<1>2. TypeOK /\ RangeInv /\ [Next]_vars => RangeInv'
  BY RangeStep
<1>3. Inv /\ WireInv /\ RangeInv => TimingMet
  <2> SUFFICES ASSUME Inv, WireInv, RangeInv, wire # NoFrame
               PROVE  /\ MSCR = wire.dev
                      /\ MdcKHz(Config[MSCR], MII_Div(Config[MSCR])) <= Config[MSCR].maxClk
                      /\ (HOLDTIME(Config[MSCR]) + 1) * CycleNs(Config[MSCR])
                            >= Config[MSCR].minHold
    BY DEF TimingMet
  <2>1. PICK b \in Buses : bus[b].busy
    BY DEF WireInv
  <2>2. PICK d \in Devices : d = bus[b].active /\ phase[d] = "in"
    BY <2>1, BusyBus
  <2>3. pending[d] # <<>> /\ wire = Head(pending[d]) /\ MSCR = d
    BY <2>1, <2>2 DEF WireInv, Tracked
  <2>4. wire.dev = d
    BY <2>2, <2>3, OldestIsOwn
  <2> DEFINE cfg == Config[d]
  <2>5. cfg \in ConfigType /\ InRange(cfg) /\ 7 * CycleNs(cfg) >= cfg.minHold
    <3>1. Config \in Configs /\ Config \in [Devices -> ConfigType]
      BY MdioAssumption DEF Inv, TypeOK, ConfigType
    <3> QED
      BY <2>2, <3>1 DEF RangeInv, ShortHolds
  <2> HIDE DEF cfg
  <2>6. MdcKHz(cfg, MII_Div(cfg)) <= cfg.maxClk
    <3>1. MII_Div(cfg) \in FastestDivs(cfg)
      BY <2>5, DividerFound DEF InRange
    <3> QED
      BY <3>1 DEF FastestDivs
  <2>7. (HOLDTIME(cfg) + 1) * CycleNs(cfg) >= cfg.minHold
    <3>1. MII_Hold(cfg) \in 1..7 /\ MII_Hold(cfg) * CycleNs(cfg) >= cfg.minHold
      BY <2>5, HoldFound
    <3>2. HOLDTIME(cfg) = MII_Hold(cfg)
      BY <3>1 DEF HOLDTIME
    <3>3. CycleNs(cfg) \in Nat /\ cfg.minHold \in Nat
      BY <2>5, CycleTyped
    <3>4. \A h, c, m \in Nat : h * c >= m => (h + 1) * c >= m
      OBVIOUS
    <3> QED
      BY <3>1, <3>2, <3>3, <3>4
  <2> QED
    BY <2>3, <2>4, <2>6, <2>7 DEF cfg
<1>4. Spec => [](Inv /\ WireInv)
  BY WireHolds
<1>5. Inv => TypeOK
  BY DEF Inv
<1> QED
  BY <1>1, <1>2, <1>3, <1>4, <1>5, PTL DEF Spec

-----------------------------------------------------------------------------
(* Every step is one of MdioDevice's, or a stutter *)

\* Device d sees nothing of the step.
Unseen(d) ==
    /\ SeenAttached'[d] = SeenAttached[d] /\ SeenQueue'[d] = SeenQueue[d]
    /\ SeenPending'[d] = SeenPending[d] /\ SeenResult'[d] = SeenResult[d]

LEMMA OneChanged ==
    ASSUME NEW S, NEW d \in S, NEW f, NEW g, NEW v,
           f = [x \in S |-> f[x]], g = [x \in S |-> g[x]],
           g[d] = v, \A x \in S \ {d} : g[x] = f[x]
    PROVE  g = [f EXCEPT ![d] = v]
<1> DEFINE h == [f EXCEPT ![d] = v]
<1>1. DOMAIN f = S /\ DOMAIN g = S
  OBVIOUS
<1>2. h = [x \in S |-> IF x = d THEN v ELSE f[x]]
  BY <1>1
<1>3. \A x \in S : g[x] = IF x = d THEN v ELSE f[x]
  OBVIOUS
<1>4. g = [x \in S |-> IF x = d THEN v ELSE f[x]]
  BY <1>3
<1> QED
  BY <1>2, <1>4

SeenFuns ==
    /\ SeenAttached = [d \in Devices |-> SeenAttached[d]]
    /\ SeenQueue = [d \in Devices |-> SeenQueue[d]]
    /\ SeenPending = [d \in Devices |-> SeenPending[d]]
    /\ SeenResult = [d \in Devices |-> SeenResult[d]]

LEMMA SeenAreFunctions == SeenFuns /\ SeenFuns'
<1>1. SeenFuns
  BY DEF SeenFuns, SeenAttached, SeenQueue, SeenPending, SeenResult
<1>2. SeenFuns'
  BY DEF SeenFuns, SeenAttached, SeenQueue, SeenPending, SeenResult
<1> QED
  BY <1>1, <1>2

LEMMA NothingSeen ==
    ASSUME \A d \in Devices : Unseen(d) PROVE UNCHANGED Promise!vars
<1>1. /\ SeenAttached' = SeenAttached /\ SeenQueue' = SeenQueue
      /\ SeenPending' = SeenPending /\ SeenResult' = SeenResult
  BY SeenAreFunctions DEF SeenFuns, Unseen
<1> QED
  BY <1>1 DEF Promise!vars

\* What the functions say of one device.
LEMMA SeenOf ==
    ASSUME NEW d \in Devices
    PROVE  /\ SeenAttached[d] = Attached(d)
           /\ SeenQueue[d] = IF Attached(d) THEN Undone(d) ELSE <<>>
           /\ SeenPending[d] = (Attached(d) /\ CmdPending[d])
           /\ SeenResult[d] = IF Attached(d) THEN result[d] ELSE NoFrame
           /\ SeenAttached'[d] = Attached(d)'
           /\ SeenQueue'[d] = IF Attached(d)' THEN Undone(d)' ELSE <<>>
           /\ SeenPending'[d] = (Attached(d)' /\ CmdPending'[d])
           /\ SeenResult'[d] = IF Attached(d)' THEN result'[d] ELSE NoFrame
  BY Zenon DEF SeenAttached, SeenQueue, SeenPending, SeenResult

LEMMA UnseenOf ==
    ASSUME NEW d \in Devices, phase'[d] = "in" <=> phase[d] = "in",
           phase[d] = "in" => /\ Undone(d)' = Undone(d)
                              /\ CmdPending'[d] = CmdPending[d] /\ result'[d] = result[d]
    PROVE  Unseen(d)
<1>1. Attached(d)' = Attached(d)
  BY Zenon DEF Attached
<1>2. CASE phase[d] = "in"
  BY <1>1, <1>2, SeenOf, Zenon DEF Unseen
<1>3. CASE phase[d] # "in"
  <2>1. ~Attached(d) /\ ~Attached(d)'
    BY <1>3 DEF Attached
  <2> QED
    BY <1>1, <2>1, SeenOf, Zenon DEF Unseen
<1> QED
  BY <1>2, <1>3

LEMMA UndoneKept ==
    ASSUME CallbacksKept, NEW d \in Devices, pending'[d] = pending[d]
    PROVE  Undone(d)' = Undone(d)
<1>1. InCallback(d)' = InCallback(d)
  BY DEF CallbacksKept, InCallback
<1>2. CASE InCallback(d) = {}
  BY <1>1, <1>2 DEF Undone
<1>3. CASE InCallback(d) # {}
  <2>1. PICK b : b = CHOOSE c \in InCallback(d) : TRUE
    OBVIOUS
  <2>2. b \in InCallback(d) /\ b = CHOOSE c \in InCallback(d)' : TRUE
    BY <1>1, <1>3, <2>1
  <2>3. bus'[b].frame = bus[b].frame
    BY <2>2 DEF CallbacksKept, InCallback
  <2>4. Undone(d) = <<bus[b].frame>> \o pending[d]
    BY <1>3, <2>1 DEF Undone
  <2>5. Undone(d)' = <<bus'[b].frame>> \o pending'[d]
    BY <1>1, <1>3, <2>2 DEF Undone
  <2> QED
    BY <2>3, <2>4, <2>5
<1> QED
  BY <1>2, <1>3

\* A step that leaves the callbacks, and a device's lists if it is attached.
LEMMA UnseenIfKept ==
    ASSUME CallbacksKept, NEW d \in Devices, phase'[d] = "in" <=> phase[d] = "in",
           phase[d] = "in" => ListsKept(d)
    PROVE  Unseen(d)
  BY UndoneKept, UnseenOf DEF ListsKept

\* The frame whose callbacks run is the device's oldest one.
LEMMA UndoneOf ==
    ASSUME LifeInv, NEW b \in Buses, thread[b] = "callback", NEW d, bus[b].active = d
    PROVE  Undone(d) = <<bus[b].frame>> \o pending[d]
<1>1. InCallback(d) = {b}
  <2>1. \A c \in Buses : thread[c] = "callback" => c = b
    BY OneThread
  <2> QED
    BY <2>1 DEF InCallback
<1>2. b = CHOOSE c \in InCallback(d) : TRUE
  BY <1>1
<1>3. InCallback(d) # {}
  BY <1>1
<1> QED
  BY <1>2, <1>3, Zenon DEF Undone

LEMMA NoneUndone ==
    ASSUME NEW d, \A b \in Buses : thread[b] = "callback" => bus[b].active # d
    PROVE  Undone(d) = pending[d]
<1>1. InCallback(d) = {}
  BY DEF InCallback
<1> QED
  BY <1>1, Zenon DEF Undone

\* Before a device is attached, and after.
LEMMA OutsideSeen ==
    ASSUME NEW d \in Devices
    PROVE  /\ ~Attached(d) => ~SeenAttached[d]
           /\ ~Attached(d)' => /\ SeenAttached'[d] = FALSE /\ SeenQueue'[d] = <<>>
                               /\ SeenPending'[d] = FALSE /\ SeenResult'[d] = NoFrame
           /\ Attached(d) => SeenAttached[d]
           /\ Attached(d)' => SeenAttached'[d] = TRUE
<1>1. (Attached(d) => SeenAttached[d]) /\ (~Attached(d) => ~SeenAttached[d])
  BY Zenon DEF SeenAttached
<1>2. Attached(d)' => SeenAttached'[d] = TRUE
  BY DEF SeenAttached, Attached
<1>3. ~Attached(d)' => SeenAttached'[d] = FALSE
  BY DEF SeenAttached, Attached
<1>4. ~Attached(d)' => SeenQueue'[d] = <<>> /\ SeenResult'[d] = NoFrame
  BY DEF SeenQueue, SeenResult
<1>5. ~Attached(d)' => SeenPending'[d] = FALSE
  BY DEF SeenPending
<1> QED
  BY <1>1, <1>2, <1>3, <1>4, <1>5, Zenon

LEMMA ClearedSeen ==
    ASSUME NEW d \in Devices, \A e \in Devices \ {d} : Unseen(e),
           SeenQueue'[d] = <<>>, SeenPending'[d] = FALSE, SeenResult'[d] = NoFrame
    PROVE  Promise!Cleared(d)
<1> USE SeenAreFunctions DEF SeenFuns, Unseen
<1>1. SeenQueue' = [SeenQueue EXCEPT ![d] = <<>>]
  BY OneChanged
<1>2. SeenPending' = [SeenPending EXCEPT ![d] = FALSE]
  BY OneChanged
<1>3. SeenResult' = [SeenResult EXCEPT ![d] = NoFrame]
  BY OneChanged
<1> QED
  BY <1>1, <1>2, <1>3 DEF Promise!Cleared

LEMMA AttachedSeen ==
    ASSUME NEW d \in Devices, \A e \in Devices \ {d} : Unseen(e), NEW v, SeenAttached'[d] = v
    PROVE  SeenAttached' = [SeenAttached EXCEPT ![d] = v]
  BY OneChanged, SeenAreFunctions DEF SeenFuns, Unseen

LEMMA SeenOfInitDevice ==
    ASSUME Inv, NEW d \in Devices, MDIODev_InitDevice(d) PROVE UNCHANGED Promise!vars
<1>0. TypeOK
  BY DEF Inv
<1>1. CallbacksKept
  BY CmdOfInitDevice
<1>2. phase[d] # "in" /\ phase'[d] # "in" /\ \A e \in Devices \ {d} : phase'[e] = phase[e]
  BY <1>0, PhaseMoved, PhaseNames DEF MDIODev_InitDevice, TypeOK
<1>3. \A e \in Devices \ {d} : ListsKept(e)
  BY <1>0 DEF MDIODev_InitDevice, ListsKept, TypeOK
<1>4. ASSUME NEW e \in Devices PROVE Unseen(e)
  BY <1>1, <1>2, <1>3, UnseenIfKept
<1> QED
  BY <1>4, NothingSeen

LEMMA SeenOfAddDevice ==
    ASSUME Inv, NEW d \in Devices, MDIOBus_AddDevice(d)
    PROVE  UNCHANGED Promise!vars \/ Promise!Attach(d)
<1>0. TypeOK /\ CmdInv /\ LifeInv
  BY DEF Inv
<1>1. CallbacksKept /\ UNCHANGED <<thread, devVars>>
  BY CmdOfAddDevice DEF MDIOBus_AddDevice
<1>2. PICK b \in Buses : b = pBus[d] /\ bus[b].alive /\ phase[d] = "add"
  BY <1>0 DEF MDIOBus_AddDevice, LifeInv, PhaseInv
<1>3. thread[b] # "callback"
  BY <1>2 DEF MDIOBus_AddDevice, Unlocked
<1>4. \A c \in Buses : thread'[c] # "callback"
  BY <1>0, <1>1, <1>2, <1>3, NoCallback
<1>5. \A e \in Devices : ListsKept(e)
  BY <1>1 DEF devVars, ListsKept
<1>6. phase'[d] \in {"close", "in"} /\ \A e \in Devices \ {d} : phase'[e] = phase[e]
  BY <1>0, PhaseMoved, PhaseNames DEF MDIOBus_AddDevice, TypeOK
<1>7. \A e \in Devices \ {d} : Unseen(e)
  BY <1>1, <1>5, <1>6, UnseenIfKept
<1>8. CASE phase'[d] = "close"
  <2>1. Unseen(d)
    BY <1>1, <1>2, <1>5, <1>8, UnseenIfKept
  <2> QED
    BY <1>7, <2>1, NothingSeen
<1>9. CASE phase'[d] = "in"
  <2>1. NewDevice(d)
    BY <1>0, <1>2 DEF CmdInv, CmdOf
  <2>2. Attached(d)' /\ ~Attached(d)
    BY <1>2, <1>9 DEF Attached
  <2>3. pending'[d] = <<>> /\ ~CmdPending'[d] /\ result'[d] = NoFrame
    BY <1>5, <2>1, Zenon DEF NewDevice, ListsKept
  <2>4. Undone(d)' = <<>>
    BY <1>4, <2>3 DEF Undone, InCallback
  <2>5. SeenQueue'[d] = <<>> /\ SeenResult'[d] = NoFrame
    BY <2>2, <2>3, <2>4 DEF SeenQueue, SeenResult
  <2>6. SeenPending'[d] = FALSE
    BY <2>3 DEF SeenPending
  <2>7. Promise!Cleared(d)
    BY <1>7, <2>5, <2>6, ClearedSeen
  <2>8. SeenAttached' = [SeenAttached EXCEPT ![d] = TRUE]
    BY <1>7, <2>2, OutsideSeen, AttachedSeen
  <2>9. ~SeenAttached[d]
    BY <2>2, OutsideSeen
  <2> QED
    BY <2>7, <2>8, <2>9, Zenon DEF Promise!Attach
<1> QED
  BY <1>6, <1>8, <1>9

LEMMA SeenOfRemoveDevice ==
    ASSUME Inv, NEW d \in Devices, MDIOBus_RemoveDevice(d) PROVE Promise!Detach(d)
<1>0. TypeOK /\ LifeInv
  BY DEF Inv
<1>1. CallbacksKept /\ UNCHANGED devVars
  BY CmdOfAdapter DEF MDIOBus_RemoveDevice
<1>2. phase[d] = "in"
  BY <1>0 DEF MDIOBus_RemoveDevice, LifeInv, PhaseInv
<1>3. phase'[d] = "close" /\ \A e \in Devices \ {d} : phase'[e] = phase[e]
  BY <1>0, PhaseMoved, PhaseNames DEF MDIOBus_RemoveDevice, TypeOK
<1>4. \A e \in Devices : ListsKept(e)
  BY <1>1 DEF devVars, ListsKept
<1>5. \A e \in Devices \ {d} : Unseen(e)
  BY <1>1, <1>3, <1>4, UnseenIfKept
<1>6. Attached(d) /\ ~Attached(d)'
  BY <1>2, <1>3 DEF Attached
<1>7. Promise!Cleared(d)
  BY <1>5, <1>6, OutsideSeen, ClearedSeen
<1>8. SeenAttached' = [SeenAttached EXCEPT ![d] = FALSE] /\ SeenAttached[d]
  BY <1>5, <1>6, OutsideSeen, AttachedSeen
<1> QED
  BY <1>7, <1>8, Zenon DEF Promise!Detach

\* The rest of an adapter's initialization and halt is out of the engine's sight.
LEMMA SeenOfOthers ==
    ASSUME Inv, NEW d \in Devices,
           \/ CreateBus(d) \/ LinkBus(d) \/ NotInitialized(d)
           \/ MDIOBus_Close(d) \/ FreeBus(d)
    PROVE  UNCHANGED Promise!vars
<1>0. TypeOK
  BY DEF Inv
<1>1. CallbacksKept
  BY CmdOfAdapter
<1>2. UNCHANGED devVars
  BY DEF CreateBus, LinkBus, NotInitialized, MDIOBus_Close, FreeBus
<1>3. PICK p \in Phases \ {"in"} : Goto(d, p)
  BY PhaseNames DEF CreateBus, LinkBus, NotInitialized, MDIOBus_Close, FreeBus
<1>4. phase[d] # "in" /\ phase'[d] # "in" /\ \A e \in Devices \ {d} : phase'[e] = phase[e]
  BY <1>0, <1>3, PhaseMoved
     DEF TypeOK, CreateBus, LinkBus, NotInitialized, MDIOBus_Close, FreeBus
<1>5. \A e \in Devices : ListsKept(e)
  BY <1>2 DEF devVars, ListsKept
<1>6. ASSUME NEW e \in Devices PROVE Unseen(e)
  BY <1>1, <1>4, <1>5, UnseenIfKept
<1> QED
  BY <1>6, NothingSeen

LEMMA SeenOfAdapter ==
    ASSUME Inv, NEW d \in Devices, Adapter(d)
    PROVE  UNCHANGED Promise!vars \/ Promise!Next
<1>1. CASE MDIOBus_AddDevice(d)
  BY <1>1, SeenOfAddDevice, Zenon DEF Promise!Next
<1>2. CASE MDIOBus_RemoveDevice(d)
  BY <1>2, SeenOfRemoveDevice, Zenon DEF Promise!Next
<1> QED
  BY <1>1, <1>2, SeenOfInitDevice, SeenOfOthers, Zenon DEF Adapter

LEMMA HeadAndTail ==
    ASSUME NEW S, NEW p \in Seq(S), p # <<>> PROVE <<Head(p)>> \o Tail(p) = p
<1> DEFINE q == <<Head(p)>> \o Tail(p)
           n == Len(p)
<1>1. n \in Nat /\ n # 0 /\ DOMAIN p = 1..n /\ p = [i \in 1..n |-> p[i]]
  BY LenProperties, EmptySeq
<1>2. /\ Head(p) \in S /\ Tail(p) \in Seq(S) /\ Len(Tail(p)) = n - 1 /\ Head(p) = p[1]
      /\ \A i \in 1..Len(Tail(p)) : Tail(p)[i] = p[i + 1]
  BY HeadTailProperties
<1>3. <<Head(p)>> \in Seq(S) /\ Len(<<Head(p)>>) = 1 /\ <<Head(p)>>[1] = Head(p)
  BY <1>2
<1>4. /\ q \in Seq(S) /\ Len(q) = 1 + (n - 1)
      /\ \A i \in 1..1 + (n - 1) : q[i] = IF i <= 1 THEN <<Head(p)>>[i] ELSE Tail(p)[i - 1]
  BY <1>2, <1>3, ConcatProperties
<1> HIDE DEF q, n
<1>5. ASSUME NEW i \in 1..n PROVE q[i] = p[i]
  <2>1. CASE i = 1
    <3>1. 1 \in 1..1 + (n - 1) /\ 1 <= 1
      BY <1>1
    <3>2. q[1] = <<Head(p)>>[1]
      BY <1>4, <3>1
    <3> QED
      BY <1>2, <1>3, <2>1, <3>2
  <2>2. CASE i # 1
    <3>1. i - 1 \in 1..Len(Tail(p)) /\ (i - 1) + 1 = i /\ ~(i <= 1) /\ i \in 1..1 + (n - 1)
      BY <1>1, <1>2, <2>2
    <3> QED
      BY <1>2, <1>4, <3>1
  <2> QED
    BY <2>1, <2>2
<1>6. Len(q) = Len(p) /\ q \in Seq(S)
  BY <1>1, <1>4 DEF n
<1> QED
  BY <1>5, <1>6, SeqEqual DEF q, n

\* A command is queued behind what is not done yet.
LEMMA SeenOfQueue ==
    ASSUME Inv, NEW d \in Devices, QueuePrefix(d) \/ QueueLast(d) PROVE Promise!Next
<1>0. TypeOK
  BY DEF Inv
<1>1. CallbacksKept /\ QueuesCommand(d)
  BY CmdOfQueuePrefix, CmdOfQueueLast
<1>2. phase[d] = "in" /\ UNCHANGED <<phase, result>>
  BY EngineAttached DEF QueuePrefix, QueueLast, EngineRuns, lifeVars
<1>3. PICK frames \in PrefixCommands(d) \cup Commands(d) :
          /\ pending' = [pending EXCEPT ![d] = pending[d] \o frames]
          /\ CmdPending' = [CmdPending EXCEPT ![d] = TRUE]
  BY <1>1 DEF QueuesCommand, Queued
<1>4. /\ pending'[d] = pending[d] \o frames /\ CmdPending'[d]
      /\ \A e \in Devices \ {d} : pending'[e] = pending[e] /\ CmdPending'[e] = CmdPending[e]
  BY <1>0, <1>3 DEF TypeOK
<1>5. ASSUME NEW e \in Devices \ {d} PROVE Unseen(e)
  BY <1>1, <1>2, <1>4, UndoneKept, UnseenOf
<1>6. Undone(d)' = Undone(d) \o frames
  <2>1. InCallback(d)' = InCallback(d)
    BY <1>1 DEF CallbacksKept, InCallback
  <2>2. CASE InCallback(d) = {}
    BY <1>4, <2>1, <2>2 DEF Undone
  <2>3. CASE InCallback(d) # {}
    <3>1. PICK b : b = CHOOSE c \in InCallback(d) : TRUE
      OBVIOUS
    <3>2. b \in InCallback(d) /\ b = CHOOSE c \in InCallback(d)' : TRUE
      BY <2>1, <2>3, <3>1
    <3>3. bus'[b].frame = bus[b].frame /\ bus[b].frame \in FrameType
      BY <1>0, <1>1, <3>2, RecordTyped DEF CallbacksKept, InCallback, TypeOK
    <3>4. Undone(d) = <<bus[b].frame>> \o pending[d]
      BY <2>3, <3>1 DEF Undone
    <3>5. Undone(d)' = <<bus[b].frame>> \o (pending[d] \o frames)
      BY <1>4, <2>1, <2>3, <3>2, <3>3 DEF Undone
    <3>6. pending[d] \in Seq(FrameType) /\ frames \in Seq(FrameType)
      BY <1>0, CommandFrames DEF TypeOK, IsCommand
    <3>7. <<bus[b].frame>> \in Seq(FrameType)
      BY <3>3
    <3>8. <<bus[b].frame>> \o (pending[d] \o frames) = (<<bus[b].frame>> \o pending[d]) \o frames
      <4> DEFINE one == <<bus[b].frame>>
      <4> HIDE DEF one
      <4>1. one \in Seq(FrameType)
        BY <3>7 DEF one
      <4>2. \A s, t, u \in Seq(FrameType) : (s \o t) \o u = s \o (t \o u)
        BY ConcatAssociative
      <4>3. (one \o pending[d]) \o frames = one \o (pending[d] \o frames)
        BY <3>6, <4>1, <4>2, Zenon
      <4> QED
        BY <4>3 DEF one
    <3> QED
      BY <3>4, <3>5, <3>8
  <2> QED
    BY <2>2, <2>3
<1>7. Attached(d) /\ Attached(d)'
  BY <1>2 DEF Attached
<1>8. SeenQueue' = [SeenQueue EXCEPT ![d] = SeenQueue[d] \o frames]
  <2>1. SeenQueue'[d] = SeenQueue[d] \o frames
    BY <1>6, <1>7 DEF SeenQueue
  <2> QED
    BY <1>5, <2>1, OneChanged, SeenAreFunctions DEF SeenFuns, Unseen
<1>9. SeenPending' = [SeenPending EXCEPT ![d] = TRUE]
  <2>1. SeenPending'[d] = TRUE
    BY <1>4, <1>7 DEF SeenPending
  <2> QED
    BY <1>5, <2>1, OneChanged, SeenAreFunctions DEF SeenFuns, Unseen
<1>10. UNCHANGED <<SeenAttached, SeenResult>>
  BY <1>2 DEF SeenAttached, SeenResult, Attached
<1>11. SeenAttached[d]
  BY <1>7, OutsideSeen
<1>12. Promise!Queue(d, frames)
  BY <1>8, <1>9, <1>10, <1>11 DEF Promise!Queue
<1>13. frames \in [e \in Devices |-> PrefixCommands(e) \cup Commands(e)][d]
  BY <1>3
<1> QED
  BY <1>12, <1>13, Zenon DEF Promise!Next

\* Taken from the pending list, the frame is still the oldest one that is not done.
LEMMA SeenOfTransferDone ==
    ASSUME Inv, WireInv, NEW b \in Buses, TransferDone(b) PROVE UNCHANGED Promise!vars
<1>0. TypeOK /\ LifeInv /\ bus[b] \in BusType
  BY DEF Inv, TypeOK
<1> DEFINE rec == Woken(bus[b])
<1>1. rec \in BusType /\ rec.active = bus[b].active
  BY <1>0, WokenTyped
<1>2. thread[b] = "wait" /\ thread' = [thread EXCEPT ![b] = "callback"] /\ EIR_MII
  BY DEF TransferDone, Awake
<1>3. bus[b].busy /\ Tracked(b)
  BY <1>2, FlagIsOwn
<1>4. PICK d \in Devices : d = bus[b].active
  BY <1>3, BusyBus
<1>5. pending[d] # <<>>
  BY <1>3, <1>4 DEF Tracked
<1>6. /\ bus' = [bus EXCEPT ![b] = [rec EXCEPT !.busy = FALSE, !.frame = Head(pending[d])]]
      /\ pending' = [pending EXCEPT ![d] = Tail(pending[d])]
      /\ UNCHANGED <<phase, CmdPending, result>>
  BY <1>1, <1>4, <1>5 DEF TransferDone, lifeVars
<1> HIDE DEF rec
<1> DEFINE new == [rec EXCEPT !.busy = FALSE, !.frame = Head(pending[d])]
<1>7. new.frame = Head(pending[d]) /\ new.active = d
  BY <1>1, <1>4 DEF BusType
<1> HIDE DEF new
<1>8. bus'[b] = new /\ thread'[b] = "callback"
  BY <1>0, <1>2, <1>6 DEF TypeOK, new
<1>9. \A c \in Buses : thread[c] # "callback" /\ (thread'[c] = "callback" <=> c = b)
  <2>1. \A c \in Buses : thread[c] # "callback"
    BY <1>0, <1>2, OneThread
  <2> QED
    BY <1>0, <1>2, <2>1 DEF TypeOK
<1>10. \A e \in Devices : Undone(e) = pending[e]
  BY <1>9, NoneUndone
<1>11. Undone(d)' = <<Head(pending[d])>> \o Tail(pending[d])
  <2>1. InCallback(d)' = {b}
    BY <1>7, <1>8, <1>9 DEF InCallback
  <2>2. b = (CHOOSE c \in InCallback(d)' : TRUE) /\ InCallback(d)' # {}
    BY <2>1
  <2>3. pending'[d] = Tail(pending[d]) /\ bus'[b].frame = Head(pending[d])
    BY <1>0, <1>6, <1>7, <1>8 DEF TypeOK
  <2>4. Undone(d)' = <<bus'[b].frame>> \o pending'[d]
    BY <2>2, Zenon DEF Undone
  <2> QED
    BY <2>3, <2>4
<1>12. <<Head(pending[d])>> \o Tail(pending[d]) = pending[d]
  BY <1>0, <1>5, HeadAndTail DEF TypeOK
<1>13. ASSUME NEW e \in Devices \ {d} PROVE Undone(e)' = Undone(e)
  <2>1. InCallback(e)' = {}
    BY <1>7, <1>8, <1>9 DEF InCallback
  <2>2. Undone(e)' = pending'[e]
    BY <2>1, Zenon DEF Undone
  <2> QED
    BY <1>0, <1>6, <1>10, <2>2 DEF TypeOK
<1>14. ASSUME NEW e \in Devices PROVE Unseen(e)
  <2>1. Undone(e)' = Undone(e)
    BY <1>10, <1>11, <1>12, <1>13
  <2> QED
    BY <1>6, <2>1, UnseenOf
<1> QED
  BY <1>14, NothingSeen

LEMMA SeenOfPasses ==
    ASSUME CallbacksKept, UNCHANGED <<phase, devVars>> PROVE UNCHANGED Promise!vars
<1>1. ASSUME NEW e \in Devices PROVE Unseen(e)
  BY UnseenIfKept DEF devVars, ListsKept
<1> QED
  BY <1>1, NothingSeen

LEMMA PutInFront ==
    ASSUME NEW S, NEW x \in S, NEW p \in Seq(S)
    PROVE  /\ <<x>> \o p # <<>> /\ Head(<<x>> \o p) = x /\ Tail(<<x>> \o p) = p
<1> DEFINE q == <<x>> \o p
           n == Len(p)
<1>1. n \in Nat
  BY LenProperties
<1>2. <<x>> \in Seq(S) /\ Len(<<x>>) = 1 /\ <<x>>[1] = x
  OBVIOUS
<1>3. /\ q \in Seq(S) /\ Len(q) = 1 + n
      /\ \A i \in 1..1 + n : q[i] = IF i <= 1 THEN <<x>>[i] ELSE p[i - 1]
  BY <1>2, ConcatProperties
<1> HIDE DEF q, n
<1>4. q # <<>>
  <2>1. Len(q) # 0
    BY <1>1, <1>3
  <2> QED
    BY <2>1
<1>5. /\ Tail(q) \in Seq(S) /\ Len(Tail(q)) = Len(q) - 1 /\ Head(q) = q[1]
      /\ \A i \in 1..Len(Tail(q)) : Tail(q)[i] = q[i + 1]
  BY <1>3, <1>4, HeadTailProperties
<1>6. Head(q) = x
  <2>1. 1 \in 1..1 + n /\ 1 <= 1
    BY <1>1
  <2> QED
    BY <1>2, <1>3, <1>5, <2>1
<1>7. Len(Tail(q)) = n
  BY <1>1, <1>3, <1>5
<1>8. ASSUME NEW i \in 1..n PROVE Tail(q)[i] = p[i]
  <2>1. i + 1 \in 1..1 + n /\ ~(i + 1 <= 1) /\ (i + 1) - 1 = i
    BY <1>1
  <2> QED
    BY <1>3, <1>5, <1>7, <2>1
<1>9. Tail(q) = p
  BY <1>5, <1>7, <1>8, SeqEqual DEF n
<1> QED
  BY <1>4, <1>6, <1>9 DEF q

\* The callbacks end the device's oldest frame, with that frame's result.
LEMMA SeenOfCallback ==
    ASSUME Inv, WireInv, NEW b \in Buses, Callback(b) PROVE Promise!Next
<1>0. TypeOK /\ LifeInv
  BY DEF Inv
<1> DEFINE rec == bus[b]
           new == [rec EXCEPT !.active = Candidate(rec), !.frame = NoFrame]
<1>1. thread[b] = "callback" /\ GoOn(b, new) /\ UNCHANGED <<phase, pending>>
  BY DEF Callback, lifeVars
<1>2. rec \in BusType /\ new \in BusType /\ rec.active \in On(b)
  BY <1>1, CallbackRecord
<1> HIDE DEF new
<1>3. PICK d \in Devices : d = rec.active /\ phase[d] = "in"
  BY <1>2 DEF On
<1>4. \A c \in Buses : (thread[c] = "callback" <=> c = b) /\ thread'[c] # "callback"
  <2>1. \A c \in Buses : thread[c] = "callback" <=> c = b
    BY <1>0, <1>1, OneThread
  <2> QED
    BY <1>0, <1>1, <1>2, <2>1, WentOn
<1>5. ASSUME NEW e \in Devices PROVE Undone(e)' = pending[e]
  <2>1. InCallback(e)' = {}
    BY <1>4 DEF InCallback
  <2>2. Undone(e)' = pending'[e]
    BY <2>1, Zenon DEF Undone
  <2> QED
    BY <1>1, <2>2
<1>6. \A e \in Devices \ {d} : Undone(e) = pending[e]
  BY <1>3, <1>4, NoneUndone
<1> DEFINE f == rec.frame
<1>7. Undone(d) = <<f>> \o pending[d] /\ f \in FrameType
  BY <1>0, <1>1, <1>2, <1>3, UndoneOf, RecordTyped
<1>8. MMFR.frame = f /\ MMFR.done
  BY <1>1 DEF WireInv
<1>9. /\ result' = [result EXCEPT ![d] = f]
      /\ CmdPending' = [CmdPending EXCEPT ![d] = CmdPending[d] /\ ~f.last]
  BY <1>3, <1>8 DEF Callback
<1> HIDE DEF f, rec
<1>10. /\ result'[d] = f /\ CmdPending'[d] = (CmdPending[d] /\ ~f.last)
       /\ \A e \in Devices \ {d} : result'[e] = result[e] /\ CmdPending'[e] = CmdPending[e]
  BY <1>0, <1>9 DEF TypeOK
<1>11. ASSUME NEW e \in Devices \ {d} PROVE Unseen(e)
  BY <1>1, <1>5, <1>6, <1>10, UnseenOf
<1>12. Attached(d) /\ Attached(d)'
  BY <1>1, <1>3 DEF Attached
<1>13. SeenQueue[d] = <<f>> \o pending[d] /\ SeenQueue'[d] = pending[d]
  BY <1>5, <1>7, <1>12 DEF SeenQueue
<1>14. /\ SeenQueue[d] # <<>> /\ Head(SeenQueue[d]) = f /\ Tail(SeenQueue[d]) = pending[d]
  <2>1. pending[d] \in Seq(FrameType)
    BY <1>0 DEF TypeOK
  <2> QED
    BY <1>7, <1>13, <2>1, PutInFront
<1>15. SeenQueue' = [SeenQueue EXCEPT ![d] = Tail(SeenQueue[d])]
  BY <1>11, <1>13, <1>14, OneChanged, SeenAreFunctions DEF SeenFuns, Unseen
<1>16. SeenResult' = [SeenResult EXCEPT ![d] = Head(SeenQueue[d])]
  <2>1. SeenResult'[d] = f
    BY <1>10, <1>12 DEF SeenResult
  <2> QED
    BY <1>11, <1>14, <2>1, OneChanged, SeenAreFunctions DEF SeenFuns, Unseen
<1>17. SeenPending' = [SeenPending EXCEPT ![d] = SeenPending[d] /\ ~Head(SeenQueue[d]).last]
  <2>1. SeenPending'[d] = (SeenPending[d] /\ ~f.last)
    BY <1>10, <1>12 DEF SeenPending
  <2> QED
    BY <1>11, <1>14, <2>1, OneChanged, SeenAreFunctions DEF SeenFuns, Unseen
<1>18. UNCHANGED SeenAttached /\ SeenAttached[d]
  BY <1>1, <1>12, OutsideSeen DEF SeenAttached, Attached
<1>19. Promise!FrameDone(d)
  BY <1>14, <1>15, <1>16, <1>17, <1>18 DEF Promise!FrameDone
<1> QED
  BY <1>19, Zenon DEF Promise!Next

LEMMA SeenStep ==
    ASSUME Inv, WireInv, [Next]_vars PROVE [Promise!Next]_(Promise!vars)
<1>1. ASSUME NEW d \in Devices, Adapter(d) \/ QueuePrefix(d) \/ QueueLast(d)
      PROVE  Promise!Next \/ UNCHANGED Promise!vars
  BY <1>1, SeenOfAdapter, SeenOfQueue, Zenon
<1>2. ASSUME NEW b \in Buses, MDIOBus_Main(b) \/ TimerExpires(b)
      PROVE  Promise!Next \/ UNCHANGED Promise!vars
  <2>1. CASE TransferDone(b)
    BY <2>1, SeenOfTransferDone, Zenon
  <2>2. CASE Callback(b)
    BY <2>2, SeenOfCallback, Zenon
  <2>3. CASE Passes(b)
    BY <2>3, PassesKeepCallbacks, SeenOfPasses, Zenon
  <2> QED
    BY <1>2, <2>1, <2>2, <2>3, Zenon DEF MDIOBus_Main, Passes
<1>3. CASE FrameSent \/ UNCHANGED vars
  <2>1. CallbacksKept /\ UNCHANGED <<phase, devVars>>
    BY <1>3 DEF FrameSent, vars, busVars, lifeVars, CallbacksKept
  <2> QED
    BY <2>1, SeenOfPasses, Zenon
<1> QED
  BY <1>1, <1>2, <1>3, Zenon DEF Next

\* However many devices share the bus, its thread and its one MMFR, each PHY engine
\* sees a bus of its own: its frames done in the order it queued them, each with its
\* own result, the command pending until its last frame is done, nothing after the
\* device is removed. This is the safety part of ImplementsDevice.
THEOREM DevicesImplemented == Assumed /\ ~RemoveActive => (Spec => Promise!Safety)
<1> SUFFICES ASSUME Assumed, ~RemoveActive PROVE Spec => Promise!Safety
  OBVIOUS
<1>1. Init => Promise!Init
  <2> SUFFICES ASSUME Init PROVE Promise!Init
    OBVIOUS
  <2>1. \A d \in Devices : ~Attached(d)
    BY DEF Init, Attached
  <2> QED
    BY <2>1 DEF Promise!Init, SeenAttached, SeenQueue, SeenPending, SeenResult, Attached
<1>2. Inv /\ WireInv /\ [Next]_vars => [Promise!Next]_(Promise!vars)
  BY SeenStep
<1>3. Spec => [](Inv /\ WireInv)
  BY WireHolds
<1> QED
  BY <1>1, <1>2, <1>3, PTL DEF Spec, Promise!Safety
==============================================================================
