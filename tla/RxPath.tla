------------------------------- MODULE RxPath -------------------------------
(***************************************************************************)
(* The receive path of imxnetmini (mp_data_path.c, EnetDpc in mp_hw.c): the *)
(* ring of receive descriptors, the frame buffers that circulate between   *)
(* the DMA, the DPC and NDIS, and the stops and starts of the MAC. A        *)
(* stretch of code under Rx_SpinLock is one step.                          *)
(*                                                                         *)
(* A frame is its index in Rx_FrameBDT.                                    *)
(***************************************************************************)
EXTENDS Integers, Sequences, FiniteSets, SequencesExt, FiniteSetsExt

CONSTANTS
    Ring,           \* Rx_DmaBDT_ItemCount
    LowWater,       \* Rx_DmaBDT_DmaOwnedBDsLowWatterMark
    MaxNbls,        \* MaxNblsToIndicate of one DPC
    WaitForNdis,    \* EnetStart only once NDIS owns no frame (a pause does so)
    MaxReceived,    \* bound: frames received
    MaxStops,       \* bound: stops of the MAC
    NULL

ASSUME RingAssumption ==
    /\ Ring \in Nat \ {0} /\ LowWater \in 0..Ring - 1 /\ MaxNbls \in Nat \ {0}
    /\ WaitForNdis \in BOOLEAN /\ MaxReceived \in Nat /\ MaxStops \in Nat
    /\ NULL \notin Int

VARIABLES
    EnetStarted,                      \* set and cleared together with NdisStatus
    SwExt,                            \* Rx_DmaBDT_SwExt[].pRxFrameBD
    buffer,                           \* Rx_DmaBDT[].BufferAddress
    E, bad,                           \* Rx_DmaBDT[].ControlStatus: empty, error bits
    Rx_EnetFreeBDIdx, Rx_EnetPendingBDIdx,
    Rx_DmaBDT_DmaOwnedBDsCount, Rx_NdisOwnedBDsCount,
    dpc, errors, async, sync,         \* EnetDpc and the lists of MpHandleRecvInterrupt
    MoreNblsPending, InterruptFlags,
    held,                             \* frames NDIS has been given and will return
    mac, rxf, eimr,                   \* the MAC's next descriptor, EIR.RXF, EIMR
    number, received, indicated,      \* history: arrival numbers, as received and as indicated
    stops

ringVars == <<SwExt, buffer, E, bad, Rx_EnetFreeBDIdx, Rx_EnetPendingBDIdx>>
countVars == <<Rx_DmaBDT_DmaOwnedBDsCount, Rx_NdisOwnedBDsCount>>
listVars == <<errors, async, sync, MoreNblsPending>>
histVars == <<number, received, indicated>>
vars == <<EnetStarted, ringVars, countVars, dpc, listVars, InterruptFlags, held, mac, rxf, eimr,
          histVars, stops>>

Slots == 0..Ring - 1

Init ==
    /\ EnetStarted = TRUE
    /\ SwExt = [i \in Slots |-> i] /\ buffer = [i \in Slots |-> i]
    /\ E = [i \in Slots |-> TRUE] /\ bad = [i \in Slots |-> FALSE]
    /\ Rx_EnetFreeBDIdx = 0 /\ Rx_EnetPendingBDIdx = 0
    /\ Rx_DmaBDT_DmaOwnedBDsCount = Ring /\ Rx_NdisOwnedBDsCount = 0
    /\ dpc = "idle" /\ errors = <<>> /\ async = <<>> /\ sync = <<>>
    /\ MoreNblsPending = FALSE /\ InterruptFlags = FALSE
    /\ held = {}
    /\ mac = 0 /\ rxf = FALSE /\ eimr = TRUE
    /\ number = [f \in Slots |-> 0] /\ received = 0 /\ indicated = <<>>
    /\ stops = 0

-----------------------------------------------------------------------------
(* The MAC *)

MacReceives ==
    /\ EnetStarted /\ E[mac] /\ received < MaxReceived
    /\ E' = [E EXCEPT ![mac] = FALSE]
    /\ \E err \in BOOLEAN : bad' = [bad EXCEPT ![mac] = err]
    /\ received' = received + 1
    /\ number' = [number EXCEPT ![buffer[mac]] = received']
    /\ mac' = (mac + 1) % Ring
    /\ rxf' = TRUE
    /\ UNCHANGED <<EnetStarted, SwExt, buffer, Rx_EnetFreeBDIdx, Rx_EnetPendingBDIdx, countVars,
                   dpc, listVars, InterruptFlags, held, eimr, indicated, stops>>

-----------------------------------------------------------------------------
(* Frames come back: from NDIS, or from the DPC itself. *)

\* The counts change whether the MAC runs or not, the ring only when it does.
\* The write of RDAR that ends the refill has no counterpart: the MAC of
\* MacReceives goes on by itself once its next descriptor is empty.
MpReturnNetBufferLists(frames) ==
    LET k(i) == (i - Rx_EnetFreeBDIdx) % Ring
        back == [i \in Slots |-> EnetStarted /\ k(i) < Len(frames)]
    IN  /\ Rx_DmaBDT_DmaOwnedBDsCount' = Rx_DmaBDT_DmaOwnedBDsCount + Len(frames)
        /\ Rx_NdisOwnedBDsCount' = Rx_NdisOwnedBDsCount - Len(frames)
        /\ SwExt' = [i \in Slots |-> IF back[i] THEN frames[k(i) + 1] ELSE SwExt[i]]
        /\ buffer' = [i \in Slots |-> IF back[i] THEN frames[k(i) + 1] ELSE buffer[i]]
        /\ E' = [i \in Slots |-> back[i] \/ E[i]]
        /\ bad' = [i \in Slots |-> ~back[i] /\ bad[i]]
        /\ Rx_EnetFreeBDIdx' = IF EnetStarted THEN (Rx_EnetFreeBDIdx + Len(frames)) % Ring
                               ELSE Rx_EnetFreeBDIdx
        /\ UNCHANGED Rx_EnetPendingBDIdx

\* NDIS returns a chain of the frames it holds.
NdisReturns ==
    \E frames \in SUBSET held \ {{}} :
        /\ held' = held \ frames
        /\ MpReturnNetBufferLists(SetToSeq(frames))
        /\ UNCHANGED <<EnetStarted, dpc, listVars, InterruptFlags, mac, rxf, eimr, histVars, stops>>

-----------------------------------------------------------------------------
(* The DPC *)

\* One DPC at a time: those that overlap on two processors are the subject of
\* EnetInterrupt.
EnetIsr ==
    /\ rxf /\ eimr /\ dpc = "idle"
    /\ eimr' = FALSE
    /\ dpc' = "queued"
    /\ UNCHANGED <<EnetStarted, ringVars, countVars, listVars, InterruptFlags, held, mac, rxf,
                   histVars, stops>>

\* New events, and those saved by a DPC that left frames behind.
EnetDpcReadEvents ==
    /\ dpc = "queued"
    /\ dpc' = IF rxf \/ InterruptFlags THEN "receive" ELSE "end"
    /\ rxf' = FALSE /\ InterruptFlags' = FALSE
    /\ MoreNblsPending' = FALSE
    /\ UNCHANGED <<EnetStarted, ringVars, countVars, errors, async, sync, held, mac, eimr,
                   histVars, stops>>

\* The k-th descriptor the loop looks at, and how many good frames precede it.
SlotAt(k) == (Rx_EnetPendingBDIdx + k) % Ring
Good(k) == Cardinality({j \in 0..k - 1 : ~bad[SlotAt(j)]})

Readable(k) == ~E[SlotAt(k)] /\ Rx_DmaBDT_DmaOwnedBDsCount # k

Taken == Max({n \in 0..Ring : \A k \in 0..n - 1 : Readable(k) /\ Good(k) < MaxNbls})

\* The frames taken at some of the steps 0..Taken-1, in the order of the ring.
FramesTaken(steps) ==
    [j \in 1..Cardinality(steps) |->
        SwExt[SlotAt(CHOOSE k \in steps : Cardinality({m \in steps : m <= k}) = j)]]

\* Mutants of IsAsync: the low-water mark is off by one; the test is inverted.
AsyncAtLowWater(k) == Rx_DmaBDT_DmaOwnedBDsCount - (k + 1) >= LowWater
AsyncWhenLow(k) == Rx_DmaBDT_DmaOwnedBDsCount - (k + 1) <= LowWater

\* Whether the frame taken k-th is lent to NDIS or only shown to it.
IsAsync(k) == Rx_DmaBDT_DmaOwnedBDsCount - (k + 1) > LowWater

\* Frames are taken in the order of the ring and sorted into three lists, the
\* one of bad frames in reverse.
MpHandleRecvInterrupt ==
    LET n == Taken
        good == {k \in 0..n - 1 : ~bad[SlotAt(k)]}
        lent == {k \in good : IsAsync(k)}
    IN  /\ dpc = "receive" /\ EnetStarted
        /\ errors' = Reverse(FramesTaken((0..n - 1) \ good))
        /\ async' = FramesTaken(lent)
        /\ sync' = FramesTaken(good \ lent)
        /\ MoreNblsPending' = (n < Ring /\ Readable(n) /\ Good(n) >= MaxNbls)
        /\ SwExt' = [i \in Slots |-> IF (i - Rx_EnetPendingBDIdx) % Ring < n THEN NULL ELSE SwExt[i]]
        /\ Rx_EnetPendingBDIdx' = (Rx_EnetPendingBDIdx + n) % Ring
        /\ Rx_DmaBDT_DmaOwnedBDsCount' = Rx_DmaBDT_DmaOwnedBDsCount - n
        /\ Rx_NdisOwnedBDsCount' = Rx_NdisOwnedBDsCount + n
        /\ dpc' = "errors"
        /\ UNCHANGED <<EnetStarted, buffer, E, bad, Rx_EnetFreeBDIdx, InterruptFlags, held,
                       mac, rxf, eimr, histVars, stops>>

RecvWhenStopped ==
    /\ dpc = "receive" /\ ~EnetStarted
    /\ dpc' = "end"
    /\ UNCHANGED <<EnetStarted, ringVars, countVars, listVars, InterruptFlags, held, mac, rxf, eimr,
                   histVars, stops>>

DpcReturnsErrors ==
    /\ dpc = "errors" /\ dpc' = "async"
    /\ errors' = <<>>
    /\ MpReturnNetBufferLists(errors)
    /\ UNCHANGED <<EnetStarted, async, sync, MoreNblsPending, InterruptFlags, held, mac, rxf, eimr,
                   histVars, stops>>

IndicateAsync ==
    /\ dpc = "async" /\ dpc' = "sync"
    /\ held' = held \cup ToSet(async)
    /\ indicated' = indicated \o [j \in DOMAIN async |-> number[async[j]]]
    /\ async' = <<>>
    /\ UNCHANGED <<EnetStarted, ringVars, countVars, errors, sync, MoreNblsPending, InterruptFlags,
                   mac, rxf, eimr, number, received, stops>>

\* NDIS_RECEIVE_FLAGS_RESOURCES: the driver keeps the frames ...
IndicateSync ==
    /\ dpc = "sync" /\ dpc' = "return"
    /\ indicated' = indicated \o [j \in DOMAIN sync |-> number[sync[j]]]
    /\ UNCHANGED <<EnetStarted, ringVars, countVars, listVars, InterruptFlags, held,
                   mac, rxf, eimr, number, received, stops>>

\* ... and takes them back itself.
DpcReturnsSync ==
    /\ dpc = "return" /\ dpc' = "end"
    /\ sync' = <<>>
    /\ MpReturnNetBufferLists(sync)
    /\ UNCHANGED <<EnetStarted, errors, async, MoreNblsPending, InterruptFlags, held, mac, rxf, eimr,
                   histVars, stops>>

\* Mutant of EnetDpcEnd: the events are not saved for the next call.
DpcEndForgetsEvents ==
    /\ dpc = "end"
    /\ dpc' = IF MoreNblsPending THEN "queued" ELSE "idle"
    /\ eimr' = (eimr \/ ~MoreNblsPending)
    /\ UNCHANGED <<EnetStarted, ringVars, countVars, listVars, InterruptFlags, held, mac, rxf,
                   histVars, stops>>

\* With frames left, NDIS calls the DPC again; otherwise interrupts are enabled,
\* whether the MAC runs or not.
EnetDpcEnd ==
    /\ dpc = "end"
    /\ IF MoreNblsPending
       THEN dpc' = "queued" /\ InterruptFlags' = TRUE /\ UNCHANGED eimr
       ELSE dpc' = "idle" /\ eimr' = TRUE /\ UNCHANGED InterruptFlags
    /\ UNCHANGED <<EnetStarted, ringVars, countVars, listVars, held, mac, rxf, histVars, stops>>

EnetDpc == \/ EnetDpcReadEvents \/ MpHandleRecvInterrupt \/ RecvWhenStopped
           \/ DpcReturnsErrors \/ IndicateAsync \/ IndicateSync \/ DpcReturnsSync
           \/ EnetDpcEnd

-----------------------------------------------------------------------------
(* The state machine *)

EnetStop ==
    /\ EnetStarted /\ stops < MaxStops
    /\ EnetStarted' = FALSE
    /\ rxf' = FALSE /\ eimr' = FALSE
    /\ stops' = stops + 1
    /\ UNCHANGED <<ringVars, countVars, dpc, listVars, InterruptFlags, held, mac, histVars>>

IsRxFramePandingInNdis == Rx_NdisOwnedBDsCount # 0

\* Mutant of MpRxInit: the index where returned frames go is kept.
RxInitKeepsFreeIdx ==
    /\ SwExt' = [i \in Slots |-> i] /\ buffer' = [i \in Slots |-> i]
    /\ E' = [i \in Slots |-> TRUE] /\ bad' = [i \in Slots |-> FALSE]
    /\ Rx_EnetPendingBDIdx' = 0
    /\ Rx_DmaBDT_DmaOwnedBDsCount' = Ring /\ Rx_NdisOwnedBDsCount' = 0
    /\ UNCHANGED Rx_EnetFreeBDIdx

\* Every frame is given to the DMA again, whoever has it.
MpRxInit ==
    /\ SwExt' = [i \in Slots |-> i] /\ buffer' = [i \in Slots |-> i]
    /\ E' = [i \in Slots |-> TRUE] /\ bad' = [i \in Slots |-> FALSE]
    /\ Rx_EnetFreeBDIdx' = 0 /\ Rx_EnetPendingBDIdx' = 0
    /\ Rx_DmaBDT_DmaOwnedBDsCount' = Ring /\ Rx_NdisOwnedBDsCount' = 0

EnetStart ==
    /\ ~EnetStarted /\ (WaitForNdis => ~IsRxFramePandingInNdis)
    /\ MpRxInit
    /\ EnetStarted' = TRUE
    /\ InterruptFlags' = FALSE
    /\ mac' = 0 /\ rxf' = FALSE /\ eimr' = TRUE
    /\ UNCHANGED <<dpc, listVars, held, histVars, stops>>

Next == MacReceives \/ NdisReturns \/ EnetIsr \/ EnetDpc \/ EnetStop \/ EnetStart

Spec == Init /\ [][Next]_vars

\* Interrupts and DPCs run, NDIS returns what it holds, the MAC is started again.
Fairness ==
    WF_vars(NdisReturns) /\ WF_vars(EnetIsr) /\ WF_vars(EnetDpc) /\ WF_vars(EnetStart)
FairSpec == Spec /\ Fairness

-----------------------------------------------------------------------------
(* Properties *)

\* Every variable is of its type and every index and counter in its range.
TypeOK ==
    /\ EnetStarted \in BOOLEAN
    /\ SwExt \in [Slots -> Slots \cup {NULL}] /\ buffer \in [Slots -> Slots]
    /\ E \in [Slots -> BOOLEAN] /\ bad \in [Slots -> BOOLEAN]
    /\ Rx_EnetFreeBDIdx \in Slots /\ Rx_EnetPendingBDIdx \in Slots
    /\ Rx_DmaBDT_DmaOwnedBDsCount \in 0..Ring /\ Rx_NdisOwnedBDsCount \in 0..Ring
    /\ dpc \in {"idle", "queued", "receive", "errors", "async", "sync", "return", "end"}
    /\ errors \in Seq(Slots) /\ async \in Seq(Slots) /\ sync \in Seq(Slots)
    /\ MoreNblsPending \in BOOLEAN /\ InterruptFlags \in BOOLEAN
    /\ held \subseteq Slots
    /\ mac \in Slots /\ rxf \in BOOLEAN /\ eimr \in BOOLEAN
    /\ number \in [Slots -> 0..MaxReceived] /\ received \in 0..MaxReceived
    /\ indicated \in Seq(1..MaxReceived) /\ stops \in 0..MaxStops

\* The descriptors with a frame are the Rx_DmaBDT_DmaOwnedBDsCount ones that
\* start at Rx_EnetPendingBDIdx and end before Rx_EnetFreeBDIdx: the assertions
\* of MpHandleRecvInterrupt (a frame where one is taken) and of
\* MpReturnNetBufferLists (none where one is put). Only they are ever empty for
\* the MAC, and their frame is the buffer the MAC fills.
RingIsWindow ==
    EnetStarted =>
        /\ Rx_EnetFreeBDIdx = (Rx_EnetPendingBDIdx + Rx_DmaBDT_DmaOwnedBDsCount) % Ring
        /\ \A i \in Slots :
              IF (i - Rx_EnetPendingBDIdx) % Ring < Rx_DmaBDT_DmaOwnedBDsCount
              THEN SwExt[i] # NULL /\ buffer[i] = SwExt[i]
              ELSE SwExt[i] = NULL /\ ~E[i]

InDpc == ToSet(errors) \cup ToSet(async) \cup ToSet(sync)

\* Every frame is in one place, and Rx_NdisOwnedBDsCount counts those that are
\* neither in the ring nor lost to a stop.
FramesConserved ==
    /\ held \cap InDpc = {}
    /\ Rx_NdisOwnedBDsCount = Cardinality(held) + Len(errors) + Len(async) + Len(sync)
    /\ EnetStarted =>
          /\ Rx_DmaBDT_DmaOwnedBDsCount + Rx_NdisOwnedBDsCount = Ring
          /\ {SwExt[i] : i \in Slots} \ {NULL} = Slots \ (held \cup InDpc)

\* The indices and counts of the ring, the frames in it and the frames outside
\* it agree, through throttled DPCs, returns in any order and restarts.
RxAccounted == TypeOK /\ RingIsWindow /\ FramesConserved

\* NDIS gets the frames in the order in which the MAC received them.
InOrder == \A i, j \in DOMAIN indicated : i < j => indicated[i] < indicated[j]

\* However slowly NDIS returns frames, it never has so many that fewer than
\* LowWater + 1 are left to the MAC and the DPC.
NeverStarved == Cardinality(held) + Len(async) < Ring - LowWater

\* No received frame is left in the ring for good: the DPC gets to it, unless
\* the MAC is stopped.
AllServed ==
    []<>(~EnetStarted \/ \A i \in Slots : SwExt[i] # NULL => E[i])

=============================================================================
