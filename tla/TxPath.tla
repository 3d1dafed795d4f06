------------------------------- MODULE TxPath -------------------------------
(***************************************************************************)
(* The transmit path of imxnetmini (mp_data_path.c): concurrent calls of    *)
(* MpSendNetBufferLists, the DPC (EnetDpc and MpHandleTxInterrupt), the     *)
(* cancellations and the stops and starts of the MAC by the state machine. *)
(* A stretch of code under Tx_SpinLock, or around one interlocked          *)
(* operation outside it, is one step.                                      *)
(*                                                                         *)
(* A frame (NET_BUFFER) and the MP_TX_BD allocated for it share one name;  *)
(* freed counts how often that MP_TX_BD went back to the lookaside list.   *)
(***************************************************************************)
EXTENDS Integers, Sequences, FiniteSets, SequencesExt, FiniteSetsExt, Functions

CONSTANTS
    Frames, Nbls,   \* NET_BUFFERs and NET_BUFFER_LISTs
    NBsOf,          \* the frames of an NBL, a non-empty sequence
    Calls,          \* calls of MpSendNetBufferLists
    Chain,          \* the NBLs a call is given, a non-empty sequence
    Ring,           \* Tx_DmaBDT_ItemCount
    MayFail,        \* whether allocations may fail
    Stops,          \* how the state machine touches the MAC: a subset of StopKinds
    MaxStops,       \* bound: how often it does
    Cancelled,      \* NBLs that match the CancelId of MpCancelSendNetBufferLists
    NULL

\* "drained": a pause, which NDIS asks for when the protocols got all their sends
\* back; "reset": the same handler with sends in flight; "unplug": the link is lost;
\* "again": EnetStart of a MAC that runs (the second one after a reset).
StopKinds == {"drained", "reset", "unplug", "again"}

ASSUME ShapeAssumption ==
    /\ NBsOf \in [Nbls -> Seq(Frames) \ {<<>>}]
    /\ Chain \in [Calls -> Seq(Nbls) \ {<<>>}]
    /\ Ring \in Nat \ {0} /\ MaxStops \in Nat
    /\ MayFail \in BOOLEAN /\ Stops \subseteq StopKinds /\ Cancelled \subseteq Nbls
    /\ NULL \notin Frames
ASSUME OwnerAssumption ==
    \A f \in Frames : \E l \in Nbls : f \in Range(NBsOf[l])

VARIABLES
    NdisStatus,
    Tx_qMpOwnedBDs, Tx_qDmaOwnedBDs,         \* oldest first
    pMpBD,                                   \* Tx_EnetSwExtBDT[].pMpBD
    R,                                       \* the ready bits of Tx_DmaBDT
    Tx_EnetFreeBDIdx, Tx_EnetPendingBDIdx, Tx_EnetFreeBDCount,
    Tx_PendingNBs,
    NB_Counter,                              \* MP_NBL_NB_Counter
    freed, completed,                        \* history: of each frame, each NBL
    send,                                    \* the calls of MpSendNetBufferLists
    dpc, dpcList,                            \* EnetDpc and its completedNetBufferList
    sm, smList,                              \* the state machine and CanceledNetBufferList
    idList,                                  \* CanceledNBList of MpCancelSendNetBufferLists
    mac, txf, eimr,                          \* the MAC's next descriptor, EIR.TXF, EIMR
    stops

queueVars == <<Tx_qMpOwnedBDs, Tx_qDmaOwnedBDs>>
ringVars  == <<pMpBD, R, Tx_EnetFreeBDIdx, Tx_EnetPendingBDIdx, Tx_EnetFreeBDCount>>
countVars == <<Tx_PendingNBs, NB_Counter, freed, completed>>
dpcVars   == <<dpc, dpcList>>
smVars    == <<sm, smList, NdisStatus, stops>>
hwVars    == <<mac, txf, eimr>>
vars == <<queueVars, ringVars, countVars, send, dpcVars, smVars, idList, hwVars>>

Slots == 0..Ring - 1
NblOf(f) == CHOOSE l \in Nbls : f \in Range(NBsOf[l])

Init ==
    /\ NdisStatus = "SUCCESS"
    /\ Tx_qMpOwnedBDs = <<>> /\ Tx_qDmaOwnedBDs = <<>>
    /\ pMpBD = [i \in Slots |-> NULL] /\ R = [i \in Slots |-> FALSE]
    /\ Tx_EnetFreeBDIdx = 0 /\ Tx_EnetPendingBDIdx = 0 /\ Tx_EnetFreeBDCount = Ring
    /\ Tx_PendingNBs = 0 /\ NB_Counter = [l \in Nbls |-> 0]
    /\ freed = [f \in Frames |-> 0] /\ completed = [l \in Nbls |-> 0]
    /\ send = [c \in Calls |-> [pc |-> "idle", nbl |-> 1, nb |-> 1, bd |-> FALSE, queued |-> FALSE]]
    /\ dpc = "idle" /\ dpcList = <<>>
    /\ sm = "up" /\ smList = <<>>
    /\ idList = <<>>
    /\ mac = 0 /\ txf = FALSE /\ eimr = TRUE
    /\ stops = 0

-----------------------------------------------------------------------------
(* Unwinding and sending. *)

\* Mutant of MpTxUnwindNetBuffer: an NBL is completed with its first frame.
UnwindCompletesEarly(f) ==
    LET l == NblOf(f) IN
    /\ freed' = [freed EXCEPT ![f] = @ + 1]
    /\ NB_Counter' = [NB_Counter EXCEPT ![l] = @ - 1]
    /\ completed' = [completed EXCEPT ![l] = @ + 1]
    /\ Tx_PendingNBs' = Tx_PendingNBs - 1

\* Mutant of MpTxUnwindNetBuffer: the frame stays counted as pending.
UnwindForgetsPending(f) ==
    LET l == NblOf(f) IN
    /\ freed' = [freed EXCEPT ![f] = @ + 1]
    /\ NB_Counter' = [NB_Counter EXCEPT ![l] = @ - 1]
    /\ completed' = [completed EXCEPT ![l] = @ + (IF NB_Counter[l] = 1 THEN 1 ELSE 0)]
    /\ UNCHANGED Tx_PendingNBs

\* The code decrements the two counts one after the other. What reads
\* Tx_PendingNBs in between (AllGivenBack, the ASSERT of PAUSING) sees one frame
\* too many, as it would before the step.
MpTxUnwindNetBuffer(f) ==
    LET l == NblOf(f) IN
    /\ freed' = [freed EXCEPT ![f] = @ + 1]
    /\ NB_Counter' = [NB_Counter EXCEPT ![l] = @ - 1]
    /\ completed' = [completed EXCEPT ![l] = @ + (IF NB_Counter[l] = 1 THEN 1 ELSE 0)]
    /\ Tx_PendingNBs' = Tx_PendingNBs - 1

\* MpTxFillEnetTxBD for as many frames as there are free descriptors.
MpSendNextNB ==
    LET n == IF NdisStatus = "SUCCESS"
             THEN Min({Len(Tx_qMpOwnedBDs), Tx_EnetFreeBDCount}) ELSE 0
        k(i) == (i - Tx_EnetFreeBDIdx) % Ring
    IN  /\ Tx_qMpOwnedBDs' = SubSeq(Tx_qMpOwnedBDs, n + 1, Len(Tx_qMpOwnedBDs))
        /\ Tx_qDmaOwnedBDs' = Tx_qDmaOwnedBDs \o SubSeq(Tx_qMpOwnedBDs, 1, n)
        /\ pMpBD' = [i \in Slots |-> IF k(i) < n THEN Tx_qMpOwnedBDs[k(i) + 1] ELSE pMpBD[i]]
        /\ R' = [i \in Slots |-> k(i) < n \/ R[i]]
        /\ Tx_EnetFreeBDIdx' = (Tx_EnetFreeBDIdx + n) % Ring
        /\ Tx_EnetFreeBDCount' = Tx_EnetFreeBDCount - n
        /\ UNCHANGED Tx_EnetPendingBDIdx

-----------------------------------------------------------------------------
(* MpSendNetBufferLists *)

CurrentNBL(c) == Chain[c][send[c].nbl]
CurrentNB(c)  == NBsOf[CurrentNBL(c)][send[c].nb]

\* The state of a call past its current NBL.
AfterNBL(c, queued) ==
    LET last == send[c].nbl = Len(Chain[c])
    IN  [pc  |-> IF ~last THEN "alloc" ELSE IF queued THEN "kick" ELSE "done",
         nbl |-> IF last THEN send[c].nbl ELSE send[c].nbl + 1,
         nb  |-> 1, bd |-> FALSE, queued |-> queued]

\* The adapter's status is read once; not ready: every NBL is given back.
SendCheckStatus(c) ==
    /\ send[c].pc = "idle"
    /\ send' = [send EXCEPT ![c].pc = IF NdisStatus = "SUCCESS" THEN "alloc" ELSE "done"]
    /\ completed' = [l \in Nbls |-> completed[l] +
                        (IF NdisStatus # "SUCCESS" /\ l \in Range(Chain[c]) THEN 1 ELSE 0)]
    /\ UNCHANGED <<queueVars, ringVars, Tx_PendingNBs, NB_Counter, freed,
                   dpcVars, smVars, idList, hwVars>>

\* The NBL counts the frame, then its MP_TX_BD is allocated.
SendAllocBD(c) ==
    /\ send[c].pc = "alloc"
    /\ NB_Counter' = [NB_Counter EXCEPT ![CurrentNBL(c)] = @ + 1]
    /\ \/ send' = [send EXCEPT ![c].pc = "queue", ![c].bd = TRUE]
       \/ MayFail /\ send' = [send EXCEPT ![c].pc = "discard", ![c].bd = FALSE]
    /\ UNCHANGED <<queueVars, ringVars, Tx_PendingNBs, freed, completed,
                   dpcVars, smVars, idList, hwVars>>

\* NdisMAllocateNetBufferSGList, which calls MpProcessSGList when it succeeds.
SendQueue(c) ==
    /\ send[c].pc = "queue"
    /\ \/ /\ Tx_qMpOwnedBDs' = Append(Tx_qMpOwnedBDs, CurrentNB(c))
          /\ send' = [send EXCEPT ![c].pc = "count"]
       \/ /\ MayFail
          /\ send' = [send EXCEPT ![c].pc = "discard"]
          /\ UNCHANGED Tx_qMpOwnedBDs
    /\ UNCHANGED <<Tx_qDmaOwnedBDs, ringVars, countVars, dpcVars, smVars, idList, hwVars>>

\* Only now, outside the lock, is the frame counted as pending.
SendCount(c) ==
    /\ send[c].pc = "count"
    /\ Tx_PendingNBs' = Tx_PendingNBs + 1
    /\ send' = [send EXCEPT ![c] =
                  IF send[c].nb < Len(NBsOf[CurrentNBL(c)])
                  THEN [send[c] EXCEPT !.nb = send[c].nb + 1, !.pc = "alloc"]
                  ELSE AfterNBL(c, TRUE)]
    /\ UNCHANGED <<queueVars, ringVars, NB_Counter, freed, completed,
                   dpcVars, smVars, idList, hwVars>>

\* Mutant of SendDiscard: the failed frame stays counted in its NBL.
DiscardKeepsCounter(c) ==
    /\ send[c].pc = "discard"
    /\ freed' = IF send[c].bd THEN [freed EXCEPT ![CurrentNB(c)] = @ + 1] ELSE freed
    /\ send' = [send EXCEPT ![c] = AfterNBL(c, send[c].queued)]
    /\ UNCHANGED <<queueVars, ringVars, Tx_PendingNBs, NB_Counter, completed,
                   dpcVars, smVars, idList, hwVars>>

\* The error path: the rest of the NBL is not sent.
SendDiscard(c) ==
    /\ send[c].pc = "discard"
    /\ freed' = IF send[c].bd THEN [freed EXCEPT ![CurrentNB(c)] = @ + 1] ELSE freed
    /\ NB_Counter' = [NB_Counter EXCEPT ![CurrentNBL(c)] = @ - 1]
    /\ completed' = [completed EXCEPT ![CurrentNBL(c)] =
                        @ + (IF NB_Counter[CurrentNBL(c)] = 1 THEN 1 ELSE 0)]
    /\ send' = [send EXCEPT ![c] = AfterNBL(c, send[c].queued)]
    /\ UNCHANGED <<queueVars, ringVars, Tx_PendingNBs, dpcVars, smVars, idList, hwVars>>

SendKick(c) ==
    /\ send[c].pc = "kick"
    /\ MpSendNextNB
    /\ send' = [send EXCEPT ![c].pc = "done"]
    /\ UNCHANGED <<countVars, dpcVars, smVars, idList, hwVars>>

MpSendNetBufferLists(c) ==
    SendCheckStatus(c) \/ SendAllocBD(c) \/ SendQueue(c) \/ SendCount(c)
    \/ SendDiscard(c) \/ SendKick(c)

-----------------------------------------------------------------------------
(* The MAC and the DPC *)

\* The MAC sends the frame of its next descriptor and raises TXF.
MacSends ==
    /\ sm = "up" /\ R[mac]
    /\ R' = [R EXCEPT ![mac] = FALSE]
    /\ mac' = (mac + 1) % Ring
    /\ txf' = TRUE
    /\ UNCHANGED <<queueVars, pMpBD, Tx_EnetFreeBDIdx, Tx_EnetPendingBDIdx, Tx_EnetFreeBDCount,
                   countVars, send, dpcVars, smVars, idList, eimr>>

EnetIsr ==
    /\ txf /\ eimr /\ dpc = "idle"
    /\ eimr' = FALSE
    /\ dpc' = "queued"
    /\ UNCHANGED <<queueVars, ringVars, countVars, send, dpcList, smVars, idList, mac, txf>>

\* The event register is read and cleared under Dev_SpinLock.
EnetDpcReadEvents ==
    /\ dpc = "queued"
    /\ dpc' = IF txf THEN "tx" ELSE "enable"
    /\ txf' = FALSE
    /\ UNCHANGED <<queueVars, ringVars, countVars, send, dpcList, smVars, idList, mac, eimr>>

\* How far the do-while of MpHandleTxInterrupt runs, from Tx_EnetPendingBDIdx
\* to Tx_EnetFreeBDIdx and all around the ring when the two are equal.
Reclaimable ==
    LET dist == IF Tx_EnetPendingBDIdx = Tx_EnetFreeBDIdx
                THEN Ring ELSE (Tx_EnetFreeBDIdx - Tx_EnetPendingBDIdx) % Ring
        done(k) == LET i == (Tx_EnetPendingBDIdx + k) % Ring IN pMpBD[i] # NULL /\ ~R[i]
    IN  Max({n \in 0..dist : \A k \in 0..n - 1 : done(k)})

\* Mutant of MpHandleTxInterrupt: the ready bit is not looked at.
ReclaimNotReady ==
    LET n == Len(Tx_qDmaOwnedBDs)
    IN  /\ dpc = "tx" /\ dpc' = "unwind"
        /\ dpcList' = Tx_qDmaOwnedBDs
        /\ pMpBD' = [i \in Slots |-> NULL]
        /\ Tx_EnetPendingBDIdx' = Tx_EnetFreeBDIdx
        /\ Tx_EnetFreeBDCount' = Tx_EnetFreeBDCount + n
        /\ Tx_qDmaOwnedBDs' = <<>>
        /\ UNCHANGED <<Tx_qMpOwnedBDs, R, Tx_EnetFreeBDIdx, countVars, send, smVars, idList, hwVars>>

MpHandleTxInterrupt ==
    LET n == Reclaimable
        k(i) == (i - Tx_EnetPendingBDIdx) % Ring
    IN  /\ dpc = "tx" /\ dpc' = "unwind"
        /\ dpcList' = [j \in 1..n |-> pMpBD[(Tx_EnetPendingBDIdx + j - 1) % Ring]]
        /\ pMpBD' = [i \in Slots |-> IF k(i) < n THEN NULL ELSE pMpBD[i]]
        /\ Tx_EnetPendingBDIdx' = (Tx_EnetPendingBDIdx + n) % Ring
        /\ Tx_EnetFreeBDCount' = Tx_EnetFreeBDCount + n
        /\ Tx_qDmaOwnedBDs' = SubSeq(Tx_qDmaOwnedBDs, n + 1, Len(Tx_qDmaOwnedBDs))
        /\ UNCHANGED <<Tx_qMpOwnedBDs, R, Tx_EnetFreeBDIdx, countVars, send, smVars, idList, hwVars>>

DpcUnwinds ==
    /\ dpc = "unwind" /\ dpcList # <<>>
    /\ MpTxUnwindNetBuffer(Head(dpcList))
    /\ dpcList' = Tail(dpcList)
    /\ UNCHANGED <<queueVars, ringVars, send, dpc, smVars, idList, hwVars>>

DpcKicks ==
    /\ dpc = "unwind" /\ dpcList = <<>>
    /\ MpSendNextNB
    /\ dpc' = "enable"
    /\ UNCHANGED <<countVars, send, dpcList, smVars, idList, hwVars>>

\* Unconditional: the DPC enables the interrupts of a stopped MAC too.
EnetDpcEnables ==
    /\ dpc = "enable" /\ dpc' = "idle"
    /\ eimr' = TRUE
    /\ UNCHANGED <<queueVars, ringVars, countVars, send, dpcList, smVars, idList, mac, txf>>

EnetDpc == EnetDpcReadEvents \/ MpHandleTxInterrupt \/ DpcUnwinds \/ DpcKicks \/ EnetDpcEnables

-----------------------------------------------------------------------------
(* The state machine and the cancellations *)

\* External: NDIS pauses the protocols, which wait for their sends, before it
\* pauses the adapter. The driver itself does not look: it cancels and polls.
AllGivenBack == /\ \A c \in Calls : send[c].pc \in {"idle", "done"}
                /\ Tx_PendingNBs = 0

EnetStop(kind, status) ==
    /\ sm = "up" /\ kind \in Stops /\ stops < MaxStops
    /\ sm' = "cancel" /\ stops' = stops + 1
    /\ NdisStatus' = status
    /\ eimr' = FALSE /\ txf' = FALSE
    /\ UNCHANGED <<queueVars, ringVars, countVars, send, dpcVars, smList, idList, mac>>

\* The queues and the frames of the ring's software half are left alone.
MpTxInit ==
    /\ Tx_EnetFreeBDCount' = Ring
    /\ Tx_EnetFreeBDIdx' = 0 /\ Tx_EnetPendingBDIdx' = 0
    /\ R' = [i \in Slots |-> FALSE]
    /\ UNCHANGED pMpBD

EnetStart ==
    /\ MpTxInit
    /\ NdisStatus' = "SUCCESS" /\ sm' = "up"
    /\ mac' = 0 /\ txf' = FALSE /\ eimr' = TRUE
    /\ UNCHANGED <<queueVars, countVars, send, dpcVars, smList, idList>>

\* PAUSING stops the MAC whatever it finds, and so does a lost link.
SmStop == \/ AllGivenBack /\ EnetStop("drained", "PAUSED")
          \/ EnetStop("reset", "PAUSED")
          \/ EnetStop("unplug", "MEDIA_DISCONNECTED")

SmStart     == sm = "down" /\ EnetStart /\ UNCHANGED stops
SmStartUp   == /\ sm = "up" /\ "again" \in Stops /\ stops < MaxStops
               /\ EnetStart /\ stops' = stops + 1

\* Mutant of MpTxCancelAll: PAUSING goes on when nothing was left to cancel.
CancelAgainWhenEmpty ==
    /\ sm = "cancel"
    /\ smList' = Tx_qDmaOwnedBDs \o Tx_qMpOwnedBDs
    /\ Tx_qDmaOwnedBDs' = <<>> /\ Tx_qMpOwnedBDs' = <<>>
    /\ sm' = IF smList' = <<>> THEN "cancel" ELSE "unwind"
    /\ UNCHANGED <<ringVars, countVars, send, dpcVars, NdisStatus, stops, idList, hwVars>>

\* Mutant of MpTxCancelAll: the frames in the ring are not cancelled.
CancelOnlyQueued ==
    /\ sm = "cancel"
    /\ smList' = Tx_qMpOwnedBDs
    /\ Tx_qMpOwnedBDs' = <<>>
    /\ sm' = IF smList' = <<>> THEN "down" ELSE "unwind"
    /\ UNCHANGED <<Tx_qDmaOwnedBDs, ringVars, countVars, send, dpcVars, NdisStatus, stops,
                   idList, hwVars>>

MpTxCancelAll ==
    /\ sm = "cancel"
    /\ smList' = Tx_qDmaOwnedBDs \o Tx_qMpOwnedBDs
    /\ Tx_qDmaOwnedBDs' = <<>> /\ Tx_qMpOwnedBDs' = <<>>
    /\ sm' = IF smList' = <<>> THEN "down" ELSE "unwind"
    /\ UNCHANGED <<ringVars, countVars, send, dpcVars, NdisStatus, stops, idList, hwVars>>

\* PAUSING cancels again until it finds nothing to cancel; an unplug does not.
SmUnwinds ==
    /\ sm = "unwind"
    /\ MpTxUnwindNetBuffer(Head(smList))
    /\ smList' = Tail(smList)
    /\ sm' = IF Len(smList) > 1 THEN sm ELSE IF NdisStatus = "PAUSED" THEN "cancel" ELSE "down"
    /\ UNCHANGED <<queueVars, ringVars, send, dpcVars, NdisStatus, stops, idList, hwVars>>

\* The positions of the queued frames that match the CancelId.
Matching == {i \in DOMAIN Tx_qMpOwnedBDs : NblOf(Tx_qMpOwnedBDs[i]) \in Cancelled}

\* The frames of a queue at the positions I, in their order.
FramesAt(q, I) ==
    [k \in 1..Cardinality(I) |-> q[CHOOSE i \in I : Cardinality({j \in I : j <= i}) = k]]

\* Mutant of MpCancelSendNetBufferLists: the frames stay queued.
CancelLeavesQueued ==
    /\ idList = <<>> /\ Cancelled # {}
    /\ idList' = FramesAt(Tx_qMpOwnedBDs, Matching)
    /\ UNCHANGED <<queueVars, ringVars, countVars, send, dpcVars, smVars, hwVars>>

MpCancelSendNetBufferLists ==
    /\ idList = <<>> /\ Cancelled # {}
    /\ idList' = FramesAt(Tx_qMpOwnedBDs, Matching)
    /\ Tx_qMpOwnedBDs' = FramesAt(Tx_qMpOwnedBDs, DOMAIN Tx_qMpOwnedBDs \ Matching)
    /\ UNCHANGED <<Tx_qDmaOwnedBDs, ringVars, countVars, send, dpcVars, smVars, hwVars>>

CancelUnwinds ==
    /\ idList # <<>>
    /\ MpTxUnwindNetBuffer(Head(idList))
    /\ idList' = Tail(idList)
    /\ UNCHANGED <<queueVars, ringVars, send, dpcVars, smVars, hwVars>>

-----------------------------------------------------------------------------
Sm == SmStop \/ SmStart \/ SmStartUp \/ MpTxCancelAll \/ SmUnwinds
Next ==
    \/ \E c \in Calls : MpSendNetBufferLists(c)
    \/ MacSends \/ EnetIsr \/ EnetDpc
    \/ Sm
    \/ MpCancelSendNetBufferLists \/ CancelUnwinds

Spec == Init /\ [][Next]_vars

\* Threads and DPCs run, the MAC sends what is ready and interrupts, and the
\* state machine finishes what it began and starts the MAC again.
Fairness ==
    /\ \A c \in Calls : WF_vars(MpSendNetBufferLists(c))
    /\ WF_vars(MacSends) /\ WF_vars(EnetIsr) /\ WF_vars(EnetDpc)
    /\ WF_vars(SmStart) /\ WF_vars(MpTxCancelAll) /\ WF_vars(SmUnwinds)
    /\ WF_vars(CancelUnwinds)
FairSpec == Spec /\ Fairness

-----------------------------------------------------------------------------
(* Properties *)

\* Every variable is of its type and every index and counter in its range.
TypeOK ==
    /\ NdisStatus \in {"SUCCESS", "PAUSED", "MEDIA_DISCONNECTED"}
    /\ Tx_qMpOwnedBDs \in Seq(Frames) /\ Tx_qDmaOwnedBDs \in Seq(Frames)
    /\ pMpBD \in [Slots -> Frames \cup {NULL}] /\ R \in [Slots -> BOOLEAN]
    /\ Tx_EnetFreeBDIdx \in Slots /\ Tx_EnetPendingBDIdx \in Slots
    /\ Tx_EnetFreeBDCount \in 0..Ring
    /\ Tx_PendingNBs \in Int /\ NB_Counter \in [Nbls -> Int]
    /\ freed \in [Frames -> Nat] /\ completed \in [Nbls -> Nat]
    /\ \A c \in Calls :
          /\ send[c].pc \in {"idle", "alloc", "queue", "count", "discard", "kick", "done"}
          /\ send[c].nbl \in 1..Len(Chain[c])
          /\ send[c].nb \in 1..Len(NBsOf[CurrentNBL(c)])
          /\ send[c].bd \in BOOLEAN /\ send[c].queued \in BOOLEAN
    /\ dpc \in {"idle", "queued", "tx", "unwind", "enable"} /\ dpcList \in Seq(Frames)
    /\ sm \in {"up", "cancel", "unwind", "down"} /\ smList \in Seq(Frames)
    /\ idList \in Seq(Frames)
    /\ mac \in Slots /\ txf \in BOOLEAN /\ eimr \in BOOLEAN
    /\ stops \in 0..MaxStops

\* While the MAC runs, the descriptors between Tx_EnetPendingBDIdx and
\* Tx_EnetFreeBDIdx carry exactly the frames of Tx_qDmaOwnedBDs, oldest first,
\* the free ones are counted by Tx_EnetFreeBDCount and no other one is ready.
RingIsQueue ==
    sm = "up" =>
        /\ Len(Tx_qDmaOwnedBDs) = Ring - Tx_EnetFreeBDCount
        /\ Tx_EnetFreeBDIdx = (Tx_EnetPendingBDIdx + Len(Tx_qDmaOwnedBDs)) % Ring
        /\ \A i \in Slots :
              LET k == (i - Tx_EnetPendingBDIdx) % Ring IN
              IF k < Len(Tx_qDmaOwnedBDs)
              THEN pMpBD[i] = Tx_qDmaOwnedBDs[k + 1]
              ELSE ~R[i]

\* A frame is in one place at a time: one queue or one list of frames to unwind.
InPlaces == Tx_qMpOwnedBDs \o Tx_qDmaOwnedBDs \o dpcList \o smList \o idList
OnePlace == IsInjective(InPlaces)

\* Tx_PendingNBs is the number of frames the driver has, less those queued by a
\* call that has not counted them yet.
PendingCounted ==
    Tx_PendingNBs = Len(InPlaces) - Cardinality({c \in Calls : send[c].pc = "count"})

\* No MP_TX_BD goes back to the lookaside list twice, or while the driver still
\* has its frame.
FreedOnce ==
    \A f \in Frames : freed[f] + (IF f \in Range(InPlaces) THEN 1 ELSE 0) <= 1

\* An NBL is given back to NDIS once, and not while the driver holds one of its
\* frames or is still working on it.
CompletedOnce ==
    \A l \in Nbls :
        /\ completed[l] <= 1
        /\ completed[l] = 1 =>
              /\ \A f \in Range(NBsOf[l]) : f \notin Range(InPlaces)
              /\ \A c \in Calls : CurrentNBL(c) # l \/ send[c].pc \notin {"alloc", "queue"}

\* Whatever stops and starts the MAC, and whatever DPC works on the ring
\* meanwhile, NDIS never gets an NBL back twice.
CompletedAtMostOnce == \A l \in Nbls : completed[l] <= 1

\* Once MpTxCancelAll has passed, no frame is given to the stopped MAC: neither
\* a send that began before the stop nor the DPC hands one over.
StoppedMacIdle == sm = "down" => Tx_qDmaOwnedBDs = <<>>

\* The MAC never sends a frame that was cancelled: what is in a ready
\* descriptor of the running MAC is still the driver's.
MacSendsLiveFrames ==
    sm = "up" => \A i \in Slots : R[i] => pMpBD[i] # NULL /\ freed[pMpBD[i]] = 0

\* The ring of the running MAC, the queue the driver keeps beside it and the
\* frames the MAC may still read agree.
RingSound == RingIsQueue /\ MacSendsLiveFrames

\* However sends, DPC, cancellations and pauses interleave, each frame is in one
\* place, counted once, and its MP_TX_BD freed once, when the driver has let go
\* of it.
FramesAccounted == TypeOK /\ OnePlace /\ PendingCounted /\ FreedOnce

\* Every pause and every reset ends, with sends in flight too: PAUSING cancels until
\* it finds nothing, and the calls that read the status before the stop, and the DPC,
\* cannot keep it finding frames.
StopEnds == sm \in {"cancel", "unwind"} ~> sm = "down"

\* Every NBL given to MpSendNetBufferLists is completed.
SendsComplete ==
    \A c \in Calls : \A j \in 1..Len(Chain[c]) :
        (send[c].pc # "idle") ~> (completed[Chain[c][j]] > 0)

=============================================================================
