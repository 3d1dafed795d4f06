---------------------------- MODULE EnetInterrupt ----------------------------
(***************************************************************************)
(* Interrupts of the ENET controller (mp_hw.c): EnetIsr, EnetDpc and the    *)
(* starts and stops of the MAC that run beside them. What an event is       *)
(* about, descriptors filled or sent and a transmitter that waits for a     *)
(* write to TDAR, is kept beside EIR, to say what a forgotten event loses.  *)
(*                                                                         *)
(* EnetDpc takes Dev_SpinLock three times and works between without it;    *)
(* each stretch is a step. Its read of EIR and the write that clears what  *)
(* was read are two steps: the MAC does not know the lock. A DPC that has  *)
(* enabled the interrupts is still running when the next one starts, on    *)
(* another processor.                                                      *)
(***************************************************************************)
EXTENDS Integers, FiniteSets

CONSTANTS
    Cpus,          \* processors EnetDpc may run on
    Ring,          \* descriptors of each ring
    MaxNbls,       \* MaxNblsToIndicate of one DPC
    MaxReceived,   \* bound: frames received
    MaxSent,       \* bound: frames sent
    MaxStops       \* bound: stops of the MAC

ASSUME EnetAssumption ==
    /\ Cpus # {} /\ IsFiniteSet(Cpus)
    /\ Ring \in Nat \ {0} /\ MaxNbls \in Nat \ {0}
    /\ MaxReceived \in Nat /\ MaxSent \in Nat /\ MaxStops \in Nat

VARIABLES
    EIR, EIMR,                          \* sets of events
    InterruptFlags, DpcQueued, DpcRunning, EnetStarted,
    Dev_SpinLock,                       \* "free" or who holds it across a step
    irq,                                \* an interrupt the processor has latched
    queued,                             \* calls of EnetDpc NDIS owes
    pc, InterruptEvent, MoreNblsPending,   \* of the DPC on each processor
    rxFull, txReady, txSent,            \* descriptors: received, to send, sent
    tdar,                               \* the transmitter is active
    TFC_PAUSE,                          \* a pause frame is asked for
    mii,                                \* an MDIO transfer is done, its poller not told
    received, sent, stops               \* bounded counters

regVars   == <<EIR, EIMR>>
flagVars  == <<InterruptFlags, DpcQueued, DpcRunning, EnetStarted, Dev_SpinLock>>
dpcVars   == <<pc, InterruptEvent, MoreNblsPending>>
rxVars    == <<rxFull, received, TFC_PAUSE>>
txVars    == <<txReady, txSent, tdar, sent>>
vars == <<regVars, flagVars, irq, queued, dpcVars, rxVars, txVars, mii, stops>>

Min2(a, b) == IF a < b THEN a ELSE b

\* LC, RL and UN come with the descriptor of a frame that was not sent; they are
\* served like TXF and are one event with it here.
ENET_RX_INT_MASK == {"RXF"}
ENET_TX_INT_MASK == {"TXF"}

\* Bus errors (EBERR) and MDIO transfers (MII) are not in it.
ENET_RX_TX_INT_MASK == ENET_RX_INT_MASK \cup ENET_TX_INT_MASK \cup {"GRA"}

Init ==
    /\ EIR = {} /\ EIMR = {} /\ InterruptFlags = {}
    /\ DpcQueued = FALSE /\ DpcRunning = FALSE /\ EnetStarted = FALSE
    /\ Dev_SpinLock = "free" /\ irq = FALSE /\ queued = 0
    /\ pc = [c \in Cpus |-> "idle"] /\ InterruptEvent = [c \in Cpus |-> {}]
    /\ MoreNblsPending = [c \in Cpus |-> FALSE]
    /\ rxFull = 0 /\ txReady = 0 /\ txSent = 0 /\ tdar = FALSE /\ TFC_PAUSE = FALSE
    /\ mii = FALSE /\ received = 0 /\ sent = 0 /\ stops = 0

-----------------------------------------------------------------------------
(* The MAC. It runs from EnetStart to the write of ECR in EnetStop. *)

MacRuns == EnetStarted

MacReceives ==
    /\ MacRuns /\ rxFull < Ring /\ received < MaxReceived
    /\ rxFull' = rxFull + 1 /\ received' = received + 1
    /\ EIR' = EIR \cup {"RXF"}
    /\ UNCHANGED <<EIMR, flagVars, irq, queued, dpcVars, TFC_PAUSE, txVars, mii, stops>>

\* A transmitter that finds nothing to send becomes inactive.
MacSends ==
    /\ MacRuns /\ tdar
    /\ IF txReady > 0
       THEN /\ txReady' = txReady - 1 /\ txSent' = txSent + 1
            /\ EIR' = EIR \cup {"TXF"}
            /\ UNCHANGED tdar
       ELSE tdar' = FALSE /\ UNCHANGED <<txReady, txSent, EIR>>
    /\ UNCHANGED <<EIMR, flagVars, irq, queued, dpcVars, rxVars, sent, mii, stops>>

\* The pause frame goes out between two frames; the driver then has to restart
\* the transmitter.
MacPauses ==
    /\ MacRuns /\ TFC_PAUSE
    /\ TFC_PAUSE' = FALSE /\ tdar' = FALSE
    /\ EIR' = EIR \cup {"GRA"}
    /\ UNCHANGED <<EIMR, flagVars, irq, queued, dpcVars, rxFull, received, txReady, txSent,
                   sent, mii, stops>>

\* A transfer on the MDIO bus ends, and the thread that polls for it sees that.
MdioDone ==
    /\ ~mii /\ mii' = TRUE
    /\ EIR' = EIR \cup {"MII"}
    /\ UNCHANGED <<EIMR, flagVars, irq, queued, dpcVars, rxVars, txVars, stops>>
MdioPolled ==
    /\ "MII" \in EIR /\ mii' = FALSE
    /\ EIR' = EIR \ {"MII"}
    /\ UNCHANGED <<EIMR, flagVars, irq, queued, dpcVars, rxVars, txVars, stops>>

\* A frame is put in the ring and the transmitter started, if it is not.
SendFrame ==
    /\ EnetStarted /\ Dev_SpinLock # "stop"
    /\ txReady + txSent < Ring /\ sent < MaxSent
    /\ txReady' = txReady + 1 /\ sent' = sent + 1 /\ tdar' = TRUE
    /\ UNCHANGED <<regVars, flagVars, irq, queued, dpcVars, rxVars, txSent, mii, stops>>

-----------------------------------------------------------------------------
(* The interrupt. *)

InterruptLatched ==
    /\ ~irq /\ EIR \cap EIMR # {}
    /\ irq' = TRUE
    /\ UNCHANGED <<regVars, flagVars, queued, dpcVars, rxVars, txVars, mii, stops>>

\* A latched interrupt may find EIMR cleared by EnetStop: it is spurious. A DPC
\* that is queued already is not queued twice.
EnetIsr ==
    /\ irq /\ irq' = FALSE
    /\ IF EIMR # {}
       THEN EIMR' = {} /\ DpcQueued' = TRUE /\ queued' = 1
       ELSE UNCHANGED <<EIMR, DpcQueued, queued>>
    /\ UNCHANGED <<EIR, InterruptFlags, DpcRunning, EnetStarted, Dev_SpinLock, dpcVars,
                   rxVars, txVars, mii, stops>>

\* NDIS calls EnetDpc; it takes Dev_SpinLock and reads EIR.
DpcReads(c) ==
    /\ queued > 0 /\ pc[c] = "idle" /\ Dev_SpinLock = "free"
    /\ queued' = queued - 1
    /\ Dev_SpinLock' = "dpc"
    /\ DpcQueued' = FALSE /\ DpcRunning' = TRUE
    /\ InterruptEvent' = [InterruptEvent EXCEPT ![c] = EIR \cap ENET_RX_TX_INT_MASK]
    /\ MoreNblsPending' = [MoreNblsPending EXCEPT ![c] = FALSE]
    /\ pc' = [pc EXCEPT ![c] = "clear"]
    /\ UNCHANGED <<regVars, InterruptFlags, EnetStarted, irq, rxVars, txVars, mii, stops>>

\* Mutant of DpcClears: everything in EIR is cleared, also what came after the read.
DpcClearsAll(c) ==
    LET events == InterruptEvent[c] \cup InterruptFlags
    IN  /\ pc[c] = "clear"
        /\ EIR' = EIR \ ENET_RX_TX_INT_MASK
        /\ InterruptEvent' = [InterruptEvent EXCEPT ![c] = events]
        /\ InterruptFlags' = {}
        /\ Dev_SpinLock' = "free"
        /\ pc' = [pc EXCEPT ![c] = IF events = {} THEN "enable" ELSE "tx"]
        /\ UNCHANGED <<EIMR, DpcQueued, DpcRunning, EnetStarted, irq, queued,
                       MoreNblsPending, rxVars, txVars, mii, stops>>

\* The events read are cleared, those an earlier call saved are added. A bus
\* error would end the DPC here, but its bit is not in the mask.
DpcClears(c) ==
    LET events == InterruptEvent[c] \cup InterruptFlags
    IN  /\ pc[c] = "clear"
        /\ EIR' = EIR \ InterruptEvent[c]
        /\ InterruptEvent' = [InterruptEvent EXCEPT ![c] = events]
        /\ InterruptFlags' = {}
        /\ Dev_SpinLock' = "free"
        /\ pc' = [pc EXCEPT ![c] = IF events = {} THEN "enable"
                                   ELSE IF "EBERR" \in events THEN "idle" ELSE "tx"]
        /\ UNCHANGED <<EIMR, DpcQueued, DpcRunning, EnetStarted, irq, queued,
                       MoreNblsPending, rxVars, txVars, mii, stops>>

\* MpHandleTxInterrupt: sent descriptors are taken back; a transmitter that
\* stopped before a ready one is restarted (ERR006358).
DpcTx(c) ==
    /\ pc[c] = "tx" /\ Dev_SpinLock # "stop"
    /\ pc' = [pc EXCEPT ![c] = "rx"]
    /\ IF InterruptEvent[c] \cap ENET_TX_INT_MASK # {}
       THEN txSent' = 0 /\ tdar' = (tdar \/ txReady > 0)
       ELSE UNCHANGED <<txSent, tdar>>
    /\ UNCHANGED <<regVars, flagVars, irq, queued, InterruptEvent, MoreNblsPending, rxVars,
                   txReady, sent, mii, stops>>

\* MpHandleRecvInterrupt: at most MaxNbls frames; a pause frame is asked for when
\* some are only shown to NDIS.
DpcRx(c) ==
    LET n == Min2(rxFull, MaxNbls)
        runs == "RXF" \in InterruptEvent[c] /\ EnetStarted
    IN  /\ pc[c] = "rx" /\ Dev_SpinLock # "stop"
        /\ rxFull' = IF runs THEN rxFull - n ELSE rxFull
        /\ \/ UNCHANGED TFC_PAUSE
           \/ runs /\ n > 0 /\ TFC_PAUSE' = TRUE
        /\ MoreNblsPending' = [MoreNblsPending EXCEPT ![c] = runs /\ rxFull' > 0]
        /\ pc' = [pc EXCEPT ![c] = IF MoreNblsPending'[c] THEN "save" ELSE "gra"]
        /\ UNCHANGED <<regVars, flagVars, irq, queued, InterruptEvent, received, txVars, mii, stops>>

\* Mutant of DpcSaves: nothing is saved.
DpcSavesNothing(c) ==
    /\ pc[c] = "save" /\ Dev_SpinLock = "free"
    /\ pc' = [pc EXCEPT ![c] = "enable"]
    /\ UNCHANGED <<regVars, flagVars, irq, queued, InterruptEvent, MoreNblsPending,
                   rxVars, txVars, mii, stops>>

\* For the call NDIS makes next, only the receive event is saved.
DpcSaves(c) ==
    /\ pc[c] = "save" /\ Dev_SpinLock = "free"
    /\ InterruptFlags' = InterruptFlags \cup (InterruptEvent[c] \cap ENET_RX_INT_MASK)
    /\ pc' = [pc EXCEPT ![c] = "enable"]
    /\ UNCHANGED <<regVars, DpcQueued, DpcRunning, EnetStarted, Dev_SpinLock, irq, queued,
                   InterruptEvent, MoreNblsPending, rxVars, txVars, mii, stops>>

DpcGra(c) ==
    /\ pc[c] = "gra"
    /\ pc' = [pc EXCEPT ![c] = "enable"]
    /\ tdar' = (tdar \/ "GRA" \in InterruptEvent[c])
    /\ UNCHANGED <<regVars, flagVars, irq, queued, InterruptEvent, MoreNblsPending, rxVars,
                   txReady, txSent, sent, mii, stops>>

\* Mutant of DpcEnables: a DPC that found no event leaves the interrupts as they are.
DpcEnablesOnEvent(c) ==
    /\ pc[c] = "enable"
    /\ EIMR' = IF MoreNblsPending[c] \/ InterruptEvent[c] = {} THEN EIMR
               ELSE EIMR \cup ENET_RX_TX_INT_MASK
    /\ pc' = [pc EXCEPT ![c] = "end"]
    /\ UNCHANGED <<EIR, flagVars, irq, queued, InterruptEvent, MoreNblsPending, rxVars, txVars,
                   mii, stops>>

\* EnetEnableRxAndTxInterrupts, whether the MAC runs or not.
DpcEnables(c) ==
    /\ pc[c] = "enable"
    /\ EIMR' = IF MoreNblsPending[c] THEN EIMR ELSE EIMR \cup ENET_RX_TX_INT_MASK
    /\ pc' = [pc EXCEPT ![c] = "end"]
    /\ UNCHANGED <<EIR, flagVars, irq, queued, InterruptEvent, MoreNblsPending, rxVars, txVars,
                   mii, stops>>

\* EnetDpc returns; NDIS calls it again when more frames are pending.
DpcEnds(c) ==
    /\ pc[c] = "end" /\ Dev_SpinLock = "free"
    /\ DpcRunning' = FALSE
    /\ queued' = IF MoreNblsPending[c] THEN 1 ELSE queued
    /\ pc' = [pc EXCEPT ![c] = "idle"]
    /\ InterruptEvent' = [InterruptEvent EXCEPT ![c] = {}]
    /\ UNCHANGED <<regVars, InterruptFlags, DpcQueued, EnetStarted, Dev_SpinLock, irq,
                   MoreNblsPending, rxVars, txVars, mii, stops>>

EnetDpc(c) == \/ DpcReads(c) \/ DpcClears(c) \/ DpcTx(c) \/ DpcRx(c) \/ DpcSaves(c)
              \/ DpcGra(c) \/ DpcEnables(c) \/ DpcEnds(c)

-----------------------------------------------------------------------------
(* The state machine, under the Dev, Rx and Tx locks. *)

EnetDisableRxAndTxInterrupts ==
    /\ EIMR' = EIMR \ ENET_RX_TX_INT_MASK
    /\ EIR' = EIR \ ENET_RX_TX_INT_MASK

EnetStop ==
    /\ EnetStarted /\ Dev_SpinLock = "free" /\ stops < MaxStops
    /\ Dev_SpinLock' = "stop"
    /\ EnetDisableRxAndTxInterrupts
    /\ stops' = stops + 1
    /\ UNCHANGED <<InterruptFlags, DpcQueued, DpcRunning, EnetStarted, irq, queued, dpcVars,
                   rxVars, txVars, mii>>

\* ECR.ETHER_EN is cleared; until here the MAC went on.
EnetStopMac ==
    /\ Dev_SpinLock = "stop" /\ Dev_SpinLock' = "free"
    /\ EnetStarted' = FALSE
    /\ tdar' = FALSE /\ TFC_PAUSE' = FALSE
    /\ UNCHANGED <<regVars, InterruptFlags, DpcQueued, DpcRunning, irq, queued, dpcVars, rxFull,
                   received, txReady, txSent, sent, mii, stops>>

\* MpTxInit and MpRxInit empty the rings; the frames to send were cancelled.
EnetStart ==
    /\ ~EnetStarted /\ Dev_SpinLock = "free"
    /\ EnetStarted' = TRUE
    /\ rxFull' = 0 /\ txReady' = 0 /\ txSent' = 0
    /\ InterruptFlags' = {}
    /\ EIR' = EIR \ ENET_RX_TX_INT_MASK
    /\ EIMR' = EIMR \cup ENET_RX_TX_INT_MASK
    /\ UNCHANGED <<DpcQueued, DpcRunning, Dev_SpinLock, irq, queued, dpcVars, received,
                   TFC_PAUSE, sent, tdar, mii, stops>>

Next == \/ MacReceives \/ MacSends \/ MacPauses \/ MdioDone \/ MdioPolled \/ SendFrame
        \/ InterruptLatched \/ EnetIsr
        \/ \E c \in Cpus : EnetDpc(c)
        \/ EnetStop \/ EnetStopMac \/ EnetStart

Spec == Init /\ [][Next]_vars

\* Latched interrupts and DPCs run; the MAC goes on and a stop that began ends.
Fairness ==
    /\ WF_vars(InterruptLatched) /\ WF_vars(EnetIsr)
    /\ \A c \in Cpus : WF_vars(EnetDpc(c))
    /\ WF_vars(MacSends) /\ WF_vars(EnetStopMac)
FairSpec == Spec /\ Fairness

-----------------------------------------------------------------------------
(* Properties *)

EventsTyped ==
    /\ EIR \subseteq ENET_RX_TX_INT_MASK \cup {"MII"} /\ EIMR \in {{}, ENET_RX_TX_INT_MASK}
    /\ InterruptFlags \subseteq ENET_RX_TX_INT_MASK
    /\ InterruptEvent \in [Cpus -> SUBSET ENET_RX_TX_INT_MASK]
FlagsTyped ==
    /\ DpcQueued \in BOOLEAN /\ DpcRunning \in BOOLEAN /\ EnetStarted \in BOOLEAN
    /\ irq \in BOOLEAN /\ tdar \in BOOLEAN /\ TFC_PAUSE \in BOOLEAN /\ mii \in BOOLEAN
    /\ MoreNblsPending \in [Cpus -> BOOLEAN]
ControlTyped ==
    /\ Dev_SpinLock \in {"free", "dpc", "stop"} /\ queued \in 0..1
    /\ pc \in [Cpus -> {"idle", "clear", "tx", "rx", "save", "gra", "enable", "end"}]
CountersTyped ==
    /\ rxFull \in 0..Ring /\ txReady \in 0..Ring /\ txSent \in 0..Ring
    /\ received \in 0..MaxReceived /\ sent \in 0..MaxSent /\ stops \in 0..MaxStops

\* Every variable is of its type and every counter in its range.
TypeOK == EventsTyped /\ FlagsTyped /\ ControlTyped /\ CountersTyped

\* While the MAC is started its interrupts are enabled, or a call of EnetDpc that
\* will enable them is queued or running: no order of ISR, DPCs on two processors,
\* throttling, stops and starts leaves the adapter deaf.
NeverDeaf ==
    (EnetStarted /\ Dev_SpinLock # "stop") =>
        \/ ENET_RX_TX_INT_MASK \subseteq EIMR
        \/ queued > 0
        \/ \E c \in Cpus : \/ pc[c] \notin {"idle", "end"}
                           \/ pc[c] = "end" /\ MoreNblsPending[c]

\* The DPCs that have still to come to the handler of an event they took.
WillServe(event, before) ==
    \E c \in Cpus : pc[c] \in before /\ event \in InterruptEvent[c]

\* A received frame that nobody has taken is recorded, in EIR, in the saved flags
\* or in a DPC on its way to MpHandleRecvInterrupt, also after a throttled call;
\* a sent one in EIR or in a DPC on its way to MpHandleTxInterrupt.
EventsRemembered ==
    (EnetStarted /\ Dev_SpinLock # "stop") =>
        /\ rxFull > 0 => \/ "RXF" \in EIR \cup InterruptFlags
                         \/ WillServe("RXF", {"clear", "tx", "rx", "save"})
        /\ txSent > 0 => "TXF" \in EIR \/ WillServe("TXF", {"clear", "tx"})

\* Neither a start, a stop nor a DPC takes the end of an MDIO transfer away from
\* the thread that polls EIR for it (MDIOBus_Main).
MiiKept == mii <=> "MII" \in EIR

\* What the MAC and the MDIO controller have signalled stays on record until its
\* handler comes to it, in EIR, in InterruptFlags or in a running DPC.
NoEventLost == TypeOK /\ EventsRemembered /\ MiiKept

\* A received frame is taken from the ring, unless the MAC is stopped.
ReceivedIsServed == rxFull > 0 ~> (rxFull = 0 \/ ~EnetStarted)

\* A transmitter the pause frame has stopped before frames that are ready is
\* started again, unless the MAC is stopped.
TxRestarted == (txReady > 0 /\ ~tdar) ~> (txReady = 0 \/ tdar \/ ~EnetStarted)

=============================================================================
