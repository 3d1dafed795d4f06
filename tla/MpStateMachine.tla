--------------------------- MODULE MpStateMachine ---------------------------
(***************************************************************************)
(* The adapter state machine of the imxnetmini NDIS miniport (mp_sm.c), the *)
(* NDIS callbacks that drive it (mp_main.c), the power OID that works beside *)
(* it (MpSetPower, mp_req.c) and the start/stop of the data path they cause *)
(* (EnetStart, EnetStop, MpTxCancelAll).                                    *)
(*                                                                         *)
(* The state machine runs in the handler of an NDIS timer, under            *)
(* SM_SpinLock, so one run of MpSmDispatcher is one step. The timer is     *)
(* modelled by what NdisSetTimerObject does: an armed timer is re-armed,   *)
(* but an expiry whose handler has not taken SM_SpinLock yet ("fired") is  *)
(* not taken back. The data path is reduced to counters; TxPath and RxPath *)
(* model it in detail.                                                     *)
(***************************************************************************)
EXTENDS Integers

CONSTANTS
    NoLink,       \* the value 0 of IMX_MII_LINK_STATE, before the first PHY scan
    LinkStates,   \* values of PHYDev_LinkState.R, NoLink included
    Connected,    \* those whose media connect state is "connected"
    LinkMoves,    \* the changes of PHYDev_LinkState the PHY may report
    MayStall,     \* whether the MAC may stall, so that NDIS resets the adapter
    PowerPhases,  \* NDIS phases in which OID_PNP_SET_POWER may arrive
    TxRing,       \* Tx_DmaBDT_ItemCount
    MaxTx,        \* bound: frames NDIS has sent and not got back
    MaxRx,        \* bound: received frames NDIS holds
    MaxFired      \* bound: runs of the timer handler waiting for SM_SpinLock

ASSUME LinkAssumption ==
    /\ NoLink \in LinkStates
    /\ Connected \subseteq LinkStates \ {NoLink}
    /\ LinkMoves \subseteq LinkStates \X LinkStates
ASSUME EnvironmentAssumption ==
    MayStall \in BOOLEAN /\ PowerPhases \subseteq {"Paused", "Running"}
ASSUME BoundAssumption ==
    TxRing \in Nat \ {0} /\ MaxTx \in Nat /\ MaxRx \in Nat /\ MaxFired \in Nat \ {0}

VARIABLES
    SM_CurrentState, SM_NextState, SM_OnResetPreviousState,
    timer,                 \* SM_hTimer: "off", "now" (100 ns), "later" (100 ms or more)
    fired,                 \* expiries whose handler has not taken SM_SpinLock
    SM_EnetHaltedEvent,
    OP_RESET,              \* PendingNdisOperations.B.OP_RESET
    LinkState,             \* pAdapter->LinkState.R
    PHYDev_LinkState,
    ndisLink,              \* the link state last indicated to NDIS
    NdisStatus, EnetStarted,
    Tx_qMpOwnedBDs, Tx_qDmaOwnedBDs,   \* depths of the two queues
    Tx_EnetFreeBDCount, Tx_CheckForHangCounter,
    Rx_NdisOwnedBDsCount,  \* the driver's count
    rxHeld,                \* received frames NDIS really holds
    CurrentPowerState, RestartEnetAfterResume,
    pwPc,                  \* where MpSetPower is
    ndis                   \* what NDIS believes of the adapter

smVars    == <<SM_CurrentState, SM_NextState, SM_OnResetPreviousState,
               timer, fired, SM_EnetHaltedEvent>>
linkVars  == <<LinkState, PHYDev_LinkState, ndisLink>>
enetVars  == <<NdisStatus, EnetStarted>>
txVars    == <<Tx_qMpOwnedBDs, Tx_qDmaOwnedBDs, Tx_EnetFreeBDCount,
               Tx_CheckForHangCounter>>
rxVars    == <<Rx_NdisOwnedBDsCount, rxHeld>>
powerVars == <<CurrentPowerState, RestartEnetAfterResume, pwPc>>
vars == <<smVars, linkVars, enetVars, txVars, rxVars, powerVars, OP_RESET, ndis>>

SmStates == {"HALTED", "PAUSED", "PAUSING", "RUNNING", "RESET"}
NdisStatuses == {"SUCCESS", "PAUSED", "MEDIA_DISCONNECTED", "REQUEST_ABORTED",
                 "LOW_POWER_STATE"}
\* "Hung": MpCheckForHangEx said TRUE; "ResetCall": inside MpResetEx;
\* "Freed" and "Leaked": MpHaltEx returned with and without MpFreeAdapter.
NdisPhases == {"Paused", "Running", "Pausing", "Hung", "ResetCall", "Resetting",
               "Halting", "Freed", "Leaked"}

IsConnected(link) == link \in Connected

(***************************************************************************)
(* MpAllocAdapterBlock: the block is zeroed, so NdisStatus is 0, that is   *)
(* NDIS_STATUS_SUCCESS, and no Tx descriptor is free before MpTxInit.      *)
(***************************************************************************)
Init ==
    /\ SM_CurrentState = "PAUSED" /\ SM_NextState = "PAUSED"
    /\ SM_OnResetPreviousState = "HALTED"
    /\ timer = "off" /\ fired = 0 /\ SM_EnetHaltedEvent = FALSE
    /\ OP_RESET = FALSE
    /\ LinkState = NoLink /\ PHYDev_LinkState = NoLink /\ ndisLink = NoLink
    /\ NdisStatus = "SUCCESS" /\ EnetStarted = FALSE
    /\ Tx_qMpOwnedBDs = 0 /\ Tx_qDmaOwnedBDs = 0
    /\ Tx_EnetFreeBDCount = 0 /\ Tx_CheckForHangCounter = 0
    /\ Rx_NdisOwnedBDsCount = 0 /\ rxHeld = 0
    /\ CurrentPowerState = "D0" /\ RestartEnetAfterResume = FALSE /\ pwPc = "idle"
    /\ ndis = "Paused"

-----------------------------------------------------------------------------
(* The data path as the state machine sees it. *)

EnetStop(status) ==
    /\ NdisStatus' = status
    /\ EnetStarted' = FALSE
    /\ UNCHANGED rxVars

\* MpTxInit and MpRxInit, under the Dev, Rx and Tx locks. The queues stay as
\* they are; the count of frames NDIS owns is zeroed whoever holds them.
EnetStart ==
    /\ NdisStatus' = "SUCCESS"
    /\ EnetStarted' = TRUE
    /\ Tx_EnetFreeBDCount' = TxRing
    /\ Tx_CheckForHangCounter' = 0
    /\ Rx_NdisOwnedBDsCount' = 0
    /\ UNCHANGED <<Tx_qMpOwnedBDs, Tx_qDmaOwnedBDs, rxHeld>>

IsAnyTxFrameQueued == Tx_qMpOwnedBDs > 0 \/ Tx_qDmaOwnedBDs > 0

\* Mutant of MpTxCancelAll: frames in the ring are left there.
CancelOnlyQueued ==
    /\ Tx_qMpOwnedBDs' = 0
    /\ UNCHANGED <<Tx_qDmaOwnedBDs, Tx_EnetFreeBDCount, Tx_CheckForHangCounter>>

MpTxCancelAll ==
    /\ Tx_qMpOwnedBDs' = 0 /\ Tx_qDmaOwnedBDs' = 0
    /\ UNCHANGED <<Tx_EnetFreeBDCount, Tx_CheckForHangCounter>>

\* Mutant of MpIndicateLinkStatus: NDIS is not told.
NoLinkIndication(link) == UNCHANGED ndisLink

MpIndicateLinkStatus(link) == ndisLink' = link

\* Mutant of IsRxFramePandingInNdis: off by one.
MoreThanOneRxPending == Rx_NdisOwnedBDsCount > 1

IsRxFramePandingInNdis == Rx_NdisOwnedBDsCount # 0

-----------------------------------------------------------------------------
(* SmSetState. A caller in the dispatcher holds SM_SpinLock from before     *)
(* SM_CurrentState := SM_NextState, so its "denied" test never holds there. *)

SmSetState(state, delay) ==
    /\ SM_NextState' = state
    /\ timer' = delay

\* SmSetState(..., MP_SM_NEXT_STATE_IMMEDIATELY, SM_CALLED_BY_NDIS).
SmSetStateByNdis(state) ==
    /\ SmSetState(state, "now")
    /\ UNCHANGED <<SM_CurrentState, SM_OnResetPreviousState, fired>>

(* The handlers. prev is PreviousState, link the new PHYDev_LinkState. *)

\* Mutant of MpOnRunningStateHandler: the data path is started only when the
\* link has changed, after a restart too.
RunningStartsOnChange(prev, link) ==
    /\ LinkState' = link
    /\ IF LinkState = link THEN UNCHANGED <<enetVars, txVars, rxVars>>
       ELSE IF IsConnected(link) THEN EnetStart
       ELSE EnetStop("MEDIA_DISCONNECTED") /\ MpTxCancelAll
    /\ IF LinkState # link THEN MpIndicateLinkStatus(link) ELSE UNCHANGED ndisLink
    /\ SmSetState("RUNNING", "later")
    /\ UNCHANGED <<SM_OnResetPreviousState, SM_EnetHaltedEvent, OP_RESET, ndis>>

MpOnRunningStateHandler(prev, link) ==
    /\ LinkState' = link
    /\ \/ /\ prev = "PAUSED"
          /\ IF IsConnected(link) THEN EnetStart ELSE UNCHANGED <<enetVars, txVars, rxVars>>
          /\ IF IsConnected(link) /\ LinkState # link
             THEN MpIndicateLinkStatus(link) ELSE UNCHANGED ndisLink
       \/ /\ prev = "RUNNING" /\ LinkState # link
          /\ IF IsConnected(link)
             THEN EnetStart
             ELSE EnetStop("MEDIA_DISCONNECTED") /\ MpTxCancelAll
          /\ MpIndicateLinkStatus(link)
       \/ /\ prev # "PAUSED" /\ ~(prev = "RUNNING" /\ LinkState # link)
          /\ UNCHANGED <<enetVars, txVars, rxVars, ndisLink>>
    /\ SmSetState("RUNNING", "later")
    /\ UNCHANGED <<SM_OnResetPreviousState, SM_EnetHaltedEvent, OP_RESET, ndis>>

MpOnPausingStateHandler(prev) ==
    /\ \/ /\ prev \in {"RUNNING", "PAUSED"}
          /\ EnetStop("PAUSED") /\ MpTxCancelAll
          /\ SmSetState("PAUSING", "later")
       \/ /\ prev = "RESET"
          /\ EnetStop("REQUEST_ABORTED") /\ MpTxCancelAll
          /\ SmSetState("PAUSING", "later")
       \/ /\ prev = "PAUSING"
          /\ MpTxCancelAll /\ UNCHANGED <<enetVars, rxVars>>
          /\ IF IsAnyTxFrameQueued \/ IsRxFramePandingInNdis
             THEN SmSetState("PAUSING", "later")
             ELSE SmSetState("PAUSED", "now")
       \/ /\ prev = "HALTED"                       \* ASSERT(0)
          /\ UNCHANGED <<enetVars, txVars, rxVars>>
          /\ SmSetState("PAUSING", "later")
    /\ UNCHANGED <<SM_OnResetPreviousState, SM_EnetHaltedEvent, OP_RESET, LinkState,
                   ndisLink, ndis>>

\* Mutant of MpOnPausedStateHandler: OP_RESET is not cleared.
PausedKeepsOpReset(prev) ==
    /\ IF prev = "PAUSING" /\ OP_RESET
       THEN /\ EnetStart
            /\ ndis' = "Running"
            /\ SmSetState(SM_OnResetPreviousState, "now")
       ELSE /\ ndis' = IF prev = "PAUSING" THEN "Paused" ELSE ndis
            /\ UNCHANGED <<enetVars, txVars, rxVars, SM_NextState, timer>>
    /\ UNCHANGED <<OP_RESET, SM_OnResetPreviousState, SM_EnetHaltedEvent, LinkState, ndisLink>>

\* NdisMResetComplete returns the adapter to NDIS as running (a reset starts
\* from there only), NdisMPauseComplete as paused.
MpOnPausedStateHandler(prev) ==
    /\ \/ /\ prev = "PAUSING" /\ OP_RESET
          /\ OP_RESET' = FALSE
          /\ IF SM_OnResetPreviousState = "RUNNING"
             THEN EnetStart
             ELSE UNCHANGED <<enetVars, txVars, rxVars>>
          /\ ndis' = "Running"
          /\ SmSetState(SM_OnResetPreviousState, "now")
       \/ /\ prev = "PAUSING" /\ ~OP_RESET
          /\ ndis' = "Paused"
          /\ UNCHANGED <<enetVars, txVars, rxVars, OP_RESET, SM_NextState, timer>>
       \/ /\ prev # "PAUSING"                      \* ASSERT(0)
          /\ UNCHANGED <<enetVars, txVars, rxVars, OP_RESET, SM_NextState, timer, ndis>>
    /\ UNCHANGED <<SM_OnResetPreviousState, SM_EnetHaltedEvent, LinkState, ndisLink>>

\* Mutants of MpOnResetStateHandler: PAUSING is skipped; no next state is set.
ResetSkipsPausing(prev) ==
    /\ SM_OnResetPreviousState' = prev
    /\ SmSetState("PAUSED", "now")
    /\ UNCHANGED <<enetVars, txVars, rxVars, SM_EnetHaltedEvent, OP_RESET, LinkState,
                   ndisLink, ndis>>
ResetSetsNoState(prev) ==
    /\ SM_OnResetPreviousState' = prev
    /\ UNCHANGED <<enetVars, txVars, rxVars, SM_EnetHaltedEvent, OP_RESET, LinkState,
                   ndisLink, ndis, SM_NextState, timer>>

MpOnResetStateHandler(prev) ==
    /\ SM_OnResetPreviousState' = prev
    /\ SmSetState("PAUSING", "now")
    /\ UNCHANGED <<enetVars, txVars, rxVars, SM_EnetHaltedEvent, OP_RESET, LinkState,
                   ndisLink, ndis>>

\* Mutant of MpOnHaltedStateHandler: the timer is armed again.
HaltedKeepsTicking(prev) ==
    /\ EnetStop("REQUEST_ABORTED") /\ SM_EnetHaltedEvent' = TRUE
    /\ SmSetState("HALTED", "later")
    /\ UNCHANGED <<txVars, SM_OnResetPreviousState, OP_RESET, LinkState, ndisLink, ndis>>

MpOnHaltedStateHandler(prev) ==
    /\ IF prev = "PAUSED"
       THEN EnetStop("REQUEST_ABORTED") /\ SM_EnetHaltedEvent' = TRUE
       ELSE UNCHANGED <<enetVars, rxVars, SM_EnetHaltedEvent>>    \* ASSERT(0)
    /\ UNCHANGED <<txVars, SM_NextState, timer, SM_OnResetPreviousState, OP_RESET,
                   LinkState, ndisLink, ndis>>

\* MII_StateEngine, reduced to its effect on PHYDev_LinkState.
MII_StateEngine ==
    \/ UNCHANGED PHYDev_LinkState
    \/ \E move \in LinkMoves :
          move[1] = PHYDev_LinkState /\ PHYDev_LinkState' = move[2]

MpSmDispatcher ==
    /\ fired > 0
    /\ fired' = fired - 1
    /\ IF SM_NextState # "HALTED" THEN MII_StateEngine ELSE UNCHANGED PHYDev_LinkState
    /\ SM_CurrentState' = SM_NextState
    /\ \/ SM_NextState = "RUNNING" /\ MpOnRunningStateHandler(SM_CurrentState, PHYDev_LinkState')
       \/ SM_NextState = "HALTED"  /\ MpOnHaltedStateHandler(SM_CurrentState)
       \/ SM_NextState = "PAUSING" /\ MpOnPausingStateHandler(SM_CurrentState)
       \/ SM_NextState = "PAUSED"  /\ MpOnPausedStateHandler(SM_CurrentState)
       \/ SM_NextState = "RESET"   /\ MpOnResetStateHandler(SM_CurrentState)
    /\ UNCHANGED powerVars

\* The kernel timer. An immediate timer may expire while an earlier run of the
\* handler still waits for SM_SpinLock; one of 100 ms or more does not.
TimerExpires ==
    /\ \/ timer = "now" /\ fired < MaxFired
       \/ timer = "later" /\ fired = 0
    /\ timer' = "off"
    /\ fired' = fired + 1
    /\ UNCHANGED <<SM_CurrentState, SM_NextState, SM_OnResetPreviousState, SM_EnetHaltedEvent,
                   linkVars, enetVars, txVars, rxVars, powerVars, OP_RESET, ndis>>

-----------------------------------------------------------------------------
(* The NDIS callbacks. NDIS does not overlap pause, restart, halt, reset   *)
(* and the power OID of one adapter.                                       *)

MpPause ==
    /\ ndis = "Running" /\ pwPc = "idle" /\ CurrentPowerState = "D0"
    /\ ndis' = "Pausing"
    /\ SmSetStateByNdis("PAUSING")
    /\ UNCHANGED <<SM_EnetHaltedEvent, linkVars, enetVars, txVars, rxVars, powerVars, OP_RESET>>

\* Returns NDIS_STATUS_SUCCESS before the state machine has moved.
MpRestart ==
    /\ ndis = "Paused" /\ pwPc = "idle" /\ CurrentPowerState = "D0"
    /\ ndis' = "Running"
    /\ SmSetStateByNdis("RUNNING")
    /\ UNCHANGED <<SM_EnetHaltedEvent, linkVars, enetVars, txVars, rxVars, powerVars, OP_RESET>>

\* A second call while OP_RESET is set returns RESET_IN_PROGRESS: no change.
MpResetEx ==
    /\ ndis = "Hung" /\ ~OP_RESET
    /\ OP_RESET' = TRUE
    /\ ndis' = "ResetCall"
    /\ UNCHANGED <<smVars, linkVars, enetVars, txVars, rxVars, powerVars>>

MpResetExSetState ==
    /\ ndis = "ResetCall"
    /\ ndis' = "Resetting"
    /\ SmSetStateByNdis("RESET")
    /\ UNCHANGED <<SM_EnetHaltedEvent, linkVars, enetVars, txVars, rxVars, powerVars, OP_RESET>>

MpHaltEx ==
    /\ ndis = "Paused" /\ pwPc = "idle"
    /\ ndis' = "Halting"
    /\ SM_EnetHaltedEvent' = FALSE
    /\ SmSetStateByNdis("HALTED")
    /\ UNCHANGED <<linkVars, enetVars, txVars, rxVars, powerVars, OP_RESET>>

\* NdisWaitEvent returned: signalled (MpFreeAdapter) or timed out.
MpHaltExReturn ==
    /\ ndis = "Halting"
    /\ ndis' = IF SM_EnetHaltedEvent THEN "Freed" ELSE "Leaked"
    /\ UNCHANGED <<smVars, linkVars, enetVars, txVars, rxVars, powerVars, OP_RESET>>

\* NDIS polls for a hang every two seconds: by then an immediate timer has
\* expired and its handler has run.
MpCheckForHangEx ==
    /\ MayStall /\ ndis = "Running" /\ pwPc = "idle" /\ timer # "now" /\ fired = 0
    /\ Tx_qDmaOwnedBDs > 0
    /\ Tx_CheckForHangCounter' = Tx_CheckForHangCounter + 1
    /\ ndis' = IF Tx_CheckForHangCounter' > 2 THEN "Hung" ELSE ndis
    /\ UNCHANGED <<smVars, linkVars, enetVars, rxVars, powerVars, OP_RESET,
                   Tx_qMpOwnedBDs, Tx_qDmaOwnedBDs, Tx_EnetFreeBDCount>>

-----------------------------------------------------------------------------
(* MpSetPower, one step per stretch between its locks. *)

MpSetPowerD0 ==
    /\ ndis \in PowerPhases /\ pwPc = "idle" /\ CurrentPowerState # "D0"
    /\ CurrentPowerState' = "D0"
    /\ RestartEnetAfterResume' = FALSE
    /\ pwPc' = IF RestartEnetAfterResume THEN "start" ELSE "idle"
    /\ UNCHANGED <<smVars, linkVars, enetVars, txVars, rxVars, OP_RESET, ndis>>

EnterD3 ==
    /\ CurrentPowerState' = "D3"
    /\ LinkState' = NoLink
    /\ MpIndicateLinkStatus(NoLink)
    /\ pwPc' = "idle"
    /\ UNCHANGED PHYDev_LinkState

MpSetPowerD3 ==
    /\ ndis \in PowerPhases /\ pwPc = "idle" /\ CurrentPowerState # "D3"
    /\ RestartEnetAfterResume' = EnetStarted
    /\ IF EnetStarted
       THEN pwPc' = "stop" /\ UNCHANGED <<CurrentPowerState, linkVars>>
       ELSE EnterD3
    /\ UNCHANGED <<smVars, enetVars, txVars, rxVars, OP_RESET, ndis>>

MpSetPowerStart ==
    /\ pwPc = "start" /\ pwPc' = "idle"
    /\ EnetStart
    /\ UNCHANGED <<smVars, linkVars, CurrentPowerState, RestartEnetAfterResume, OP_RESET, ndis>>

MpSetPowerStop ==
    /\ pwPc = "stop" /\ pwPc' = "cancel"
    /\ EnetStop("LOW_POWER_STATE")
    /\ UNCHANGED <<smVars, linkVars, txVars, CurrentPowerState, RestartEnetAfterResume,
                   OP_RESET, ndis>>

\* The first MpTxCancelAll and those of the wait for Tx_PendingNBs = 0. The counter
\* of that wait only leads to an ASSERT(0): it is negative afterwards, and a build
\* without assertions waits on.
MpSetPowerCancel ==
    /\ pwPc = "cancel" /\ pwPc' = "wait"
    /\ MpTxCancelAll
    /\ UNCHANGED <<smVars, linkVars, enetVars, rxVars, CurrentPowerState,
                   RestartEnetAfterResume, OP_RESET, ndis>>

MpSetPowerWait ==
    /\ pwPc = "wait" /\ pwPc' = IF IsAnyTxFrameQueued THEN "cancel" ELSE "finish"
    /\ UNCHANGED <<smVars, linkVars, enetVars, txVars, rxVars, CurrentPowerState,
                   RestartEnetAfterResume, OP_RESET, ndis>>

MpSetPowerFinish ==
    /\ pwPc = "finish"
    /\ EnterD3
    /\ UNCHANGED <<smVars, enetVars, txVars, rxVars, RestartEnetAfterResume, OP_RESET, ndis>>

-----------------------------------------------------------------------------
(* The traffic. *)

\* MpSendNextNB: as many frames as there are free descriptors.
MpSendNextNB(mp, dma, free) ==
    LET n == IF mp < free THEN mp ELSE free
    IN  /\ Tx_qMpOwnedBDs' = mp - n
        /\ Tx_qDmaOwnedBDs' = dma + n
        /\ Tx_EnetFreeBDCount' = free - n

MpSendNetBufferLists ==
    /\ ndis \in {"Running", "Hung", "ResetCall"}
    /\ NdisStatus = "SUCCESS"
    /\ Tx_qMpOwnedBDs + Tx_qDmaOwnedBDs < MaxTx
    /\ MpSendNextNB(Tx_qMpOwnedBDs + 1, Tx_qDmaOwnedBDs, Tx_EnetFreeBDCount)
    /\ UNCHANGED <<smVars, linkVars, enetVars, rxVars, powerVars, OP_RESET, ndis,
                   Tx_CheckForHangCounter>>

\* The DMA has sent the oldest frame of the ring and the DPC takes it back.
MpHandleTxInterrupt ==
    /\ EnetStarted /\ Tx_qDmaOwnedBDs > 0 /\ Tx_EnetFreeBDCount < TxRing
    /\ MpSendNextNB(Tx_qMpOwnedBDs, Tx_qDmaOwnedBDs - 1, Tx_EnetFreeBDCount + 1)
    /\ Tx_CheckForHangCounter' = 0
    /\ UNCHANGED <<smVars, linkVars, enetVars, rxVars, powerVars, OP_RESET, ndis>>

MpHandleRecvInterrupt ==
    /\ EnetStarted /\ NdisStatus = "SUCCESS" /\ rxHeld < MaxRx
    /\ rxHeld' = rxHeld + 1
    /\ Rx_NdisOwnedBDsCount' = Rx_NdisOwnedBDsCount + 1
    /\ UNCHANGED <<smVars, linkVars, enetVars, txVars, powerVars, OP_RESET, ndis>>

\* Mutant of MpReturnNetBufferLists: frames returned while the data path is
\* stopped are not counted.
ReturnUncountedWhenStopped ==
    /\ rxHeld > 0
    /\ rxHeld' = rxHeld - 1
    /\ Rx_NdisOwnedBDsCount' = Rx_NdisOwnedBDsCount - (IF EnetStarted THEN 1 ELSE 0)
    /\ UNCHANGED <<smVars, linkVars, enetVars, txVars, powerVars, OP_RESET, ndis>>

MpReturnNetBufferLists ==
    /\ rxHeld > 0
    /\ rxHeld' = rxHeld - 1
    /\ Rx_NdisOwnedBDsCount' = Rx_NdisOwnedBDsCount - 1
    /\ UNCHANGED <<smVars, linkVars, enetVars, txVars, powerVars, OP_RESET, ndis>>

-----------------------------------------------------------------------------
NdisCallback == MpPause \/ MpRestart \/ MpResetEx \/ MpResetExSetState
                \/ MpHaltEx \/ MpHaltExReturn \/ MpCheckForHangEx
MpSetPowerGoesOn == \/ MpSetPowerStart \/ MpSetPowerStop \/ MpSetPowerCancel
                    \/ MpSetPowerWait \/ MpSetPowerFinish
Power == MpSetPowerD0 \/ MpSetPowerD3 \/ MpSetPowerGoesOn
Traffic == MpSendNetBufferLists \/ MpHandleTxInterrupt
           \/ MpHandleRecvInterrupt \/ MpReturnNetBufferLists
Next == MpSmDispatcher \/ TimerExpires \/ NdisCallback \/ Power \/ Traffic

Spec == Init /\ [][Next]_vars

\* Timers expire, their handlers get the lock, a callback that started goes
\* on, and NDIS gives received frames back.
Fairness ==
    /\ WF_vars(MpSmDispatcher) /\ WF_vars(TimerExpires)
    /\ WF_vars(MpResetEx) /\ WF_vars(MpResetExSetState)
    /\ WF_vars(MpReturnNetBufferLists) /\ WF_vars(MpSetPowerGoesOn)
FairSpec == Spec /\ Fairness

-----------------------------------------------------------------------------
(* Properties. *)

SmTyped ==
    /\ SM_CurrentState \in SmStates /\ SM_NextState \in SmStates
    /\ SM_OnResetPreviousState \in SmStates
    /\ timer \in {"off", "now", "later"} /\ fired \in 0..MaxFired
    /\ ndis \in NdisPhases
FlagsTyped ==
    /\ SM_EnetHaltedEvent \in BOOLEAN /\ OP_RESET \in BOOLEAN
    /\ EnetStarted \in BOOLEAN /\ RestartEnetAfterResume \in BOOLEAN
StatusTyped ==
    /\ LinkState \in LinkStates /\ PHYDev_LinkState \in LinkStates /\ ndisLink \in LinkStates
    /\ NdisStatus \in NdisStatuses
    /\ CurrentPowerState \in {"D0", "D3"}
    /\ pwPc \in {"idle", "start", "stop", "cancel", "wait", "finish"}
CountersTyped ==
    /\ Tx_qMpOwnedBDs \in Nat /\ Tx_qDmaOwnedBDs \in Nat
    /\ Tx_EnetFreeBDCount \in 0..TxRing /\ Tx_CheckForHangCounter \in Nat
    /\ Rx_NdisOwnedBDsCount \in Int /\ rxHeld \in 0..MaxRx

\* Every variable is of its type and every counter in its range.
TypeOK == SmTyped /\ FlagsTyped /\ StatusTyped /\ CountersTyped

\* The transitions the handlers have a case for; any other one is ASSERT(0).
HandledTransitions ==
    {<<"PAUSED", "RUNNING">>, <<"RUNNING", "RUNNING">>,
     <<"RUNNING", "PAUSING">>, <<"PAUSED", "PAUSING">>, <<"RESET", "PAUSING">>,
     <<"PAUSING", "PAUSING">>, <<"PAUSING", "PAUSED">>, <<"PAUSED", "HALTED">>,
     <<"RUNNING", "RESET">>}

\* Whenever a run of MpSmDispatcher is still to come, it has a case for the
\* transition it will make: no NDIS callback, in whatever order it meets the
\* ticks of the state machine and the expiries that could not be taken back,
\* leads a handler to its ASSERT(0), and no reset starts outside RUNNING.
NoUnexpectedTransition ==
    (fired > 0 \/ timer # "off") => <<SM_CurrentState, SM_NextState>> \in HandledTransitions

\* The timer handlers still to come: the armed timer and the expiries waiting.
Outstanding == fired + (IF timer = "off" THEN 0 ELSE 1)

At(current, next) == SM_CurrentState = current /\ SM_NextState = next

\* OP_RESET is set from MpResetEx to the completion of the reset, which
\* remembers all along that it came from RUNNING.
ResetInv ==
    /\ OP_RESET <=> ndis \in {"ResetCall", "Resetting"}
    /\ (ndis = "Resetting" /\ SM_NextState # "RESET") => SM_OnResetPreviousState = "RUNNING"

PhaseInv ==
    \/ /\ ndis = "Paused" /\ At("PAUSED", "PAUSED") /\ Outstanding = 0
    \/ /\ ndis = "Running" /\ At("PAUSED", "RUNNING")
       /\ Outstanding = 1 /\ timer # "later"
    \/ /\ ndis \in {"Running", "Hung", "ResetCall"} /\ At("RUNNING", "RUNNING")
       /\ Outstanding = 1 /\ timer # "now"
    \/ /\ \/ ndis = "Pausing"   /\ (At("RUNNING", "PAUSING") \/ At("PAUSED", "PAUSING"))
          \/ ndis = "Resetting" /\ (At("RUNNING", "RESET") \/ At("RESET", "PAUSING"))
       /\ Outstanding \in 1..2 /\ timer # "later"
    \/ /\ ndis \in {"Pausing", "Resetting"} /\ At("PAUSING", "PAUSING")
       /\ Outstanding \in 1..2 /\ fired <= 1 /\ timer # "now"
    \/ /\ ndis \in {"Pausing", "Resetting"} /\ At("PAUSING", "PAUSED")
       /\ Outstanding = 1 /\ timer # "later"
    \/ /\ ndis \in {"Halting", "Leaked"} /\ At("PAUSED", "HALTED")
       /\ Outstanding = 1 /\ ~SM_EnetHaltedEvent
    \/ /\ ndis \in {"Halting", "Freed", "Leaked"} /\ At("HALTED", "HALTED")
       /\ Outstanding = 0 /\ SM_EnetHaltedEvent

\* What NDIS believes, where the state machine is and how many runs of its
\* handler are still to come fit together: at most one, but for the steps after
\* a callback that met an expiry it could not take back, when there may be two;
\* none once a pause or a halt is done. A reset remembers that it came from
\* RUNNING until it completes.
ControlInv == ResetInv /\ PhaseInv

\* The adapter block, which holds the timer's context, is freed only when no
\* run of the timer handler is outstanding (MpHaltEx, MpFreeAdapter).
NoTimerAfterFree == ndis = "Freed" => fired = 0 /\ timer = "off"

\* NdisMPauseComplete is called only when the data path is stopped and NDIS has
\* all its sent frames and the driver all its received frames back.
QuiescentWhenPaused ==
    ndis = "Paused" => ~EnetStarted /\ ~IsAnyTxFrameQueued /\ rxHeld = 0

\* IsRxFramePandingInNdis says TRUE exactly when NDIS holds a received frame.
RxPendingIsAccurate == IsRxFramePandingInNdis <=> rxHeld > 0

\* A pause completes only on a quiescent adapter, and what MpOnPausingStateHandler
\* waits for is neither less than the frames NDIS has, which would end the pause
\* early, nor more, which would make it wait for ever.
PauseIsQuiescent == QuiescentWhenPaused /\ RxPendingIsAccurate

\* In RUNNING, between two runs of the state machine, the data path is started
\* whenever the link the state machine last saw is connected: no order of flaps,
\* resets, pauses, restarts and power transitions leaves a connected adapter of
\* full power stopped.
StartedWhenConnected ==
    (/\ SM_CurrentState = "RUNNING" /\ SM_NextState = "RUNNING" /\ IsConnected(LinkState)
     /\ CurrentPowerState = "D0" /\ pwPc = "idle")
        => EnetStarted

\* Whenever the adapter takes its link for connected, that link, with its speed and
\* duplex mode, is the one NDIS was last told of (MpIndicateLinkStatus): no order of
\* flaps, pauses, resets and power transitions loses the report of a new link. The
\* converse is false: MpOnRunningStateHandler does not report a link lost in a pause.
ConnectedIsReported == IsConnected(LinkState) => ndisLink = LinkState

\* Every MpPause is completed (NdisMPauseComplete).
PauseCompletes == ndis = "Pausing" ~> ndis = "Paused"

\* A start of the data path with frames in NDIS has zeroed the driver's count of them.
RxMiscounted == Rx_NdisOwnedBDsCount # rxHeld

\* Every reset NDIS decides on after MpCheckForHangEx is completed
\* (NdisMResetComplete), through the wait for received frames, unless it gets there
\* with a count that is wrong: MpOnPausingStateHandler then waits for ever.
ResetCompletes ==
    ndis = "Hung" ~> ndis = "Running" \/ (SM_CurrentState = "PAUSING" /\ RxMiscounted)

\* Every MpSetPower returns, whatever NDIS was sending, unless the state machine has
\* started the data path again while MpSetPower waits for it to drain.
PowerRequestEnds ==
    pwPc # "idle" ~> pwPc = "idle" \/ (pwPc \in {"cancel", "wait"} /\ EnetStarted)

-----------------------------------------------------------------------------
Ndis == INSTANCE NdisMiniport WITH phase <- ndis, ticking <- Outstanding > 0

\* The state machine, its timer and its completions keep what a miniport promises
\* NDIS: NdisMPauseComplete answers a pause and NdisMResetComplete a reset, never
\* the other one's, no run of the timer handler is outstanding after a pause, and
\* the adapter is freed by a halt that waited for the last one.
ImplementsNdis == Ndis!Spec

=============================================================================
