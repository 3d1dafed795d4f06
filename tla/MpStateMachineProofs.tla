------------------------ MODULE MpStateMachineProofs ------------------------
(***************************************************************************)
(* Proofs about MpStateMachine, for every set of link states, every         *)
(* behaviour of the link, every set of phases in which power OIDs arrive    *)
(* and every bound.                                                        *)
(***************************************************************************)
EXTENDS MpStateMachine, TLAPS

USE LinkAssumption, EnvironmentAssumption, BoundAssumption

\* A freshly allocated adapter block (MpAllocAdapterBlock) is well typed.
LEMMA InitTyped == Init => TypeOK
<1> SUFFICES ASSUME Init PROVE TypeOK
  OBVIOUS
<1>1. SmTyped
  BY DEF Init, SmTyped, SmStates, NdisPhases
<1>2. FlagsTyped
  BY DEF Init, FlagsTyped
<1>3. StatusTyped
  BY DEF Init, StatusTyped, NdisStatuses
<1>4. CountersTyped
  BY DEF Init, CountersTyped
<1> QED
  BY <1>1, <1>2, <1>3, <1>4 DEF TypeOK

\* The paused adapter NDIS gets from MpInitializeEx satisfies the control invariant.
LEMMA InitControl == Init => ControlInv
  BY DEF Init, ControlInv, ResetInv, PhaseInv, Outstanding, At

\* MpSendNextNB keeps the counters of the Tx path in their ranges.
LEMMA SendNextNBTyped ==
  ASSUME NEW mp \in Nat, NEW dma \in Nat, NEW free \in 0..TxRing,
         MpSendNextNB(mp, dma, free)
  PROVE  Tx_qMpOwnedBDs' \in Nat /\ Tx_qDmaOwnedBDs' \in Nat /\ Tx_EnetFreeBDCount' \in 0..TxRing
  BY DEF MpSendNextNB

\* A run of MpSmDispatcher keeps the types: one case per state handler.
LEMMA DispatcherTyped == TypeOK /\ MpSmDispatcher => TypeOK'
<1> SUFFICES ASSUME TypeOK, MpSmDispatcher PROVE TypeOK'
  OBVIOUS
<1> USE DEF TypeOK, MpSmDispatcher, SmSetState, MpIndicateLinkStatus, EnetStart, EnetStop,
            MpTxCancelAll, enetVars, txVars, rxVars, powerVars
<1>0. PHYDev_LinkState' \in LinkStates
  BY DEF MII_StateEngine, StatusTyped
<1>1. CASE SM_NextState = "RUNNING" /\ MpOnRunningStateHandler(SM_CurrentState, PHYDev_LinkState')
  <2>1. SmTyped'
    BY <1>1 DEF MpOnRunningStateHandler, SmTyped, SmStates, NdisPhases
  <2>2. FlagsTyped'
    BY <1>1 DEF MpOnRunningStateHandler, FlagsTyped
  <2>3. StatusTyped'
    BY <1>0, <1>1 DEF MpOnRunningStateHandler, StatusTyped, NdisStatuses
  <2>4. CountersTyped'
    BY <1>1 DEF MpOnRunningStateHandler, CountersTyped
  <2> QED
    BY <2>1, <2>2, <2>3, <2>4
<1>2. CASE SM_NextState = "HALTED" /\ MpOnHaltedStateHandler(SM_CurrentState)
  <2>1. SmTyped'
    BY <1>2 DEF MpOnHaltedStateHandler, SmTyped, SmStates, NdisPhases
  <2>2. FlagsTyped'
    BY <1>2 DEF MpOnHaltedStateHandler, FlagsTyped
  <2>3. StatusTyped'
    BY <1>0, <1>2 DEF MpOnHaltedStateHandler, StatusTyped, NdisStatuses
  <2>4. CountersTyped'
    BY <1>2 DEF MpOnHaltedStateHandler, CountersTyped
  <2> QED
    BY <2>1, <2>2, <2>3, <2>4
<1>3. CASE SM_NextState = "PAUSING" /\ MpOnPausingStateHandler(SM_CurrentState)
  <2>1. SmTyped'
    BY <1>3 DEF MpOnPausingStateHandler, SmTyped, SmStates, NdisPhases
  <2>2. FlagsTyped'
    BY <1>3 DEF MpOnPausingStateHandler, FlagsTyped
  <2>3. StatusTyped'
    BY <1>0, <1>3 DEF MpOnPausingStateHandler, StatusTyped, NdisStatuses
  <2>4. CountersTyped'
    BY <1>3 DEF MpOnPausingStateHandler, CountersTyped
  <2> QED
    BY <2>1, <2>2, <2>3, <2>4
<1>4. CASE SM_NextState = "PAUSED" /\ MpOnPausedStateHandler(SM_CurrentState)
  <2>1. SmTyped'
    BY <1>4 DEF MpOnPausedStateHandler, SmTyped, SmStates, NdisPhases
  <2>2. FlagsTyped'
    BY <1>4 DEF MpOnPausedStateHandler, FlagsTyped
  <2>3. StatusTyped'
    BY <1>0, <1>4 DEF MpOnPausedStateHandler, StatusTyped, NdisStatuses
  <2>4. CountersTyped'
    BY <1>4 DEF MpOnPausedStateHandler, CountersTyped
  <2> QED
    BY <2>1, <2>2, <2>3, <2>4
<1>5. CASE SM_NextState = "RESET" /\ MpOnResetStateHandler(SM_CurrentState)
  <2>1. SmTyped'
    BY <1>5 DEF MpOnResetStateHandler, SmTyped, SmStates, NdisPhases
  <2>2. FlagsTyped'
    BY <1>5 DEF MpOnResetStateHandler, FlagsTyped
  <2>3. StatusTyped'
    BY <1>0, <1>5 DEF MpOnResetStateHandler, StatusTyped, NdisStatuses
  <2>4. CountersTyped'
    BY <1>5 DEF MpOnResetStateHandler, CountersTyped
  <2> QED
    BY <2>1, <2>2, <2>3, <2>4
<1> QED
  BY <1>1, <1>2, <1>3, <1>4, <1>5

\* Every step keeps the types: one case per group of callbacks.
LEMMA TypePreserved == TypeOK /\ [Next]_vars => TypeOK'
<1> SUFFICES ASSUME TypeOK, [Next]_vars PROVE TypeOK'
  OBVIOUS
<1> USE DEF TypeOK, smVars, linkVars, enetVars, txVars, rxVars, powerVars
<1>1. CASE MpSmDispatcher
  BY <1>1, DispatcherTyped
<1>2. CASE TimerExpires
  <2>1. SmTyped'
    BY <1>2 DEF TimerExpires,
       SmTyped, SmStates, NdisPhases
  <2>2. FlagsTyped'
    BY <1>2 DEF TimerExpires, FlagsTyped
  <2>3. StatusTyped'
    BY <1>2 DEF TimerExpires, StatusTyped, NdisStatuses
  <2>4. CountersTyped'
    BY <1>2 DEF TimerExpires, CountersTyped
  <2> QED
    BY <2>1, <2>2, <2>3, <2>4
<1>3. CASE NdisCallback
  <2>1. SmTyped'
    BY <1>3 DEF NdisCallback, MpPause, MpRestart, MpResetEx, MpResetExSetState,
       MpHaltEx, MpHaltExReturn, MpCheckForHangEx, SmSetStateByNdis, SmSetState,
       SmTyped, SmStates, NdisPhases
  <2>2. FlagsTyped'
    BY <1>3 DEF NdisCallback, MpPause, MpRestart, MpResetEx, MpResetExSetState,
       MpHaltEx, MpHaltExReturn, MpCheckForHangEx, SmSetStateByNdis, SmSetState, FlagsTyped
  <2>3. StatusTyped'
    BY <1>3 DEF NdisCallback, MpPause, MpRestart, MpResetEx, MpResetExSetState,
       MpHaltEx, MpHaltExReturn, MpCheckForHangEx, SmSetStateByNdis, SmSetState, StatusTyped, NdisStatuses
  <2>4. CountersTyped'
    BY <1>3 DEF NdisCallback, MpPause, MpRestart, MpResetEx, MpResetExSetState,
       MpHaltEx, MpHaltExReturn, MpCheckForHangEx, SmSetStateByNdis, SmSetState, CountersTyped
  <2> QED
    BY <2>1, <2>2, <2>3, <2>4
<1>4. CASE Power
  <2>1. SmTyped'
    BY <1>4 DEF Power, MpSetPowerGoesOn, MpSetPowerD0, MpSetPowerD3, EnterD3, MpSetPowerStart,
       MpSetPowerStop, MpSetPowerCancel, MpSetPowerWait, MpSetPowerFinish, MpIndicateLinkStatus,
       EnetStart, EnetStop, MpTxCancelAll,
       SmTyped, SmStates, NdisPhases
  <2>2. FlagsTyped'
    BY <1>4 DEF Power, MpSetPowerGoesOn, MpSetPowerD0, MpSetPowerD3, EnterD3, MpSetPowerStart,
       MpSetPowerStop, MpSetPowerCancel, MpSetPowerWait, MpSetPowerFinish, MpIndicateLinkStatus,
       EnetStart, EnetStop, MpTxCancelAll, FlagsTyped
  <2>3. StatusTyped'
    BY <1>4 DEF Power, MpSetPowerGoesOn, MpSetPowerD0, MpSetPowerD3, EnterD3, MpSetPowerStart,
       MpSetPowerStop, MpSetPowerCancel, MpSetPowerWait, MpSetPowerFinish, MpIndicateLinkStatus,
       EnetStart, EnetStop, MpTxCancelAll, StatusTyped, NdisStatuses
  <2>4. CountersTyped'
    BY <1>4 DEF Power, MpSetPowerGoesOn, MpSetPowerD0, MpSetPowerD3, EnterD3, MpSetPowerStart,
       MpSetPowerStop, MpSetPowerCancel, MpSetPowerWait, MpSetPowerFinish, MpIndicateLinkStatus,
       EnetStart, EnetStop, MpTxCancelAll, CountersTyped
  <2> QED
    BY <2>1, <2>2, <2>3, <2>4
<1>5. CASE MpSendNetBufferLists
  <2>1. Tx_qMpOwnedBDs' \in Nat /\ Tx_qDmaOwnedBDs' \in Nat /\ Tx_EnetFreeBDCount' \in 0..TxRing
    BY <1>5, SendNextNBTyped DEF MpSendNetBufferLists, CountersTyped
  <2> QED
    BY <1>5, <2>1 DEF MpSendNetBufferLists, SmTyped, FlagsTyped, StatusTyped, CountersTyped
<1>6. CASE MpHandleTxInterrupt
  <2>1. Tx_qMpOwnedBDs' \in Nat /\ Tx_qDmaOwnedBDs' \in Nat /\ Tx_EnetFreeBDCount' \in 0..TxRing
    BY <1>6, SendNextNBTyped DEF MpHandleTxInterrupt, CountersTyped
  <2> QED
    BY <1>6, <2>1 DEF MpHandleTxInterrupt, SmTyped, FlagsTyped, StatusTyped, CountersTyped
<1>7. CASE MpHandleRecvInterrupt \/ MpReturnNetBufferLists
  BY <1>7 DEF MpHandleRecvInterrupt, MpReturnNetBufferLists,
     SmTyped, FlagsTyped, StatusTyped, CountersTyped
<1>8. CASE UNCHANGED vars
  BY <1>8 DEF vars, SmTyped, FlagsTyped, StatusTyped, CountersTyped
<1> QED
  BY <1>1, <1>2, <1>3, <1>4, <1>5, <1>6, <1>7, <1>8 DEF Next, Traffic

\* A run of MpSmDispatcher, whichever handler it calls, keeps NDIS, the state
\* machine and its timer in step: one case per handler.
LEMMA DispatcherControl == TypeOK /\ ControlInv /\ MpSmDispatcher => ControlInv'
<1> SUFFICES ASSUME TypeOK, ControlInv, MpSmDispatcher PROVE ControlInv'
  OBVIOUS
<1> USE DEF TypeOK, SmTyped, SmStates, ControlInv, MpSmDispatcher, SmSetState, Outstanding, At
<1>1. CASE SM_NextState = "RUNNING" /\ MpOnRunningStateHandler(SM_CurrentState, PHYDev_LinkState')
  <2>1. ResetInv'
    BY <1>1 DEF MpOnRunningStateHandler, ResetInv, PhaseInv
  <2>2. PhaseInv'
    BY <1>1 DEF MpOnRunningStateHandler, ResetInv, PhaseInv
  <2> QED
    BY <2>1, <2>2
<1>2. CASE SM_NextState = "HALTED" /\ MpOnHaltedStateHandler(SM_CurrentState)
  <2>1. ResetInv'
    BY <1>2 DEF MpOnHaltedStateHandler, ResetInv, PhaseInv
  <2>2. PhaseInv'
    BY <1>2 DEF MpOnHaltedStateHandler, ResetInv, PhaseInv
  <2> QED
    BY <2>1, <2>2
<1>3. CASE SM_NextState = "PAUSING" /\ MpOnPausingStateHandler(SM_CurrentState)
  <2>1. ResetInv'
    BY <1>3 DEF MpOnPausingStateHandler, ResetInv, PhaseInv
  <2>2. PhaseInv'
    BY <1>3 DEF MpOnPausingStateHandler, ResetInv, PhaseInv
  <2> QED
    BY <2>1, <2>2
<1>4. CASE SM_NextState = "PAUSED" /\ MpOnPausedStateHandler(SM_CurrentState)
  <2>1. ResetInv'
    BY <1>4 DEF MpOnPausedStateHandler, ResetInv, PhaseInv
  <2>2. PhaseInv'
    BY <1>4 DEF MpOnPausedStateHandler, ResetInv, PhaseInv
  <2> QED
    BY <2>1, <2>2
<1>5. CASE SM_NextState = "RESET" /\ MpOnResetStateHandler(SM_CurrentState)
  <2>1. ResetInv'
    BY <1>5 DEF MpOnResetStateHandler, ResetInv, PhaseInv
  <2>2. PhaseInv'
    BY <1>5 DEF MpOnResetStateHandler, ResetInv, PhaseInv
  <2> QED
    BY <2>1, <2>2
<1> QED
  BY <1>1, <1>2, <1>3, <1>4, <1>5

\* Every step keeps the control invariant; only the dispatcher, the timer and
\* the NDIS callbacks can disturb it.
LEMMA ControlPreserved == TypeOK /\ ControlInv /\ [Next]_vars => ControlInv'
<1> SUFFICES ASSUME TypeOK, ControlInv, [Next]_vars PROVE ControlInv'
  OBVIOUS
<1> USE DEF TypeOK, SmTyped, SmStates, ControlInv, Outstanding, At
<1>1. CASE MpSmDispatcher
  BY <1>1, DispatcherControl
<1>2. CASE TimerExpires
  BY <1>2 DEF TimerExpires, ResetInv, PhaseInv
<1>3. CASE MpPause \/ MpRestart
  BY <1>3 DEF MpPause, MpRestart, SmSetStateByNdis, SmSetState, ResetInv, PhaseInv
<1>4. CASE MpResetEx \/ MpResetExSetState
  BY <1>4 DEF MpResetEx, MpResetExSetState, SmSetStateByNdis, SmSetState, smVars,
     ResetInv, PhaseInv
<1>5. CASE MpHaltEx \/ MpHaltExReturn
  BY <1>5 DEF MpHaltEx, MpHaltExReturn, SmSetStateByNdis, SmSetState, smVars,
     ResetInv, PhaseInv
<1>6. CASE MpCheckForHangEx
  BY <1>6 DEF MpCheckForHangEx, smVars, ResetInv, PhaseInv
<1>7. ASSUME UNCHANGED <<smVars, OP_RESET, ndis>> PROVE ControlInv'
  BY <1>7 DEF smVars, ResetInv, PhaseInv
<1>8. CASE Power
  BY <1>7, <1>8 DEF Power, MpSetPowerGoesOn, MpSetPowerD0, MpSetPowerD3, MpSetPowerStart, MpSetPowerStop,
     MpSetPowerCancel, MpSetPowerWait, MpSetPowerFinish
<1>9. CASE Traffic
  BY <1>7, <1>9 DEF Traffic, MpSendNetBufferLists, MpHandleTxInterrupt, MpHandleRecvInterrupt,
     MpReturnNetBufferLists
<1>10. CASE UNCHANGED vars
  BY <1>7, <1>10 DEF vars
<1> QED
  BY <1>1, <1>2, <1>3, <1>4, <1>5, <1>6, <1>8, <1>9, <1>10 DEF Next, NdisCallback

\* Every variable keeps its type: no callback, tick, power step or frame takes
\* a counter of the data path out of its range.
THEOREM TypeCorrect == Spec => []TypeOK
  BY InitTyped, TypePreserved, PTL DEF Spec

\* The phase NDIS is in, the place of the state machine and the number of timer
\* handlers still to run agree in every reachable state.
THEOREM ControlCorrect == Spec => []ControlInv
<1>1. Spec => [](TypeOK /\ ControlInv)
  BY InitTyped, InitControl, TypePreserved, ControlPreserved, PTL DEF Spec
<1> QED
  BY <1>1, PTL

\* No handler of MpSmDispatcher reaches its ASSERT(0).
THEOREM TransitionsHandled == Spec => []NoUnexpectedTransition
<1>1. TypeOK /\ ControlInv => NoUnexpectedTransition
  BY DEF TypeOK, SmTyped, ControlInv, PhaseInv, Outstanding, At, NoUnexpectedTransition,
     HandledTransitions
<1> QED
  BY <1>1, TypeCorrect, ControlCorrect, PTL

\* MpFreeAdapter never frees the block under a timer handler still to run.
THEOREM TimerStopsBeforeFree == Spec => []NoTimerAfterFree
<1>1. TypeOK /\ ControlInv => NoTimerAfterFree
  BY DEF TypeOK, SmTyped, ControlInv, PhaseInv, Outstanding, At, NoTimerAfterFree
<1> QED
  BY <1>1, TypeCorrect, ControlCorrect, PTL

-----------------------------------------------------------------------------
(* The state machine implements NdisMiniport. *)

\* A step that leaves NDIS's phase, the timer and its expiries alone is a stutter
\* of the lifecycle.
LEMMA UntouchedIsStutter ==
    UNCHANGED <<ndis, timer, fired>> => UNCHANGED Ndis!vars
  BY DEF Ndis!vars, Outstanding

\* Every run of MpSmDispatcher completes the request NDIS waits for, or none.
LEMMA DispatcherAnswers ==
    TypeOK /\ ControlInv /\ MpSmDispatcher => [Ndis!Next]_(Ndis!vars)
<1> SUFFICES ASSUME TypeOK, ControlInv, MpSmDispatcher PROVE [Ndis!Next]_(Ndis!vars)
  OBVIOUS
<1> USE DEF TypeOK, SmTyped, SmStates, ControlInv, MpSmDispatcher, SmSetState, Outstanding, At,
            ResetInv, PhaseInv, Ndis!vars
<1>1. CASE SM_NextState = "RUNNING" /\ MpOnRunningStateHandler(SM_CurrentState, PHYDev_LinkState')
  BY <1>1 DEF MpOnRunningStateHandler
<1>2. CASE SM_NextState = "HALTED" /\ MpOnHaltedStateHandler(SM_CurrentState)
  <2>1. Ndis!Stopped
    BY <1>2 DEF MpOnHaltedStateHandler, Ndis!Stopped
  <2> QED
    BY <2>1 DEF Ndis!Next
<1>3. CASE SM_NextState = "PAUSING" /\ MpOnPausingStateHandler(SM_CurrentState)
  BY <1>3 DEF MpOnPausingStateHandler
<1>4. CASE SM_NextState = "PAUSED" /\ MpOnPausedStateHandler(SM_CurrentState)
  <2>1. SM_CurrentState = "PAUSING" /\ fired = 1 /\ timer = "off"
    BY <1>4
  <2>2. CASE OP_RESET
    <3>1. Ndis!ResetComplete
      BY <1>4, <2>1, <2>2 DEF MpOnPausedStateHandler, Ndis!ResetComplete, Ndis!Moves
    <3> QED
      BY <3>1 DEF Ndis!Next
  <2>3. CASE ~OP_RESET
    <3>1. Ndis!PauseComplete
      BY <1>4, <2>1, <2>3 DEF MpOnPausedStateHandler, Ndis!PauseComplete, Ndis!Moves
    <3> QED
      BY <3>1 DEF Ndis!Next
  <2> QED
    BY <2>2, <2>3
<1>5. CASE SM_NextState = "RESET" /\ MpOnResetStateHandler(SM_CurrentState)
  BY <1>5 DEF MpOnResetStateHandler
<1> QED
  BY <1>1, <1>2, <1>3, <1>4, <1>5

\* Every other step is the move of NDIS it stands for, or a stutter.
LEMMA StepRefines == TypeOK /\ ControlInv /\ [Next]_vars => [Ndis!Next]_(Ndis!vars)
<1> SUFFICES ASSUME TypeOK, ControlInv, [Next]_vars PROVE [Ndis!Next]_(Ndis!vars)
  OBVIOUS
<1> USE DEF TypeOK, SmTyped, ControlInv, Outstanding, At, PhaseInv, Ndis!Moves
<1>1. CASE MpSmDispatcher
  BY <1>1, DispatcherAnswers
<1>2. CASE TimerExpires
  BY <1>2 DEF TimerExpires, Ndis!vars
<1>3. CASE MpPause
  BY <1>3 DEF MpPause, SmSetStateByNdis, SmSetState, Ndis!Next, Ndis!Pause
<1>4. CASE MpRestart
  BY <1>4 DEF MpRestart, SmSetStateByNdis, SmSetState, Ndis!Next, Ndis!Restart
<1>5. CASE MpResetEx
  BY <1>5 DEF MpResetEx, smVars, Ndis!Next, Ndis!ResetCall
<1>6. CASE MpResetExSetState
  BY <1>6 DEF MpResetExSetState, SmSetStateByNdis, SmSetState, Ndis!Next, Ndis!ResetPending
<1>7. CASE MpHaltEx
  BY <1>7 DEF MpHaltEx, SmSetStateByNdis, SmSetState, Ndis!Next, Ndis!Halt
<1>8. CASE MpHaltExReturn
  BY <1>8 DEF MpHaltExReturn, smVars, Ndis!Next, Ndis!Free, Ndis!Leak
<1>9. CASE MpCheckForHangEx
  BY <1>9, UntouchedIsStutter DEF MpCheckForHangEx, smVars, Ndis!Next, Ndis!Hang
<1>10. CASE Power
  BY <1>10, UntouchedIsStutter DEF Power, MpSetPowerGoesOn, MpSetPowerD0, MpSetPowerD3, MpSetPowerStart,
     MpSetPowerStop, MpSetPowerCancel, MpSetPowerWait, MpSetPowerFinish, smVars
<1>11. CASE Traffic
  BY <1>11, UntouchedIsStutter DEF Traffic, MpSendNetBufferLists, MpHandleTxInterrupt,
     MpHandleRecvInterrupt, MpReturnNetBufferLists, smVars
<1>12. CASE UNCHANGED vars
  BY <1>12, UntouchedIsStutter DEF vars, smVars
<1> QED
  BY <1>1, <1>2, <1>3, <1>4, <1>5, <1>6, <1>7, <1>8, <1>9, <1>10, <1>11, <1>12
     DEF Next, NdisCallback

\* MpSmDispatcher and the NDIS callbacks implement the lifecycle NDIS relies on:
\* every completion answers the request that is pending, and no timer handler
\* outlives a pause or a freed adapter.
THEOREM LifecycleImplemented == Spec => ImplementsNdis
<1>1. Init => Ndis!Init
  BY DEF Init, Ndis!Init, Outstanding
<1>2. TypeOK /\ ControlInv /\ [Next]_vars => [Ndis!Next]_(Ndis!vars)
  BY StepRefines
<1> QED
  BY <1>1, <1>2, TypeCorrect, ControlCorrect, PTL DEF Spec, ImplementsNdis, Ndis!Spec

-----------------------------------------------------------------------------
(* The data path follows the link. *)

\* In RUNNING a connected adapter has a started data path, in D3 too, but for
\* the stretch of MpSetPower from its EnetStop to its zeroing of LinkState.
StartedInv ==
    (At("RUNNING", "RUNNING") /\ IsConnected(LinkState) /\ pwPc \in {"idle", "start", "stop"})
        => EnetStarted

\* Every step keeps StartedInv: the dispatcher starts the data path or leaves the
\* state, MpSetPower stops it only on its way to a disconnected LinkState.
LEMMA StartedPreserved ==
    TypeOK /\ ControlInv /\ StartedInv /\ [Next]_vars => StartedInv'
<1> SUFFICES ASSUME TypeOK, ControlInv, StartedInv, [Next]_vars PROVE StartedInv'
  OBVIOUS
<1> USE DEF StartedInv, At, IsConnected
<1>1. CASE MpSmDispatcher
  <2>1. CASE SM_NextState = "RUNNING" /\ MpOnRunningStateHandler(SM_CurrentState, PHYDev_LinkState')
    <3>1. SM_CurrentState \in {"PAUSED", "RUNNING"}
      BY <2>1 DEF ControlInv, PhaseInv
    <3>2. CASE SM_CurrentState = "PAUSED"
      BY <1>1, <2>1, <3>2 DEF MpSmDispatcher, MpOnRunningStateHandler, EnetStart
    <3>3. CASE SM_CurrentState = "RUNNING" /\ LinkState # PHYDev_LinkState'
      BY <1>1, <2>1, <3>3 DEF MpSmDispatcher, MpOnRunningStateHandler, EnetStart
    <3>4. CASE SM_CurrentState = "RUNNING" /\ LinkState = PHYDev_LinkState'
      BY <1>1, <2>1, <3>4 DEF MpSmDispatcher, MpOnRunningStateHandler, enetVars, powerVars
    <3> QED
      BY <3>1, <3>2, <3>3, <3>4
  <2>2. CASE SM_NextState # "RUNNING"
    BY <1>1, <2>2 DEF MpSmDispatcher
  <2> QED
    BY <1>1, <2>1, <2>2 DEF MpSmDispatcher
<1>2. ASSUME UNCHANGED <<SM_CurrentState, LinkState, EnetStarted, pwPc>>,
             SM_NextState' = SM_NextState \/ SM_NextState' # "RUNNING" \/ SM_CurrentState # "RUNNING"
      PROVE  StartedInv'
  BY <1>2
<1>3. CASE TimerExpires
  BY <1>2, <1>3 DEF TimerExpires, linkVars, enetVars, powerVars
<1>4. CASE MpPause \/ MpResetExSetState \/ MpHaltEx
  BY <1>2, <1>4 DEF MpPause, MpResetExSetState, MpHaltEx, SmSetStateByNdis, SmSetState,
     linkVars, enetVars, powerVars
<1>5. CASE MpRestart
  <2>1. SM_CurrentState = "PAUSED"
    BY <1>5 DEF MpRestart, ControlInv, PhaseInv
  <2> QED
    BY <1>2, <1>5, <2>1 DEF MpRestart, SmSetStateByNdis, SmSetState, linkVars, enetVars, powerVars
<1>6. CASE MpResetEx \/ MpHaltExReturn \/ MpCheckForHangEx
  BY <1>2, <1>6 DEF MpResetEx, MpHaltExReturn, MpCheckForHangEx, smVars, linkVars, enetVars, powerVars
<1>7. CASE MpSetPowerD0
  BY <1>7 DEF MpSetPowerD0, smVars, linkVars, enetVars
<1>8. ASSUME EnterD3 PROVE StartedInv'
  BY <1>8 DEF EnterD3
<1>9. CASE MpSetPowerD3
  BY <1>8, <1>9 DEF MpSetPowerD3, smVars, linkVars, enetVars
<1>10. CASE MpSetPowerStart
  BY <1>10 DEF MpSetPowerStart, EnetStart
<1>11. CASE MpSetPowerStop \/ MpSetPowerCancel \/ MpSetPowerWait
  BY <1>11 DEF MpSetPowerStop, MpSetPowerCancel, MpSetPowerWait
<1>12. CASE MpSetPowerFinish
  BY <1>8, <1>12 DEF MpSetPowerFinish
<1>13. CASE Traffic
  BY <1>2, <1>13 DEF Traffic, MpSendNetBufferLists, MpHandleTxInterrupt, MpHandleRecvInterrupt,
     MpReturnNetBufferLists, smVars, linkVars, enetVars, powerVars
<1>14. CASE UNCHANGED vars
  BY <1>2, <1>14 DEF vars, smVars, linkVars, enetVars, powerVars
<1> QED
  BY <1>1, <1>3, <1>4, <1>5, <1>6, <1>7, <1>9, <1>10, <1>11, <1>12, <1>13, <1>14
     DEF Next, NdisCallback, Power, MpSetPowerGoesOn

\* No order of flaps, resets, pauses, restarts and power transitions leaves a
\* running, connected adapter of full power with a stopped data path.
THEOREM StartedIfConnected == Spec => []StartedWhenConnected
<1>1. Init => StartedInv
  BY DEF Init, StartedInv, At
<1>2. StartedInv => StartedWhenConnected
  BY DEF StartedInv, StartedWhenConnected, At
<1> QED
  BY <1>1, <1>2, StartedPreserved, TypeCorrect, ControlCorrect, PTL DEF Spec

-----------------------------------------------------------------------------
(* What NDIS was told of the link. *)

\* A run of the state machine keeps ConnectedIsReported: RUNNING after PAUSED is
\* silent on a lost link only, and on the link NDIS already knows.
LEMMA DispatcherReports ==
    ASSUME ControlInv, ConnectedIsReported, MpSmDispatcher
    PROVE  ConnectedIsReported'
<1> USE DEF ConnectedIsReported, IsConnected
<1>1. CASE SM_NextState = "RUNNING" /\ MpOnRunningStateHandler(SM_CurrentState, PHYDev_LinkState')
  <2>1. SM_CurrentState \in {"PAUSED", "RUNNING"} /\ LinkState' = PHYDev_LinkState'
    BY <1>1 DEF ControlInv, PhaseInv, At, MpOnRunningStateHandler
  <2>2. CASE SM_CurrentState = "PAUSED"
    BY <1>1, <2>1, <2>2 DEF MpOnRunningStateHandler, MpIndicateLinkStatus
  <2>3. CASE SM_CurrentState = "RUNNING" /\ LinkState # PHYDev_LinkState'
    BY <1>1, <2>1, <2>3 DEF MpOnRunningStateHandler, MpIndicateLinkStatus
  <2>4. CASE SM_CurrentState = "RUNNING" /\ LinkState = PHYDev_LinkState'
    BY <1>1, <2>1, <2>4 DEF MpOnRunningStateHandler
  <2> QED
    BY <2>1, <2>2, <2>3, <2>4
<1>2. CASE SM_NextState # "RUNNING"
  BY <1>2 DEF MpSmDispatcher, MpOnHaltedStateHandler, MpOnPausingStateHandler,
     MpOnPausedStateHandler, MpOnResetStateHandler
<1> QED
  BY <1>1, <1>2 DEF MpSmDispatcher

\* Every step keeps ConnectedIsReported.
LEMMA ReportPreserved ==
    ControlInv /\ ConnectedIsReported /\ [Next]_vars => ConnectedIsReported'
<1> SUFFICES ASSUME ControlInv, ConnectedIsReported, [Next]_vars PROVE ConnectedIsReported'
  OBVIOUS
<1> USE DEF ConnectedIsReported, IsConnected
<1>1. CASE MpSmDispatcher
  BY <1>1, DispatcherReports
<1>2. ASSUME UNCHANGED linkVars PROVE ConnectedIsReported'
  BY <1>2 DEF linkVars
<1>3. CASE TimerExpires \/ NdisCallback
  BY <1>2, <1>3 DEF TimerExpires, NdisCallback, MpPause, MpRestart, MpResetEx, MpResetExSetState,
     MpHaltEx, MpHaltExReturn, MpCheckForHangEx
<1>4. ASSUME EnterD3 PROVE ConnectedIsReported'
  BY <1>4, LinkAssumption DEF EnterD3, MpIndicateLinkStatus
<1>5. CASE MpSetPowerD3 \/ MpSetPowerFinish
  BY <1>2, <1>4, <1>5 DEF MpSetPowerD3, MpSetPowerFinish
<1>6. CASE MpSetPowerD0 \/ MpSetPowerStart \/ MpSetPowerStop \/ MpSetPowerCancel \/ MpSetPowerWait
  BY <1>2, <1>6 DEF MpSetPowerD0, MpSetPowerStart, MpSetPowerStop, MpSetPowerCancel,
     MpSetPowerWait
<1>7. CASE Traffic
  BY <1>2, <1>7 DEF Traffic, MpSendNetBufferLists, MpHandleTxInterrupt, MpHandleRecvInterrupt,
     MpReturnNetBufferLists
<1>8. CASE UNCHANGED vars
  BY <1>2, <1>8 DEF vars
<1> QED
  BY <1>1, <1>3, <1>5, <1>6, <1>7, <1>8 DEF Next, Power, MpSetPowerGoesOn

\* Whatever the PHY finds and loses, and whatever pauses, resets and power transitions
\* come in between, MpOnRunningStateHandler and MpSetPower leave NDIS told of every link
\* the adapter takes for connected.
THEOREM NewLinkReported == Spec => []ConnectedIsReported
<1>1. Init => ConnectedIsReported
  BY LinkAssumption DEF Init, ConnectedIsReported, IsConnected
<1> QED
  BY <1>1, ReportPreserved, ControlCorrect, PTL DEF Spec

-----------------------------------------------------------------------------
(* A pause waits for every frame, when the data path is started once per restart. *)

\* The conditions: a link once found stays as it is, the MAC does not stall, and
\* NDIS pauses the adapter before each power transition.
OneStartPerRestart ==
    /\ \A move \in LinkMoves : ~IsConnected(move[1])
    /\ ~MayStall
    /\ PowerPhases \subseteq {"Paused"}

\* Neither a reset nor MpSetPower ever works on the data path.
UndisturbedInv ==
    /\ pwPc = "idle" /\ ~RestartEnetAfterResume
    /\ ndis \notin {"Hung", "ResetCall", "Resetting"}

\* In RUNNING, LinkState is the PHY's; only there, with a link, is the data path
\* started.
StartInv ==
    /\ SM_CurrentState = "RUNNING" => LinkState = PHYDev_LinkState
    /\ EnetStarted => SM_CurrentState = "RUNNING" /\ IsConnected(LinkState)

\* NDIS holds as many received frames as the driver counts: none before the data
\* path is started, and none once PAUSING has given way to PAUSED.
HeldInv ==
    /\ Rx_NdisOwnedBDsCount = rxHeld
    /\ rxHeld > 0 => \/ SM_CurrentState = "RUNNING" /\ IsConnected(LinkState)
                     \/ At("PAUSING", "PAUSING")
    /\ (ndis = "Paused" \/ At("PAUSING", "PAUSED")) => ~IsAnyTxFrameQueued

QuietInv == UndisturbedInv /\ StartInv /\ HeldInv

\* A run of the state machine keeps QuietInv: one case per handler.
LEMMA DispatcherQuiet ==
    ASSUME OneStartPerRestart, TypeOK, ControlInv, QuietInv, MpSmDispatcher
    PROVE  QuietInv'
<1> USE DEF QuietInv
<1>1. UNCHANGED <<pwPc, RestartEnetAfterResume>> /\ ~OP_RESET /\ SM_CurrentState' = SM_NextState
  BY DEF MpSmDispatcher, powerVars, UndisturbedInv, ControlInv, ResetInv
<1>2. IsConnected(PHYDev_LinkState) => PHYDev_LinkState' = PHYDev_LinkState
  BY DEF OneStartPerRestart, MpSmDispatcher, MII_StateEngine
<1>3. CASE SM_NextState = "RUNNING" /\ MpOnRunningStateHandler(SM_CurrentState, PHYDev_LinkState')
  <2>1. /\ SM_CurrentState \in {"PAUSED", "RUNNING"} /\ LinkState' = PHYDev_LinkState'
        /\ ndis' = ndis /\ ndis # "Paused" /\ SM_NextState' = "RUNNING"
    BY <1>3 DEF ControlInv, PhaseInv, At, MpOnRunningStateHandler, SmSetState
  <2>2. UndisturbedInv'
    BY <1>1, <2>1 DEF UndisturbedInv
  <2>3. CASE SM_CurrentState = "PAUSED" /\ IsConnected(PHYDev_LinkState')
    BY <1>1, <1>3, <2>1, <2>2, <2>3 DEF MpOnRunningStateHandler, EnetStart, StartInv, HeldInv, At,
       TypeOK, CountersTyped, IsConnected
  <2>4. CASE SM_CurrentState = "PAUSED" /\ ~IsConnected(PHYDev_LinkState')
    BY <1>1, <1>3, <2>1, <2>2, <2>4 DEF MpOnRunningStateHandler, enetVars, rxVars, StartInv,
       HeldInv, At, IsConnected
  <2>5. CASE SM_CurrentState = "RUNNING" /\ LinkState # PHYDev_LinkState'
    <3>1. rxHeld = 0
      BY <1>2, <2>5 DEF StartInv, HeldInv, TypeOK, CountersTyped, At
    <3>2. rxHeld' = 0 /\ Rx_NdisOwnedBDsCount' = 0
      BY <1>3, <2>5, <3>1 DEF MpOnRunningStateHandler, EnetStart, EnetStop, rxVars, HeldInv
    <3>3. EnetStarted' => IsConnected(PHYDev_LinkState')
      BY <1>3, <2>5 DEF MpOnRunningStateHandler, EnetStop
    <3> QED
      BY <1>1, <1>3, <2>1, <2>2, <3>2, <3>3 DEF StartInv, HeldInv, At, IsConnected
  <2>6. CASE SM_CurrentState = "RUNNING" /\ LinkState = PHYDev_LinkState'
    BY <1>1, <1>3, <2>1, <2>2, <2>6 DEF MpOnRunningStateHandler, enetVars, rxVars, StartInv,
       HeldInv, At, IsConnected
  <2> QED
    BY <2>1, <2>3, <2>4, <2>5, <2>6
<1>4. CASE SM_NextState = "HALTED" /\ MpOnHaltedStateHandler(SM_CurrentState)
  <2>1. SM_CurrentState = "PAUSED" /\ ndis \notin {"Paused", "Pausing"}
    BY <1>4 DEF ControlInv, PhaseInv, At, Outstanding, MpSmDispatcher, TypeOK, SmTyped
  <2> QED
    BY <1>1, <1>4, <2>1 DEF MpOnHaltedStateHandler, EnetStop, rxVars, UndisturbedInv, StartInv,
       HeldInv, At
<1>5. CASE SM_NextState = "PAUSING" /\ MpOnPausingStateHandler(SM_CurrentState)
  <2>1. SM_CurrentState \in {"RUNNING", "PAUSED", "PAUSING"} /\ ndis = "Pausing" /\ ndis' = ndis
    BY <1>5 DEF ControlInv, PhaseInv, At, UndisturbedInv, MpOnPausingStateHandler
  <2>2. UndisturbedInv'
    BY <1>1, <2>1 DEF UndisturbedInv
  <2>3. CASE SM_CurrentState \in {"RUNNING", "PAUSED"}
    BY <1>1, <1>5, <2>1, <2>2, <2>3 DEF MpOnPausingStateHandler, EnetStop, rxVars, SmSetState,
       StartInv, HeldInv, At
  <2>4. CASE SM_CurrentState = "PAUSING"
    <3>1. UNCHANGED <<EnetStarted, rxHeld, Rx_NdisOwnedBDsCount>> /\ ~EnetStarted
      BY <1>5, <2>4 DEF MpOnPausingStateHandler, enetVars, rxVars, StartInv
    <3>2. Tx_qMpOwnedBDs' = 0 /\ Tx_qDmaOwnedBDs' = 0
      BY <1>5, <2>4 DEF MpOnPausingStateHandler, MpTxCancelAll
    <3>3. CASE IsRxFramePandingInNdis
      BY <1>1, <1>5, <2>1, <2>2, <2>4, <3>1, <3>2, <3>3 DEF MpOnPausingStateHandler, SmSetState,
         StartInv, HeldInv, At, IsAnyTxFrameQueued
    <3>4. CASE ~IsRxFramePandingInNdis
      BY <1>1, <1>5, <2>1, <2>2, <3>1, <3>2, <3>4 DEF StartInv, HeldInv, At, IsAnyTxFrameQueued,
         IsRxFramePandingInNdis
    <3> QED
      BY <3>3, <3>4
  <2> QED
    BY <2>1, <2>3, <2>4
<1>6. CASE SM_NextState = "PAUSED" /\ MpOnPausedStateHandler(SM_CurrentState)
  <2>1. SM_CurrentState = "PAUSING"
    BY <1>6 DEF ControlInv, PhaseInv, At, Outstanding, MpSmDispatcher, TypeOK, SmTyped
  <2>2. /\ ndis' = "Paused" /\ SM_NextState' = "PAUSED"
        /\ UNCHANGED <<enetVars, txVars, rxVars>>
    BY <1>1, <1>6, <2>1 DEF MpOnPausedStateHandler
  <2> QED
    BY <1>1, <1>6, <2>1, <2>2 DEF enetVars, txVars, rxVars, UndisturbedInv, StartInv, HeldInv, At,
       IsAnyTxFrameQueued
<1>7. SM_NextState # "RESET"
  BY DEF ControlInv, PhaseInv, At, UndisturbedInv
<1> QED
  BY <1>3, <1>4, <1>5, <1>6, <1>7 DEF MpSmDispatcher

\* Every step keeps QuietInv: received frames come only in RUNNING with a link,
\* sent ones only while NDIS has the adapter running.
LEMMA QuietPreserved ==
    ASSUME OneStartPerRestart, TypeOK, ControlInv, QuietInv, [Next]_vars
    PROVE  QuietInv'
<1> USE DEF QuietInv
<1>1. CASE MpSmDispatcher
  BY <1>1, DispatcherQuiet
<1>2. CASE TimerExpires
  BY <1>2 DEF TimerExpires, linkVars, enetVars, txVars, rxVars, powerVars, UndisturbedInv, StartInv,
     HeldInv, At, IsAnyTxFrameQueued
<1>3. CASE MpPause \/ MpRestart \/ MpHaltEx
  <2>1. SM_CurrentState \in {"RUNNING", "PAUSED"} /\ SM_CurrentState' = SM_CurrentState
    BY <1>3 DEF MpPause, MpRestart, MpHaltEx, SmSetStateByNdis, ControlInv, PhaseInv, At
  <2> QED
    BY <1>3, <2>1 DEF MpPause, MpRestart, MpHaltEx, linkVars, enetVars, rxVars, powerVars,
       UndisturbedInv, StartInv, HeldInv, At
<1>4. CASE MpHaltExReturn
  BY <1>4 DEF MpHaltExReturn, smVars, linkVars, enetVars, txVars, rxVars, powerVars, UndisturbedInv,
     StartInv, HeldInv, At, IsAnyTxFrameQueued
<1>5. ~MpResetEx /\ ~MpResetExSetState /\ ~MpCheckForHangEx
  BY DEF OneStartPerRestart, UndisturbedInv, MpResetEx, MpResetExSetState, MpCheckForHangEx
<1>6. ASSUME UNCHANGED <<smVars, enetVars, txVars, rxVars, ndis>>, UndisturbedInv',
             UNCHANGED linkVars \/ SM_CurrentState # "RUNNING"
      PROVE  QuietInv'
  BY <1>6 DEF smVars, linkVars, enetVars, txVars, rxVars, StartInv, HeldInv, At, IsAnyTxFrameQueued
<1>7. CASE MpSetPowerD0
  BY <1>6, <1>7 DEF MpSetPowerD0, UndisturbedInv
<1>8. CASE MpSetPowerD3
  <2>1. SM_CurrentState = "PAUSED"
    BY <1>8 DEF MpSetPowerD3, OneStartPerRestart, ControlInv, PhaseInv, At
  <2>2. ~EnetStarted
    BY <2>1 DEF StartInv
  <2>3. UndisturbedInv'
    BY <1>8, <2>2 DEF MpSetPowerD3, EnterD3, UndisturbedInv
  <2> QED
    BY <1>6, <1>8, <2>1, <2>3 DEF MpSetPowerD3
<1>9. pwPc = "idle"
  BY DEF UndisturbedInv
<1>10. CASE MpSendNetBufferLists
  <2>1. ndis = "Running"
    BY <1>10 DEF MpSendNetBufferLists, UndisturbedInv
  <2>2. ~At("PAUSING", "PAUSED")
    BY <2>1 DEF ControlInv, PhaseInv, At
  <2> QED
    BY <1>10, <2>1, <2>2 DEF MpSendNetBufferLists, smVars, linkVars, enetVars, rxVars, powerVars,
       UndisturbedInv, StartInv, HeldInv, At
<1>11. CASE MpHandleTxInterrupt
  <2>1. SM_CurrentState = "RUNNING"
    BY <1>11 DEF MpHandleTxInterrupt, StartInv
  <2>2. ndis # "Paused"
    BY <2>1 DEF ControlInv, PhaseInv, At
  <2> QED
    BY <1>11, <2>1, <2>2 DEF MpHandleTxInterrupt, smVars, linkVars, enetVars, rxVars, powerVars,
       UndisturbedInv, StartInv, HeldInv, At
<1>12. CASE MpHandleRecvInterrupt \/ MpReturnNetBufferLists
  <2>1. /\ UNCHANGED <<smVars, linkVars, enetVars, txVars, powerVars, ndis>>
        /\ rxHeld' = Rx_NdisOwnedBDsCount'
        /\ rxHeld' > 0 => rxHeld > 0 \/ EnetStarted
    BY <1>12 DEF MpHandleRecvInterrupt, MpReturnNetBufferLists, HeldInv, TypeOK, CountersTyped
  <2> QED
    BY <2>1 DEF smVars, linkVars, enetVars, txVars, powerVars, UndisturbedInv, StartInv, HeldInv, At,
       IsAnyTxFrameQueued
<1>13. CASE UNCHANGED vars
  BY <1>13 DEF vars, smVars, linkVars, enetVars, txVars, rxVars, powerVars, UndisturbedInv, StartInv,
     HeldInv, At, IsAnyTxFrameQueued
<1>14. ~MpSetPowerStart /\ ~MpSetPowerStop /\ ~MpSetPowerCancel /\ ~MpSetPowerWait /\ ~MpSetPowerFinish
  BY <1>9 DEF MpSetPowerStart, MpSetPowerStop, MpSetPowerCancel, MpSetPowerWait, MpSetPowerFinish
<1> QED
  BY <1>1, <1>2, <1>3, <1>4, <1>5, <1>7, <1>8, <1>10, <1>11, <1>12, <1>13, <1>14
     DEF Next, NdisCallback, Power, MpSetPowerGoesOn, Traffic

\* Under these conditions NdisMPauseComplete finds the data path stopped and every
\* sent and received frame back with its owner, and a pause waits for exactly
\* the frames NDIS holds.
THEOREM PauseQuiescent == OneStartPerRestart => (Spec => []PauseIsQuiescent)
<1> SUFFICES ASSUME OneStartPerRestart PROVE Spec => []PauseIsQuiescent
  OBVIOUS
<1>1. Init => QuietInv
  BY DEF Init, QuietInv, UndisturbedInv, StartInv, HeldInv, At, IsAnyTxFrameQueued
<1>2. TypeOK /\ ControlInv /\ QuietInv /\ [Next]_vars => QuietInv'
  BY QuietPreserved
<1>3. TypeOK /\ ControlInv /\ QuietInv => PauseIsQuiescent
  <2> SUFFICES ASSUME TypeOK, ControlInv, QuietInv PROVE PauseIsQuiescent
    OBVIOUS
  <2>1. RxPendingIsAccurate
    BY DEF QuietInv, HeldInv, RxPendingIsAccurate, IsRxFramePandingInNdis, TypeOK, CountersTyped
  <2>2. ASSUME ndis = "Paused" PROVE SM_CurrentState = "PAUSED"
    BY <2>2 DEF ControlInv, PhaseInv, At
  <2>3. QuiescentWhenPaused
    BY <2>2 DEF QuietInv, StartInv, HeldInv, At, QuiescentWhenPaused, TypeOK, CountersTyped
  <2> QED
    BY <2>1, <2>3 DEF PauseIsQuiescent
<1> QED
  BY <1>1, <1>2, <1>3, TypeCorrect, ControlCorrect, PTL DEF Spec

=============================================================================
