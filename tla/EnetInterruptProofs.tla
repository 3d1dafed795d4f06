------------------------ MODULE EnetInterruptProofs ------------------------
(***************************************************************************)
(* The interrupts of the ENET controller are never left masked and no      *)
(* event is forgotten, for any number of processors, any ring and any      *)
(* throttling limit.                                                       *)
(***************************************************************************)
EXTENDS EnetInterrupt, TLAPS

\* The descriptors of the Tx ring in use are not more than it has; the count of
\* those that are sent keeps its range only together with this.
TxFits == txReady + txSent <= Ring

Sound == TypeOK /\ TxFits

\* Everything is empty or FALSE at first.
LEMMA InitSound == Init => Sound /\ NeverDeaf /\ EventsRemembered /\ MiiKept
<1> SUFFICES ASSUME Init PROVE Sound /\ NeverDeaf /\ EventsRemembered /\ MiiKept
  OBVIOUS
<1>1. Sound
  <2>1. EventsTyped /\ ControlTyped
    BY DEF Init, EventsTyped, ControlTyped
  <2>2. FlagsTyped
    BY Zenon DEF Init, FlagsTyped
  <2>3. CountersTyped /\ TxFits
    BY EnetAssumption DEF Init, CountersTyped, TxFits
  <2> QED
    BY <2>1, <2>2, <2>3 DEF Sound, TypeOK
<1>2. NeverDeaf /\ EventsRemembered /\ MiiKept
  BY DEF Init, NeverDeaf, EventsRemembered, MiiKept
<1> QED
  BY <1>1, <1>2

\* The sets of events.
LEMMA EventsTypedPreserved == EventsTyped /\ [Next]_vars => EventsTyped'
<1> SUFFICES ASSUME EventsTyped, [Next]_vars PROVE EventsTyped'
  OBVIOUS
<1> USE DEF EventsTyped, regVars, flagVars, dpcVars, rxVars, txVars, ENET_RX_INT_MASK, ENET_TX_INT_MASK,
        ENET_RX_TX_INT_MASK
<1>1. CASE MacReceives
  BY <1>1 DEF MacReceives
<1>2. CASE MacSends
  BY <1>2 DEF MacSends
<1>3. CASE MacPauses
  BY <1>3 DEF MacPauses
<1>4. CASE MdioDone
  BY <1>4 DEF MdioDone
<1>5. CASE MdioPolled
  BY <1>5 DEF MdioPolled
<1>6. CASE SendFrame
  BY <1>6 DEF SendFrame
<1>7. CASE InterruptLatched
  BY <1>7 DEF InterruptLatched
<1>8. CASE EnetIsr
  BY <1>8 DEF EnetIsr
<1>9. CASE EnetStop
  BY <1>9 DEF EnetStop, EnetDisableRxAndTxInterrupts
<1>10. CASE EnetStopMac
  BY <1>10 DEF EnetStopMac
<1>11. CASE EnetStart
  BY <1>11 DEF EnetStart
<1>12. ASSUME NEW c \in Cpus, EnetDpc(c) PROVE EventsTyped'
  <2>1. CASE DpcReads(c)
    BY <2>1 DEF DpcReads
  <2>2. CASE DpcClears(c)
    BY <2>2 DEF DpcClears
  <2>3. CASE DpcTx(c)
    BY <2>3 DEF DpcTx
  <2>4. CASE DpcRx(c)
    BY <2>4 DEF DpcRx
  <2>5. CASE DpcSaves(c)
    BY <2>5 DEF DpcSaves
  <2>6. CASE DpcGra(c)
    BY <2>6 DEF DpcGra
  <2>7. CASE DpcEnables(c)
    BY <2>7 DEF DpcEnables
  <2>8. CASE DpcEnds(c)
    BY <2>8 DEF DpcEnds
  <2> QED
    BY <1>12, <2>1, <2>2, <2>3, <2>4, <2>5, <2>6, <2>7, <2>8 DEF EnetDpc
<1>13. CASE UNCHANGED vars
  BY <1>13 DEF vars
<1> QED
    BY <1>1, <1>2, <1>3, <1>4, <1>5, <1>6, <1>7, <1>8, <1>9, <1>10, <1>11, <1>12, <1>13
     DEF Next

\* The Boolean flags.
LEMMA FlagsTypedPreserved == FlagsTyped /\ [Next]_vars => FlagsTyped'
<1> SUFFICES ASSUME FlagsTyped, [Next]_vars PROVE FlagsTyped'
  OBVIOUS
<1> USE DEF FlagsTyped, regVars, flagVars, dpcVars, rxVars, txVars
<1>1. CASE MacReceives
  BY <1>1, Zenon DEF MacReceives
<1>2. CASE MacSends
  BY <1>2, Zenon DEF MacSends
<1>3. CASE MacPauses
  BY <1>3, Zenon DEF MacPauses
<1>4. CASE MdioDone
  BY <1>4, Zenon DEF MdioDone
<1>5. CASE MdioPolled
  BY <1>5, Zenon DEF MdioPolled
<1>6. CASE SendFrame
  BY <1>6, Zenon DEF SendFrame
<1>7. CASE InterruptLatched
  BY <1>7, Zenon DEF InterruptLatched
<1>8. CASE EnetIsr
  BY <1>8, Zenon DEF EnetIsr
<1>9. CASE EnetStop
  BY <1>9, Zenon DEF EnetStop, EnetDisableRxAndTxInterrupts
<1>10. CASE EnetStopMac
  BY <1>10, Zenon DEF EnetStopMac
<1>11. CASE EnetStart
  BY <1>11, Zenon DEF EnetStart
<1>12. ASSUME NEW c \in Cpus, EnetDpc(c) PROVE FlagsTyped'
  <2>1. CASE DpcReads(c)
    BY <2>1, Zenon DEF DpcReads
  <2>2. CASE DpcClears(c)
    BY <2>2, Zenon DEF DpcClears
  <2>3. CASE DpcTx(c)
    BY <2>3, Zenon DEF DpcTx
  <2>4. CASE DpcRx(c)
    BY <2>4, Zenon DEF DpcRx
  <2>5. CASE DpcSaves(c)
    BY <2>5, Zenon DEF DpcSaves
  <2>6. CASE DpcGra(c)
    BY <2>6, Zenon DEF DpcGra
  <2>7. CASE DpcEnables(c)
    BY <2>7, Zenon DEF DpcEnables
  <2>8. CASE DpcEnds(c)
    BY <2>8, Zenon DEF DpcEnds
  <2> QED
    BY <1>12, <2>1, <2>2, <2>3, <2>4, <2>5, <2>6, <2>7, <2>8 DEF EnetDpc
<1>13. CASE UNCHANGED vars
  BY <1>13, Zenon DEF vars
<1> QED
    BY <1>1, <1>2, <1>3, <1>4, <1>5, <1>6, <1>7, <1>8, <1>9, <1>10, <1>11, <1>12, <1>13
     DEF Next

\* Where the DPCs are, and who holds the lock.
LEMMA ControlTypedPreserved == ControlTyped /\ [Next]_vars => ControlTyped'
<1> SUFFICES ASSUME ControlTyped, [Next]_vars PROVE ControlTyped'
  OBVIOUS
<1> USE DEF ControlTyped, regVars, flagVars, dpcVars, rxVars, txVars
<1>1. CASE MacReceives
  BY <1>1 DEF MacReceives
<1>2. CASE MacSends
  BY <1>2 DEF MacSends
<1>3. CASE MacPauses
  BY <1>3 DEF MacPauses
<1>4. CASE MdioDone
  BY <1>4 DEF MdioDone
<1>5. CASE MdioPolled
  BY <1>5 DEF MdioPolled
<1>6. CASE SendFrame
  BY <1>6 DEF SendFrame
<1>7. CASE InterruptLatched
  BY <1>7 DEF InterruptLatched
<1>8. CASE EnetIsr
  BY <1>8 DEF EnetIsr
<1>9. CASE EnetStop
  BY <1>9 DEF EnetStop, EnetDisableRxAndTxInterrupts
<1>10. CASE EnetStopMac
  BY <1>10 DEF EnetStopMac
<1>11. CASE EnetStart
  BY <1>11 DEF EnetStart
<1>12. ASSUME NEW c \in Cpus, EnetDpc(c) PROVE ControlTyped'
  <2>1. CASE DpcReads(c)
    BY <2>1 DEF DpcReads
  <2>2. CASE DpcClears(c)
    BY <2>2 DEF DpcClears
  <2>3. CASE DpcTx(c)
    BY <2>3 DEF DpcTx
  <2>4. CASE DpcRx(c)
    BY <2>4 DEF DpcRx
  <2>5. CASE DpcSaves(c)
    BY <2>5 DEF DpcSaves
  <2>6. CASE DpcGra(c)
    BY <2>6 DEF DpcGra
  <2>7. CASE DpcEnables(c)
    BY <2>7 DEF DpcEnables
  <2>8. CASE DpcEnds(c)
    BY <2>8 DEF DpcEnds
  <2> QED
    BY <1>12, <2>1, <2>2, <2>3, <2>4, <2>5, <2>6, <2>7, <2>8 DEF EnetDpc
<1>13. CASE UNCHANGED vars
  BY <1>13 DEF vars
<1> QED
    BY <1>1, <1>2, <1>3, <1>4, <1>5, <1>6, <1>7, <1>8, <1>9, <1>10, <1>11, <1>12, <1>13
     DEF Next

\* The counters, with the descriptors of the Tx ring.
LEMMA CountersPreserved == (CountersTyped /\ TxFits) /\ [Next]_vars => (CountersTyped /\ TxFits)'
<1> SUFFICES ASSUME (CountersTyped /\ TxFits), [Next]_vars PROVE (CountersTyped /\ TxFits)'
  OBVIOUS
<1> USE EnetAssumption DEF CountersTyped, TxFits, regVars, flagVars, dpcVars, rxVars, txVars
<1>1. CASE MacReceives
  BY <1>1 DEF MacReceives
<1>2. CASE MacSends
  <2>1. CASE txReady > 0
    <3>1. txReady' = txReady - 1 /\ txSent' = txSent + 1
      BY <1>2, <2>1 DEF MacSends
    <3>2. UNCHANGED <<rxVars, sent, stops>>
      BY <1>2 DEF MacSends
    <3> QED
      BY <2>1, <3>1, <3>2
  <2>2. CASE ~(txReady > 0)
    <3>1. UNCHANGED <<rxVars, txReady, txSent, sent, stops>>
      BY <1>2, <2>2 DEF MacSends
    <3> QED
      BY <3>1
  <2> QED
    BY <2>1, <2>2
<1>3. CASE MacPauses
  BY <1>3 DEF MacPauses
<1>4. CASE MdioDone
  BY <1>4 DEF MdioDone
<1>5. CASE MdioPolled
  BY <1>5 DEF MdioPolled
<1>6. CASE SendFrame
  BY <1>6 DEF SendFrame
<1>7. CASE InterruptLatched
  BY <1>7 DEF InterruptLatched
<1>8. CASE EnetIsr
  BY <1>8 DEF EnetIsr
<1>9. CASE EnetStop
  BY <1>9 DEF EnetStop, EnetDisableRxAndTxInterrupts
<1>10. CASE EnetStopMac
  BY <1>10 DEF EnetStopMac
<1>11. CASE EnetStart
  BY <1>11 DEF EnetStart
<1>12. ASSUME NEW c \in Cpus, EnetDpc(c) PROVE (CountersTyped /\ TxFits)'
  <2>1. CASE DpcReads(c)
    BY <2>1 DEF DpcReads
  <2>2. CASE DpcClears(c)
    BY <2>2 DEF DpcClears
  <2>3. CASE DpcTx(c)
    BY <2>3 DEF DpcTx
  <2>4. CASE DpcRx(c)
    BY <2>4 DEF DpcRx, Min2
  <2>5. CASE DpcSaves(c)
    BY <2>5 DEF DpcSaves
  <2>6. CASE DpcGra(c)
    BY <2>6 DEF DpcGra
  <2>7. CASE DpcEnables(c)
    BY <2>7 DEF DpcEnables
  <2>8. CASE DpcEnds(c)
    BY <2>8 DEF DpcEnds
  <2> QED
    BY <1>12, <2>1, <2>2, <2>3, <2>4, <2>5, <2>6, <2>7, <2>8 DEF EnetDpc
<1>13. CASE UNCHANGED vars
  BY <1>13 DEF vars
<1> QED
    BY <1>1, <1>2, <1>3, <1>4, <1>5, <1>6, <1>7, <1>8, <1>9, <1>10, <1>11, <1>12, <1>13
     DEF Next

-----------------------------------------------------------------------------
(* The adapter is never deaf *)

\* A call of EnetDpc that has still to decide about the interrupts.
Deciding(c) == pc[c] \notin {"idle", "end"} \/ (pc[c] = "end" /\ MoreNblsPending[c])

\* What masks the interrupts queues a call of EnetDpc, and what ends a call
\* enables them or leaves another call behind.
LEMMA NeverDeafPreserved == TypeOK /\ NeverDeaf /\ [Next]_vars => NeverDeaf'
<1> SUFFICES ASSUME TypeOK, NeverDeaf, [Next]_vars PROVE NeverDeaf'
  OBVIOUS
<1> USE DEF regVars, flagVars, dpcVars, rxVars, txVars
<1>0. /\ queued \in 0..1 /\ EIMR \in {{}, ENET_RX_TX_INT_MASK}
      /\ pc \in [Cpus -> {"idle", "clear", "tx", "rx", "save", "gra", "enable", "end"}]
      /\ MoreNblsPending \in [Cpus -> BOOLEAN]
  BY DEF TypeOK, EventsTyped, FlagsTyped, ControlTyped
<1>1. ASSUME UNCHANGED <<EnetStarted, Dev_SpinLock, EIMR, queued, pc, MoreNblsPending>>
      PROVE  NeverDeaf'
  BY <1>1 DEF NeverDeaf
<1>2. CASE \/ MacReceives \/ MacSends \/ MacPauses \/ MdioDone \/ MdioPolled \/ SendFrame
           \/ InterruptLatched
  BY <1>1, <1>2 DEF MacReceives, MacSends, MacPauses, MdioDone, MdioPolled, SendFrame,
                   InterruptLatched
<1>3. CASE EnetIsr
  <2>1. CASE EIMR = {}
    BY <1>1, <1>3, <2>1 DEF EnetIsr
  <2>2. CASE EIMR # {}
    BY <1>3, <2>2 DEF EnetIsr, NeverDeaf
  <2> QED
    BY <2>1, <2>2
<1>4. ASSUME NEW c \in Cpus, EnetDpc(c) PROVE NeverDeaf'
  <2>1. ASSUME Deciding(c)' PROVE NeverDeaf'
    BY <2>1 DEF Deciding, NeverDeaf
  <2>2. CASE DpcReads(c)
    BY <1>0, <2>1, <2>2 DEF DpcReads, Deciding
  <2>3. CASE DpcClears(c)
    <3>1. "EBERR" \notin InterruptEvent[c] \cup InterruptFlags
      BY DEF TypeOK, EventsTyped, ENET_RX_INT_MASK, ENET_TX_INT_MASK, ENET_RX_TX_INT_MASK
    <3> QED
      BY <1>0, <2>1, <2>3, <3>1 DEF DpcClears, Deciding
  <2>4. CASE DpcTx(c)
    BY <1>0, <2>1, <2>4 DEF DpcTx, Deciding
  <2>5. CASE DpcRx(c)
    BY <1>0, <2>1, <2>5 DEF DpcRx, Deciding
  <2>6. CASE DpcSaves(c)
    BY <1>0, <2>1, <2>6 DEF DpcSaves, Deciding
  <2>7. CASE DpcGra(c)
    BY <1>0, <2>1, <2>7 DEF DpcGra, Deciding
  <2>8. CASE DpcEnables(c)
    <3>1. CASE MoreNblsPending[c]
      BY <1>0, <2>1, <2>8, <3>1 DEF DpcEnables, Deciding
    <3>2. CASE ~MoreNblsPending[c]
      BY <2>8, <3>2 DEF DpcEnables, NeverDeaf
    <3> QED
      BY <3>1, <3>2
  <2>9. CASE DpcEnds(c)
    <3>1. CASE MoreNblsPending[c]
      BY <2>9, <3>1 DEF DpcEnds, NeverDeaf
    <3>2. CASE ~MoreNblsPending[c]
      <4>1. /\ UNCHANGED <<EnetStarted, Dev_SpinLock, EIMR, queued, MoreNblsPending>>
            /\ \A d \in Cpus : d # c => pc'[d] = pc[d]
            /\ pc[c] = "end"
        BY <1>0, <2>9, <3>2 DEF DpcEnds
      <4> QED
        BY <3>2, <4>1 DEF NeverDeaf
    <3> QED
      BY <3>1, <3>2
  <2> QED
    BY <1>4, <2>2, <2>3, <2>4, <2>5, <2>6, <2>7, <2>8, <2>9 DEF EnetDpc
<1>5. CASE EnetStop
  BY <1>5 DEF EnetStop, NeverDeaf
<1>6. CASE EnetStopMac
  BY <1>6 DEF EnetStopMac, NeverDeaf
<1>7. CASE EnetStart
  BY <1>7 DEF EnetStart, NeverDeaf
<1>8. CASE UNCHANGED vars
  BY <1>1, <1>8 DEF vars
<1> QED
  BY <1>2, <1>3, <1>4, <1>5, <1>6, <1>7, <1>8 DEF Next

-----------------------------------------------------------------------------
(* No event is lost *)

\* The end of an MDIO transfer stays in EIR until it is polled: what the DPC, a
\* stop and a start clear there are events of ENET_RX_TX_INT_MASK.
LEMMA MiiKeptPreserved == TypeOK /\ MiiKept /\ [Next]_vars => MiiKept'
<1> SUFFICES ASSUME TypeOK, MiiKept, [Next]_vars PROVE MiiKept'
  OBVIOUS
<1> USE DEF MiiKept, regVars, flagVars, dpcVars, rxVars, txVars, ENET_RX_INT_MASK,
        ENET_TX_INT_MASK, ENET_RX_TX_INT_MASK
<1>1. CASE MacReceives \/ MacPauses \/ MdioDone \/ MdioPolled
  BY <1>1 DEF MacReceives, MacPauses, MdioDone, MdioPolled
<1>2. CASE MacSends
  <2>1. UNCHANGED mii /\ (EIR' = EIR \cup {"TXF"} \/ EIR' = EIR)
    BY <1>2, Zenon DEF MacSends
  <2> QED
    BY <2>1
<1>3. CASE SendFrame \/ InterruptLatched \/ EnetIsr
  BY <1>3 DEF SendFrame, InterruptLatched, EnetIsr
<1>4. ASSUME NEW c \in Cpus, EnetDpc(c) PROVE MiiKept'
  <2>1. CASE DpcClears(c)
    <3>1. "MII" \notin InterruptEvent[c]
      BY DEF TypeOK, EventsTyped
    <3> QED
      BY <2>1, <3>1 DEF DpcClears
  <2>2. CASE ~DpcClears(c)
    BY <1>4, <2>2 DEF EnetDpc, DpcReads, DpcTx, DpcRx, DpcSaves, DpcGra, DpcEnables, DpcEnds
  <2> QED
    BY <2>1, <2>2
<1>5. CASE EnetStop \/ EnetStopMac \/ EnetStart
  BY <1>5 DEF EnetStop, EnetDisableRxAndTxInterrupts, EnetStopMac, EnetStart
<1>6. CASE UNCHANGED vars
  BY <1>6 DEF vars
<1> QED
  BY <1>1, <1>2, <1>3, <1>4, <1>5, <1>6 DEF Next

\* A DPC between its read of EIR and the write that clears it holds Dev_SpinLock,
\* and is the only one there.
LockHeld ==
    \A c \in Cpus : pc[c] = "clear" =>
        /\ Dev_SpinLock = "dpc"
        /\ \A d \in Cpus : pc[d] = "clear" => d = c

\* Only a free lock is taken; only its holder gives it back.
LEMMA LockHeldPreserved == TypeOK /\ LockHeld /\ [Next]_vars => LockHeld'
<1> SUFFICES ASSUME TypeOK, LockHeld, [Next]_vars PROVE LockHeld'
  OBVIOUS
<1> USE DEF regVars, flagVars, dpcVars, rxVars, txVars
<1>0. pc \in [Cpus -> {"idle", "clear", "tx", "rx", "save", "gra", "enable", "end"}]
  BY DEF TypeOK, ControlTyped
<1>1. ASSUME UNCHANGED <<Dev_SpinLock, pc>> PROVE LockHeld'
  BY <1>1 DEF LockHeld
<1>2. CASE \/ MacReceives \/ MacSends \/ MacPauses \/ MdioDone \/ MdioPolled \/ SendFrame
           \/ InterruptLatched \/ EnetIsr \/ EnetStart
  BY <1>1, <1>2 DEF MacReceives, MacSends, MacPauses, MdioDone, MdioPolled, SendFrame,
                   InterruptLatched, EnetIsr, EnetStart
<1>3. ASSUME NEW c \in Cpus, EnetDpc(c) PROVE LockHeld'
  <2>1. CASE DpcReads(c)
    BY <1>0, <2>1 DEF DpcReads, LockHeld
  <2>2. CASE DpcClears(c)
    <3>1. /\ pc[c] = "clear" /\ pc'[c] # "clear"
          /\ \A d \in Cpus : d # c => pc'[d] = pc[d]
      BY <1>0, <2>2 DEF DpcClears
    <3> QED
      BY <3>1 DEF LockHeld
  <2>3. ASSUME UNCHANGED Dev_SpinLock, NEW at \in {"rx", "save", "gra", "enable", "end", "idle"},
               pc' = [pc EXCEPT ![c] = at]
        PROVE  LockHeld'
    BY <1>0, <2>3 DEF LockHeld
  <2>4. CASE DpcTx(c) \/ DpcSaves(c) \/ DpcGra(c) \/ DpcEnables(c) \/ DpcEnds(c)
    BY <2>3, <2>4 DEF DpcTx, DpcSaves, DpcGra, DpcEnables, DpcEnds
  <2>5. CASE DpcRx(c)
    BY <2>3, <2>5 DEF DpcRx
  <2> QED
    BY <1>3, <2>1, <2>2, <2>4, <2>5 DEF EnetDpc
<1>4. CASE EnetStop \/ EnetStopMac
  BY <1>4 DEF EnetStop, EnetStopMac, LockHeld
<1>5. CASE UNCHANGED vars
  BY <1>1, <1>5 DEF vars
<1> QED
  BY <1>2, <1>3, <1>4, <1>5 DEF Next

\* A received, and a sent, descriptor that is on record.
RxRecorded == \/ "RXF" \in EIR \cup InterruptFlags
              \/ WillServe("RXF", {"clear", "tx", "rx", "save"})
TxRecorded == "TXF" \in EIR \/ WillServe("TXF", {"clear", "tx"})

\* An event goes from EIR, or from the saved flags, to the DPC that takes it, and
\* leaves that DPC only at its handler, which empties the ring or saves the event.
LEMMA EventsRememberedPreserved ==
    TypeOK /\ LockHeld /\ EventsRemembered /\ [Next]_vars => EventsRemembered'
<1> SUFFICES ASSUME TypeOK, LockHeld, EventsRemembered, [Next]_vars PROVE EventsRemembered'
  OBVIOUS
<1> USE DEF regVars, flagVars, dpcVars, rxVars, txVars
<1>0. /\ pc \in [Cpus -> {"idle", "clear", "tx", "rx", "save", "gra", "enable", "end"}]
      /\ InterruptEvent \in [Cpus -> SUBSET ENET_RX_TX_INT_MASK]
      /\ InterruptFlags \in SUBSET ENET_RX_TX_INT_MASK
      /\ rxFull \in Nat /\ txSent \in Nat /\ txReady \in Nat
  BY EnetAssumption DEF TypeOK, EventsTyped, ControlTyped, CountersTyped
<1>1. ASSUME UNCHANGED <<EnetStarted, Dev_SpinLock, dpcVars, rxFull, txSent, InterruptFlags>>,
             "RXF" \in EIR => "RXF" \in EIR', "TXF" \in EIR => "TXF" \in EIR'
      PROVE  EventsRemembered'
  BY <1>1 DEF EventsRemembered, WillServe
<1>2. CASE MacPauses \/ MdioDone \/ MdioPolled
  BY <1>1, <1>2 DEF MacPauses, MdioDone, MdioPolled
<1>3. CASE SendFrame \/ InterruptLatched \/ EnetIsr
  BY <1>1, <1>3 DEF SendFrame, InterruptLatched, EnetIsr
<1>4. CASE MacReceives
  BY <1>4 DEF MacReceives, EventsRemembered, WillServe
<1>5. CASE MacSends
  <2>1. CASE txReady > 0
    <3>1. /\ EIR' = EIR \cup {"TXF"}
          /\ UNCHANGED <<EnetStarted, Dev_SpinLock, dpcVars, rxFull, InterruptFlags>>
      BY <1>5, <2>1 DEF MacSends
    <3> QED
      BY <3>1 DEF EventsRemembered, WillServe
  <2>2. CASE ~(txReady > 0)
    BY <1>1, <1>5, <2>2 DEF MacSends
  <2> QED
    BY <2>1, <2>2
<1>6. CASE EnetStop \/ EnetStopMac
  BY <1>6 DEF EnetStop, EnetStopMac, EventsRemembered
<1>7. CASE EnetStart
  BY <1>7 DEF EnetStart, EventsRemembered
<1>8. ASSUME NEW c \in Cpus, EnetDpc(c), EnetStarted', Dev_SpinLock' # "stop"
      PROVE  (rxFull' > 0 => RxRecorded') /\ (txSent' > 0 => TxRecorded')
  <2>1. EnetStarted /\ Dev_SpinLock # "stop"
    BY <1>8 DEF EnetDpc, DpcReads, DpcClears, DpcTx, DpcRx, DpcSaves, DpcGra, DpcEnables,
                DpcEnds, LockHeld
  <2>2. (rxFull > 0 => RxRecorded) /\ (txSent > 0 => TxRecorded)
    BY <2>1 DEF EventsRemembered, RxRecorded, TxRecorded
  <2>3. CASE DpcReads(c)
    BY <1>0, <2>2, <2>3 DEF DpcReads, RxRecorded, TxRecorded, WillServe
  <2>4. CASE DpcClears(c)
    <3> DEFINE events == InterruptEvent[c] \cup InterruptFlags
    <3>1. "EBERR" \notin events
      BY <1>0 DEF ENET_RX_INT_MASK, ENET_TX_INT_MASK, ENET_RX_TX_INT_MASK
    <3>2. /\ EIR' = EIR \ InterruptEvent[c] /\ InterruptFlags' = {}
          /\ pc[c] = "clear" /\ UNCHANGED <<rxFull, txSent>>
          /\ InterruptEvent'[c] = events
          /\ events # {} => pc'[c] = "tx"
          /\ \A d \in Cpus : d # c => pc'[d] = pc[d] /\ InterruptEvent'[d] = InterruptEvent[d]
      BY <1>0, <2>4, <3>1 DEF DpcClears
    <3>3. ASSUME NEW e \in events PROVE WillServe(e, {"clear", "tx"})' /\ WillServe(e, {"clear", "tx", "rx", "save"})'
      BY <3>2, <3>3 DEF WillServe
    <3>4. rxFull' > 0 => RxRecorded'
      BY <2>2, <3>2, <3>3 DEF RxRecorded, WillServe
    <3>5. txSent' > 0 => TxRecorded'
      BY <2>2, <3>2, <3>3 DEF TxRecorded, WillServe
    <3> QED
      BY <3>4, <3>5
  <2>5. CASE DpcTx(c)
    <3>1. rxFull' > 0 => RxRecorded'
      BY <1>0, <2>2, <2>5 DEF DpcTx, RxRecorded, WillServe
    <3>2. CASE "TXF" \in InterruptEvent[c]
      BY <2>5, <3>1, <3>2 DEF DpcTx, ENET_TX_INT_MASK
    <3>3. CASE "TXF" \notin InterruptEvent[c]
      BY <1>0, <2>2, <2>5, <3>1, <3>3 DEF DpcTx, TxRecorded, WillServe, ENET_TX_INT_MASK
    <3> QED
      BY <3>2, <3>3
  <2>6. CASE DpcRx(c)
    <3>0. /\ pc[c] = "rx" /\ pc'[c] \in {"save", "gra"}
          /\ UNCHANGED <<EIR, InterruptFlags, InterruptEvent, txSent>>
          /\ \A d \in Cpus : d # c => pc'[d] = pc[d]
      BY <1>0, <2>6 DEF DpcRx
    <3>1. txSent' > 0 => TxRecorded'
      BY <2>2, <3>0 DEF TxRecorded, WillServe
    <3>2. CASE "RXF" \in InterruptEvent[c]
      <4>1. rxFull' > 0 => pc'[c] = "save"
        <5>1. MoreNblsPending' = [MoreNblsPending EXCEPT
                  ![c] = ("RXF" \in InterruptEvent[c] /\ EnetStarted) /\ rxFull' > 0]
          BY <2>6, Zenon DEF DpcRx
        <5>2. rxFull' > 0 => MoreNblsPending'[c]
          BY <2>1, <3>2, <5>1, Zenon DEF TypeOK, FlagsTyped
        <5>3. pc' = [pc EXCEPT ![c] = IF MoreNblsPending'[c] THEN "save" ELSE "gra"]
          BY <2>6, Zenon DEF DpcRx
        <5> QED
          BY <1>0, <5>2, <5>3
      <4> QED
        BY <3>0, <3>1, <3>2, <4>1 DEF RxRecorded, WillServe
    <3>3. CASE "RXF" \notin InterruptEvent[c]
      <4>1. UNCHANGED rxFull
        BY <2>6, <3>3 DEF DpcRx
      <4> QED
        BY <2>2, <3>0, <3>1, <3>3, <4>1 DEF RxRecorded, WillServe
    <3> QED
      BY <3>2, <3>3
  <2>7. CASE DpcSaves(c)
    <3>0. /\ pc[c] = "save" /\ pc'[c] = "enable"
          /\ InterruptFlags' = InterruptFlags \cup (InterruptEvent[c] \cap {"RXF"})
          /\ UNCHANGED <<EIR, InterruptEvent, rxFull, txSent>>
          /\ \A d \in Cpus : d # c => pc'[d] = pc[d]
      BY <1>0, <2>7 DEF DpcSaves, ENET_RX_INT_MASK
    <3>1. txSent' > 0 => TxRecorded'
      BY <2>2, <3>0 DEF TxRecorded, WillServe
    <3>2. rxFull' > 0 => RxRecorded'
      BY <2>2, <3>0 DEF RxRecorded, WillServe
    <3> QED
      BY <3>1, <3>2
  <2>8. CASE DpcGra(c) \/ DpcEnables(c) \/ DpcEnds(c)
    <3>1. /\ pc[c] \in {"gra", "enable", "end"}
          /\ UNCHANGED <<EIR, InterruptFlags, rxFull, txSent>>
          /\ \A d \in Cpus : d # c => pc'[d] = pc[d] /\ InterruptEvent'[d] = InterruptEvent[d]
      BY <1>0, <2>8 DEF DpcGra, DpcEnables, DpcEnds
    <3> QED
      BY <2>2, <3>1 DEF RxRecorded, TxRecorded, WillServe
  <2> QED
    BY <1>8, <2>3, <2>4, <2>5, <2>6, <2>7, <2>8 DEF EnetDpc
<1>9. CASE UNCHANGED vars
  BY <1>1, <1>9 DEF vars
<1> QED
  BY <1>2, <1>3, <1>4, <1>5, <1>6, <1>7, <1>8, <1>9
     DEF Next, EventsRemembered, RxRecorded, TxRecorded

-----------------------------------------------------------------------------
(* The theorems *)

\* Every variable of the interrupt path keeps its type, whatever the order of
\* EnetIsr, EnetDpc, EnetStart and EnetStop.
THEOREM TypeCorrect == Spec => []Sound
<1>1. Init => Sound
  BY InitSound
<1>2. Sound /\ [Next]_vars => Sound'
  BY EventsTypedPreserved, FlagsTypedPreserved, ControlTypedPreserved, CountersPreserved
     DEF Sound, TypeOK
<1> QED
  BY <1>1, <1>2, PTL DEF Spec

\* NeverDeaf: EnetIsr masks the interrupts and EnetDpc enables them again, on any
\* number of processors; a started MAC is never left with both done.
THEOREM AdapterHears == Spec => []NeverDeaf
<1>1. Init => NeverDeaf
  BY InitSound
<1>2. Sound /\ NeverDeaf /\ [Next]_vars => NeverDeaf'
  BY NeverDeafPreserved DEF Sound
<1> QED
  BY <1>1, <1>2, TypeCorrect, PTL DEF Spec

\* NoEventLost: between EIR, InterruptFlags and the DPCs of all processors, EnetDpc
\* forgets no received and no sent frame, and no completed MDIO transfer.
THEOREM EventsKept == Spec => []NoEventLost
<1> DEFINE Kept == LockHeld /\ EventsRemembered /\ MiiKept
<1>1. Init => Kept
  <2>1. Init => LockHeld
    BY DEF Init, LockHeld
  <2> QED
    BY <2>1, InitSound
<1>2. Sound /\ Kept /\ [Next]_vars => Kept'
  BY LockHeldPreserved, EventsRememberedPreserved, MiiKeptPreserved DEF Sound
<1>3. Sound /\ Kept => NoEventLost
  BY DEF Sound, NoEventLost
<1> QED
  BY <1>1, <1>2, <1>3, TypeCorrect, PTL DEF Spec
=============================================================================
