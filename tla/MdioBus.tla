------------------------------ MODULE MdioBus ------------------------------
(***************************************************************************)
(* The MDIO bus of imxnetmini (mp_mdio.c): the bus instance shared by the   *)
(* adapters whose PHYs hang on one controller, its thread (MDIOBus_Main),   *)
(* and the devices' frame lists. An adapter's initialization opens the bus  *)
(* and adds its device, its halt removes the device and closes the bus; in  *)
(* between the PHY engine queues commands, each a prefix without and a last *)
(* part with PHYCmd_CmdDone_Callback.                                       *)
(*                                                                         *)
(* MDIOBus_BusSpinLock is held by the thread outside of its wait, so adding *)
(* and removing a device require that it waits; frame lists have a lock per *)
(* device and are free to change between any two steps of the thread.       *)
(***************************************************************************)
EXTENDS Integers, Sequences, FiniteSets, SequencesExt

CONSTANTS
    Devices,        \* one per adapter
    Buses,          \* blocks of memory for bus instances
    None,           \* NULL
    Configs,        \* the devices' MP_MDIO_DEVICE_CFG (address, clocks, hold time) may be
    ListSize,       \* MDIO_FRAME_LIST_SIZE
    PrefixLens,     \* frames of commands without a callback: ConfigCmds, link properties
    CmdLens,        \* frames of the commands that end with the callback
    Faults,         \* the calls of MDIOBus_Open that may fail
    Serial,         \* no two adapters are initialized or halted at the same time
    RemoveActive    \* a device may be removed while its frame is on the wire

ASSUME MdioAssumption ==
    /\ IsFiniteSet(Devices) /\ None \notin Devices \cup Buses
    /\ Configs \subseteq [Devices -> [addr : Nat, clk : Nat \ {0}, maxClk : Nat, minHold : Nat]]
    /\ ListSize \in Nat \ {0}
    /\ PrefixLens \subseteq Nat \ {0} /\ CmdLens \subseteq Nat \ {0}
    /\ \A n \in PrefixLens \cup CmdLens : n <= ListSize
    /\ \A m \in PrefixLens, n \in CmdLens : m + n <= ListSize
    /\ Faults \subseteq {"alloc", "map", "thread"}
    /\ Serial \in BOOLEAN /\ RemoveActive \in BOOLEAN

VARIABLES
    Config,         \* what ACPI says of the devices; it never changes
    busList,        \* MDIODrv_pFirstBus, as the sequence of the linked buses
    bus,            \* the bus instances
    thread,         \* where MDIOBus_Main of an instance is
    cursor,         \* pMDIODev of its scan for a frame
    phase, pBus,    \* how far InitDevice and DeinitDevice are, MDIODev_pBus
    closing,        \* the bus a device's MDIOBus_Close works on
    free, pending,  \* MDIODev_pFreeFrameListHead (its length), MDIODev_pPendingFrameListHead
    CmdPending, engine,
    result,         \* what the device's callbacks were last given
    EIR_MII, MMFR, MSCR, wire   \* the controller: its registers, the frame on the wire

busVars  == <<busList, bus>>
lifeVars == <<Config, phase, pBus, closing>>
devVars  == <<free, pending, CmdPending, engine, result>>
hwVars   == <<Config, EIR_MII, MMFR, MSCR, wire>>
vars     == <<busVars, thread, cursor, lifeVars, devVars, hwVars>>

Frames(d, n, last) == [i \in 1..n |-> [dev |-> d, nr |-> i, last |-> last /\ i = n]]
PrefixCommands(d) == {Frames(d, n, FALSE) : n \in PrefixLens}
Commands(d) == {Frames(d, n, TRUE) : n \in CmdLens}

NoFrame == [dev |-> None, nr |-> 0, last |-> FALSE]

FreshBus == [alive |-> TRUE, ref |-> 1, first |-> <<>>, active |-> None, busy |-> FALSE,
             start |-> FALSE, kill |-> FALSE, timer |-> "off", frame |-> NoFrame]

Init ==
    /\ Config \in Configs
    /\ busList = <<>>
    /\ bus = [b \in Buses |-> [FreshBus EXCEPT !.alive = FALSE, !.ref = 0]]
    /\ thread = [b \in Buses |-> "none"] /\ cursor = [b \in Buses |-> None]
    /\ phase = [d \in Devices |-> "out"]
    /\ pBus = [d \in Devices |-> None] /\ closing = [d \in Devices |-> None]
    /\ free = [d \in Devices |-> ListSize] /\ pending = [d \in Devices |-> <<>>]
    /\ CmdPending = [d \in Devices |-> FALSE] /\ engine = [d \in Devices |-> "idle"]
    /\ result = [d \in Devices |-> NoFrame]
    /\ EIR_MII = FALSE /\ MSCR = None /\ wire = NoFrame
    /\ MMFR = [frame |-> NoFrame, done |-> FALSE]

-----------------------------------------------------------------------------
(* The clock divider and the hold time MDIODev_InitDevice programs, by the  *)
(* configuration of the device                                             *)

MdcKHz(cfg, div) == cfg.clk \div (2 * (div + 1))
FastestDivs(cfg) == {div \in 0..63 : MdcKHz(cfg, div) <= cfg.maxClk}

\* The first divider that is slow enough, and the first number of clock cycles
\* that is long enough; the loop over 1..8 leaves 9 when none is.
MII_Div(cfg) == CHOOSE div \in FastestDivs(cfg) : \A e \in FastestDivs(cfg) : div <= e
CycleNs(cfg) == 1000000 \div cfg.clk
MII_Hold(cfg) == CHOOSE n \in 1..9 :
    /\ n = 9 \/ n * CycleNs(cfg) >= cfg.minHold
    /\ \A m \in 1..n - 1 : m * CycleNs(cfg) < cfg.minHold
InRange(cfg) == FastestDivs(cfg) # {} /\ MII_Hold(cfg) * CycleNs(cfg) >= cfg.minHold

\* BIT_FIELD_VAL cuts the value to the three bits of HOLDTIME.
HOLDTIME(cfg) == MII_Hold(cfg) % 8

-----------------------------------------------------------------------------
(* Initialization of a device: MDIODev_InitDevice, MDIOBus_Open, MDIOBus_AddDevice *)

Settled(d) == phase[d] \in {"out", "failed", "in"}
MayWork(d) == Serial => \A e \in Devices \ {d} : Settled(e)
Goto(d, p) == phase' = [phase EXCEPT ![d] = p]
SetBus(d, b) == pBus' = [pBus EXCEPT ![d] = b]

\* The bus spin lock is free.
Unlocked(b) == thread[b] \in {"none", "wait", "ended"}

Referenced(rec) == [rec EXCEPT !.ref = @ + 1]

\* The adapter's memory is new, and an existing bus is referenced under the
\* lock of the driver.
MDIODev_InitDevice(d) ==
    /\ phase[d] = "out" /\ MayWork(d)
    /\ free' = [free EXCEPT ![d] = ListSize] /\ pending' = [pending EXCEPT ![d] = <<>>]
    /\ CmdPending' = [CmdPending EXCEPT ![d] = FALSE]
    /\ engine' = [engine EXCEPT ![d] = "idle"] /\ result' = [result EXCEPT ![d] = NoFrame]
    /\ \/ ~InRange(Config[d]) /\ Goto(d, "failed") /\ UNCHANGED <<bus, pBus>>
       \/ InRange(Config[d]) /\ busList = <<>> /\ Goto(d, "create") /\ UNCHANGED <<bus, pBus>>
       \/ /\ InRange(Config[d]) /\ busList # <<>>
          /\ bus' = [bus EXCEPT ![Head(busList)] = Referenced(@)]
          /\ SetBus(d, Head(busList))
          /\ Goto(d, "add")
    /\ UNCHANGED <<busList, thread, cursor, closing, hwVars>>

\* No existing bus was found. When the registers cannot be mapped the block is
\* freed, yet its address is returned.
CreateBus(d) ==
    /\ phase[d] = "create" /\ MayWork(d)
    /\ \/ /\ Faults \cap {"alloc", "thread"} # {}
          /\ Goto(d, "failed")
          /\ UNCHANGED <<bus, thread, pBus>>
       \/ \E b \in Buses : ~bus[b].alive /\ SetBus(d, b) /\
            \/ /\ "map" \in Faults
               /\ Goto(d, "failed")
               /\ UNCHANGED <<bus, thread>>
            \/ /\ bus' = [bus EXCEPT ![b] = FreshBus]
               /\ thread' = [thread EXCEPT ![b] = "wait"]
               /\ Goto(d, "link")
    /\ UNCHANGED <<busList, cursor, closing, devVars, hwVars>>

LinkBus(d) ==
    /\ phase[d] = "link" /\ MayWork(d)
    /\ busList' = <<pBus[d]>> \o busList
    /\ Goto(d, "add")
    /\ UNCHANGED <<bus, thread, cursor, pBus, closing, devVars, hwVars>>

Conflict(d) == \E e \in Range(bus[pBus[d]].first) : Config[e].addr = Config[d].addr

MDIOBus_AddDevice(d) ==
    /\ phase[d] = "add" /\ MayWork(d) /\ Unlocked(pBus[d])
    /\ \/ /\ Conflict(d)
          /\ closing' = [closing EXCEPT ![d] = pBus[d]]
          /\ Goto(d, "close")
          /\ UNCHANGED bus
       \/ /\ ~Conflict(d)
          /\ bus' = [bus EXCEPT ![pBus[d]].first = <<d>> \o @]
          /\ Goto(d, "in")
          /\ UNCHANGED closing
    /\ UNCHANGED <<busList, thread, cursor, pBus, devVars, hwVars>>

-----------------------------------------------------------------------------
(* Halt, or the end of a failed initialization: MDIODev_DeinitDevice,       *)
(* MDIOBus_RemoveDevice, MDIOBus_Close, MDIOBus_Stop                        *)

NotInitialized(d) ==
    /\ phase[d] = "failed" /\ pBus[d] = None
    /\ Goto(d, "out")
    /\ UNCHANGED <<busVars, thread, cursor, pBus, closing, devVars, hwVars>>

Position(s, x) == CHOOSE i \in DOMAIN s : s[i] = x
MDIO_RemoveFromList(s, x) == IF x \in Range(s) THEN RemoveAt(s, Position(s, x)) ELSE s

RemovedFrom(d, rec) ==
    LET rest == [rec EXCEPT !.first = MDIO_RemoveFromList(@, d)]
    IN  IF rec.active = d THEN [rest EXCEPT !.active = None, !.busy = FALSE, !.start = TRUE]
                          ELSE rest

MDIOBus_RemoveDevice(d) ==
    LET b == pBus[d]
    IN  /\ phase[d] \in {"in", "failed"} /\ b # None /\ MayWork(d) /\ engine[d] = "idle"
        /\ bus[b].alive /\ Unlocked(b)
        /\ RemoveActive \/ ~(bus[b].active = d /\ bus[b].busy)
        /\ bus' = [bus EXCEPT ![b] = RemovedFrom(d, @)]
        /\ SetBus(d, None)
        /\ closing' = [closing EXCEPT ![d] = b]
        /\ Goto(d, "close")
        /\ UNCHANGED <<busList, thread, cursor, devVars, hwVars>>

\* Mutant of LastReference: the bus is stopped one reference too early.
OneReferenceLeft(b) == bus[b].ref <= 2

LastReference(b) == bus[b].ref = 1

MDIOBus_Close(d) ==
    LET b == closing[d]
    IN  /\ phase[d] = "close" /\ MayWork(d)
        /\ bus' = [bus EXCEPT ![b].ref = @ - 1, ![b].kill = @ \/ LastReference(b)]
        /\ SetBus(d, None)
        /\ IF LastReference(b)
           THEN Goto(d, "stopping") /\ UNCHANGED closing
           ELSE Goto(d, "out") /\ closing' = [closing EXCEPT ![d] = None]
        /\ UNCHANGED <<busList, thread, cursor, devVars, hwVars>>

\* The thread has ended: the bus is unlinked and its memory freed.
FreeBus(d) ==
    LET b == closing[d]
    IN  /\ phase[d] = "stopping" /\ MayWork(d) /\ thread[b] = "ended"
        /\ busList' = MDIO_RemoveFromList(busList, b)
        /\ bus' = [bus EXCEPT ![b].alive = FALSE]
        /\ thread' = [thread EXCEPT ![b] = "none"]
        /\ closing' = [closing EXCEPT ![d] = None]
        /\ Goto(d, "out")
        /\ UNCHANGED <<cursor, pBus, devVars, hwVars>>

-----------------------------------------------------------------------------
(* The PHY engine *)

\* Mutant of Queued: the frames are put in front of the pending ones.
QueuedInFront(old, frames) == frames \o old

Queued(old, frames) == old \o frames

\* The frames taken from the free list are lost when there are not enough.
QueueCommand(d, frames) ==
    \/ /\ Len(frames) <= free[d]
       /\ CmdPending' = [CmdPending EXCEPT ![d] = TRUE]
       /\ free' = [free EXCEPT ![d] = @ - Len(frames)]
       /\ pending' = [pending EXCEPT ![d] = Queued(@, frames)]
       /\ bus' = [bus EXCEPT ![pBus[d]].start = @ \/ pending[d] = <<>>]
    \/ /\ Len(frames) > free[d]
       /\ free' = [free EXCEPT ![d] = 0]
       /\ UNCHANGED <<CmdPending, pending, bus>>

\* Mutant of EngineRuns: a pending command does not hold the engine up.
EngineAlways(d) == phase[d] = "in" /\ engine[d] = "idle"

EngineRuns(d) == phase[d] = "in" /\ engine[d] = "idle" /\ ~CmdPending[d]

QueuePrefix(d) ==
    /\ EngineRuns(d)
    /\ \E frames \in PrefixCommands(d) : QueueCommand(d, frames)
    /\ engine' = [engine EXCEPT ![d] = "prefix"]
    /\ UNCHANGED <<busList, thread, cursor, lifeVars, result, hwVars>>

QueueLast(d) ==
    /\ EngineRuns(d) \/ engine[d] = "prefix"
    /\ \E frames \in Commands(d) : QueueCommand(d, frames)
    /\ engine' = [engine EXCEPT ![d] = "idle"]
    /\ UNCHANGED <<busList, thread, cursor, lifeVars, result, hwVars>>

-----------------------------------------------------------------------------
(* MDIOBus_Main *)

\* MDIODev_pNextDevice
NextDevice(s, d) == IF Position(s, d) = Len(s) THEN None ELSE s[Position(s, d) + 1]
FirstDevice(s) == IF s = <<>> THEN None ELSE Head(s)

\* Where the search for a frame starts.
ScanStart(rec) == IF rec.active = None THEN FirstDevice(rec.first) ELSE rec.active

StillBusy(rec) == rec.busy

\* The second half of the loop: look for a frame unless one is on the wire.
GoOn(b, rec) ==
    /\ bus' = [bus EXCEPT ![b] = rec]
    /\ thread' = [thread EXCEPT ![b] = IF StillBusy(rec) \/ rec.first = <<>> THEN "arm" ELSE "scan"]
    /\ cursor' = [cursor EXCEPT ![b] = IF StillBusy(rec) THEN None ELSE ScanStart(rec)]

Signaled(rec) == rec.timer = "fired" \/ rec.start
\* The wait takes the first signaled object.
Woken(rec) == IF rec.timer = "fired" THEN [rec EXCEPT !.timer = "off"]
                                     ELSE [rec EXCEPT !.start = FALSE]

Awake(b) == thread[b] = "wait" /\ ~bus[b].kill /\ Signaled(bus[b])

\* Neither a transfer is done, or nobody waits for it.
NothingDone(b) ==
    /\ Awake(b)
    /\ ~EIR_MII \/ bus[b].active = None
    /\ EIR_MII' = FALSE
    /\ GoOn(b, Woken(bus[b]))
    /\ UNCHANGED <<busList, lifeVars, devVars, MMFR, MSCR, wire>>

\* Mutant of ClearedMII: the done flag stays set.
KeptMII == EIR_MII

\* The flag is cleared by writing it.
ClearedMII == FALSE

\* The active device's oldest frame goes back to the free list.
TransferDone(b) ==
    LET rec == Woken(bus[b])
        d   == rec.active
    IN  /\ Awake(b) /\ EIR_MII /\ d # None
        /\ EIR_MII' = ClearedMII
        /\ \/ /\ pending[d] # <<>>
              /\ pending' = [pending EXCEPT ![d] = Tail(@)]
              /\ free' = [free EXCEPT ![d] = @ + 1]
              /\ bus' = [bus EXCEPT ![b] = [rec EXCEPT !.busy = FALSE, !.frame = Head(pending[d])]]
           \/ /\ pending[d] = <<>>
              /\ bus' = [bus EXCEPT ![b] = [rec EXCEPT !.busy = FALSE, !.frame = NoFrame]]
              /\ UNCHANGED <<pending, free>>
        /\ thread' = [thread EXCEPT ![b] = "callback"]
        /\ UNCHANGED <<busList, cursor, lifeVars, CmdPending, engine, result, MMFR, MSCR, wire>>

\* Mutant of Candidate: the same device is served first again.
SameDevice(rec) == rec.active

\* The device after the one just served is the first to be asked.
Candidate(rec) == NextDevice(rec.first, rec.active)

Callback(b) ==
    LET rec == bus[b]
        d   == rec.active
    IN  /\ thread[b] = "callback"
        /\ result' = [result EXCEPT ![d] = IF MMFR.done THEN MMFR.frame ELSE NoFrame]
        /\ CmdPending' = [CmdPending EXCEPT ![d] = @ /\ ~rec.frame.last]
        /\ GoOn(b, [rec EXCEPT !.active = Candidate(rec), !.frame = NoFrame])
        /\ UNCHANGED <<busList, lifeVars, free, pending, engine, hwVars>>

\* A frame written over one that is on the wire is lost, or cuts it short.
WriteMMFR(frame) ==
    /\ MMFR' = [frame |-> frame, done |-> FALSE]
    /\ wire' \in IF wire = NoFrame THEN {frame} ELSE {frame, wire}

\* Mutant of Clocked: the clock is set only when it is off.
ClockedBefore(d) == IF MSCR = None THEN d ELSE MSCR

\* The device's own MDIODev_MSCR
Clocked(d) == d

\* The device asked has a frame to send, or the next one is asked.
Scan(b) ==
    LET rec == bus[b]
        d   == cursor[b]
        e   == NextDevice(rec.first, d)
        nxt == IF e = None THEN FirstDevice(rec.first) ELSE e
    IN  /\ thread[b] = "scan"
        /\ \/ /\ pending[d] # <<>>
              /\ WriteMMFR(Head(pending[d]))
              /\ MSCR' = Clocked(d)
              /\ bus' = [bus EXCEPT ![b].active = d, ![b].busy = TRUE]
              /\ thread' = [thread EXCEPT ![b] = "arm"] /\ cursor' = [cursor EXCEPT ![b] = None]
           \/ /\ pending[d] = <<>>
              /\ thread' = [thread EXCEPT ![b] = IF nxt = ScanStart(rec) THEN "arm" ELSE "scan"]
              /\ cursor' = [cursor EXCEPT ![b] = IF nxt = ScanStart(rec) THEN None ELSE nxt]
              /\ UNCHANGED <<bus, MMFR, MSCR, wire>>
        /\ UNCHANGED <<busList, lifeVars, devVars, EIR_MII>>

\* The timer is restarted, or the clock of an idle bus turned off.
Arm(b) ==
    /\ thread[b] = "arm"
    /\ IF bus[b].busy
       THEN bus' = [bus EXCEPT ![b].timer = "set"] /\ UNCHANGED MSCR
       ELSE MSCR' = None /\ UNCHANGED bus
    /\ thread' = [thread EXCEPT ![b] = "wait"]
    /\ UNCHANGED <<busList, cursor, lifeVars, devVars, EIR_MII, MMFR, wire>>

\* Mutant of Killed: the thread looks for the kill event when it is woken.
KilledWhenWoken(b) ==
    /\ thread[b] = "wait" /\ bus[b].kill /\ Signaled(bus[b])
    /\ thread' = [thread EXCEPT ![b] = "ended"]
    /\ bus' = [bus EXCEPT ![b].timer = "off"]
    /\ UNCHANGED <<busList, cursor, lifeVars, devVars, hwVars>>

Killed(b) ==
    /\ thread[b] = "wait" /\ bus[b].kill
    /\ thread' = [thread EXCEPT ![b] = "ended"]
    /\ bus' = [bus EXCEPT ![b].timer = "off"]
    /\ UNCHANGED <<busList, cursor, lifeVars, devVars, hwVars>>

MDIOBus_Main(b) ==
    NothingDone(b) \/ TransferDone(b) \/ Callback(b) \/ Scan(b) \/ Arm(b) \/ Killed(b)

-----------------------------------------------------------------------------
(* The timer and the controller *)

TimerExpires(b) ==
    /\ bus[b].timer = "set"
    /\ bus' = [bus EXCEPT ![b].timer = "fired"]
    /\ UNCHANGED <<busList, thread, cursor, lifeVars, devVars, hwVars>>

FrameSent ==
    /\ wire # NoFrame /\ MSCR # None
    /\ MMFR' = IF MMFR.frame = wire THEN [MMFR EXCEPT !.done = TRUE] ELSE MMFR
    /\ wire' = NoFrame
    /\ EIR_MII' = TRUE
    /\ UNCHANGED <<busVars, thread, cursor, lifeVars, devVars, MSCR>>

Adapter(d) ==
    \/ MDIODev_InitDevice(d) \/ CreateBus(d) \/ LinkBus(d) \/ MDIOBus_AddDevice(d)
    \/ NotInitialized(d) \/ MDIOBus_RemoveDevice(d) \/ MDIOBus_Close(d) \/ FreeBus(d)

Next ==
    \/ \E d \in Devices : Adapter(d) \/ QueuePrefix(d) \/ QueueLast(d)
    \/ \E b \in Buses : MDIOBus_Main(b) \/ TimerExpires(b)
    \/ FrameSent

Spec == Init /\ [][Next]_vars

\* Threads run, the timer expires, the controller sends what is in MMFR, and
\* what an adapter has begun, it goes on with.
Fairness ==
    /\ \A b \in Buses : WF_vars(MDIOBus_Main(b)) /\ WF_vars(TimerExpires(b))
    /\ WF_vars(FrameSent)
    /\ \A d \in Devices : /\ WF_vars(engine[d] = "prefix" /\ QueueLast(d))
                          /\ WF_vars(MDIOBus_Close(d)) /\ WF_vars(FreeBus(d))
FairSpec == Spec /\ Fairness

-----------------------------------------------------------------------------
(* Properties *)

Phases == {"out", "failed", "create", "link", "add", "in", "close", "stopping"}
FrameType == [dev : Devices \cup {None}, nr : Nat, last : BOOLEAN]
BusType == [alive : BOOLEAN, ref : Nat, first : Seq(Devices), active : Devices \cup {None},
            busy : BOOLEAN, start : BOOLEAN, kill : BOOLEAN, timer : {"off", "set", "fired"},
            frame : FrameType]

\* The variables are of their types; no reference count goes below zero.
TypeOK ==
    /\ Config \in Configs
    /\ busList \in Seq(Buses) /\ bus \in [Buses -> BusType]
    /\ thread \in [Buses -> {"none", "wait", "callback", "scan", "arm", "ended"}]
    /\ cursor \in [Buses -> Devices \cup {None}]
    /\ phase \in [Devices -> Phases]
    /\ pBus \in [Devices -> Buses \cup {None}] /\ closing \in [Devices -> Buses \cup {None}]
    /\ free \in [Devices -> Nat] /\ pending \in [Devices -> Seq(FrameType)]
    /\ CmdPending \in [Devices -> BOOLEAN] /\ engine \in [Devices -> {"idle", "prefix"}]
    /\ result \in [Devices -> FrameType]
    /\ EIR_MII \in BOOLEAN /\ MSCR \in Devices \cup {None} /\ wire \in FrameType
    /\ MMFR \in [frame : FrameType, done : BOOLEAN]

\* Every frame of an attached device's array is in its free list or in its
\* pending list: none leaks, and no command of the PHY engine finds too few,
\* although the thread returns frames while the engine takes them.
FramesConserved ==
    \A d \in Devices : phase[d] = "in" => free[d] + Len(pending[d]) = ListSize

\* The frame on the wire is the oldest one of the device the bus waits for: no
\* frame is written over one that is still being sent.
WireIsTracked ==
    wire # NoFrame => \E b \in Buses :
        /\ bus[b].alive /\ bus[b].busy /\ bus[b].active = wire.dev
        /\ pending[wire.dev] # <<>> /\ Head(pending[wire.dev]) = wire

\* The callbacks called for a frame read that frame's own result from MMFR,
\* and belong to a device that has not been removed.
OwnResult ==
    \A b \in Buses : thread[b] = "callback" =>
        /\ bus[b].active \in {d \in Devices : phase[d] = "in"}
        /\ MMFR = [frame |-> bus[b].frame, done |-> TRUE]

\* The bus thread and the wire agree on the frame under way, from the write of
\* MMFR to the callbacks that read the result from it.
ResultsMatch == WireIsTracked /\ OwnResult

\* A frame is sent within the limits of the PHY it is sent to, whichever PHY was
\* served before: slow enough, and held on the wire for long enough. HOLDTIME n
\* stands for n + 1 cycles of the controller's clock.
TimingMet ==
    wire # NoFrame =>
        /\ MSCR = wire.dev
        /\ MdcKHz(Config[MSCR], MII_Div(Config[MSCR])) <= Config[MSCR].maxClk
        /\ (HOLDTIME(Config[MSCR]) + 1) * CycleNs(Config[MSCR]) >= Config[MSCR].minHold

\* What MDIODev_DeinitDevice takes for the bus of an initialized device, what
\* the list of the driver and what a thread runs on has not been freed.
NothingFreedIsUsed ==
    /\ \A d \in Devices : \A b \in {pBus[d], closing[d]} \ {None} : bus[b].alive
    /\ \A b \in Range(busList) : bus[b].alive
    /\ \A b \in Buses : thread[b] # "none" => bus[b].alive

\* There is one bus, with one thread, for the one controller; it lives exactly
\* as long as some device holds a reference.
OneBus ==
    /\ Cardinality({b \in Buses : thread[b] # "none"}) <= 1
    /\ \A b \in Buses : bus[b].alive =>
         bus[b].ref = Cardinality({d \in Devices :
                        b = pBus[d] \/ (b = closing[d] /\ phase[d] = "close")})

\* Initializations and halts of two adapters, in every order and with every
\* failure, leave one bus that is used only while it exists.
BusLifetime == TypeOK /\ NothingFreedIsUsed /\ OneBus

\* A queued command is eventually done, however many commands the other devices
\* on the bus queue, unless the device is removed.
CommandCompletes ==
    \A d \in Devices : CmdPending[d] ~> (~CmdPending[d] \/ phase[d] # "in")

\* A halting adapter is never left waiting for the bus thread to end.
HaltCompletes == \A d \in Devices : phase[d] = "close" ~> phase[d] = "out"

-----------------------------------------------------------------------------
(* Refinement: to each device the bus looks like a MdioDevice of its own    *)

Attached(d) == phase[d] = "in"

\* The frame between its removal from the pending list and its callbacks.
InCallback(d) == {b \in Buses : thread[b] = "callback" /\ bus[b].active = d}
Undone(d) == IF InCallback(d) = {} THEN pending[d]
             ELSE <<bus[CHOOSE b \in InCallback(d) : TRUE].frame>> \o pending[d]

\* What a device's PHY engine sees of the bus while the device is attached.
SeenAttached == [d \in Devices |-> Attached(d)]
SeenQueue == [d \in Devices |-> IF Attached(d) THEN Undone(d) ELSE <<>>]
SeenPending == [d \in Devices |-> Attached(d) /\ CmdPending[d]]
SeenResult == [d \in Devices |-> IF Attached(d) THEN result[d] ELSE NoFrame]

Promise == INSTANCE MdioDevice WITH
    CommandsOf <- [d \in Devices |-> PrefixCommands(d) \cup Commands(d)],
    Nothing    <- NoFrame,
    attached   <- SeenAttached,
    queue      <- SeenQueue,
    CmdPending <- SeenPending,
    result     <- SeenResult

\* Every device gets what MdioDevice promises: its frames in order, each with
\* its own result, and in the end all of them.
ImplementsDevice == Promise!Spec
=============================================================================
