---------------------------- MODULE EcspiRequest ----------------------------
(***************************************************************************)
(* The request engine of the SPI controller driver imxecspi: one SPB       *)
(* request at a time (CurrentRequest) is carried by four kinds of code     *)
(* that run at once, the dispatch routine, the ISR, the DPC (which may run *)
(* on several processors) and the cancel routine, and by the completion    *)
(* routines of the GPIO writes that drive the chip select.  A critical     *)
(* section under DeviceLock or the interrupt lock is one step; everything  *)
(* the code does without a lock is a step of its own.                      *)
(*                                                                         *)
(* Data is abstracted to bursts: a transfer is cur.bursts bursts of at     *)
(* most 512 bytes, and a transfer buffer is its index in the request.      *)
(***************************************************************************)
EXTENDS Integers, Sequences, FiniteSets

CONSTANTS
    Cpus,           \* the processors a DPC may run on
    Ring,           \* MAX_PREPARED_TRANSFERS_COUNT
    MaxTransfers,   \* bound on the transfers of a SEQUENCE request
    MaxBursts,      \* bound on the bursts of a transfer
    MaxRequests,    \* bound on the transfer requests delivered
    MaxLocks,       \* bound on the controller lock requests
    Lifted          \* the assumptions below that do not hold

(***************************************************************************)
(* What the properties assume of the environment, each named for what      *)
(* happens when it is lifted:                                              *)
(*   "overtake" the next request arrives while code of the last one is     *)
(*              still queued or running;                                   *)
(*   "outrun"   the bus finishes every prepared transfer while a DPC is    *)
(*              between counting free slots and testing IsIdle;            *)
(*   "late"     a transfer beyond the first Ring of a sequence is invalid, *)
(*              or its buffer cannot be mapped;                            *)
(*   "split"    a sequence has reads of more than one burst.               *)
(***************************************************************************)
Assumptions == {"overtake", "outrun", "late", "split"}

ASSUME EcspiAssumption ==
    /\ Ring \in Nat \ {0, 1}
    /\ {MaxTransfers, MaxBursts, MaxRequests, MaxLocks} \subseteq Nat \ {0}
    /\ MaxTransfers >= 2
    /\ Lifted \subseteq Assumptions

VARIABLES
    cur,        \* CurrentRequest
    bus,        \* "disabled" (CONREG.EN clear), "off" (enabled, interrupts off), "on"
                \* (interrupts on, burst running) or "hold" (burst due, XCH busy)
    io,         \* the dispatch (or assert completion) thread of each request
    dpc,        \* the DPC on each processor
    dpcQueued,  \* the interrupt's DPC object is in a DPC queue
    cancel,     \* the cancel routine: its step and its request
    want,       \* the client cancelled the outstanding request
    wdf,        \* the framework's cancel state of that request
    smp,        \* the interrupt, and so its DPC, may run on several processors at once
    gpio,       \* the target's chip select is a GPIO pin
    pin,        \* the chip select pin is asserted
    pend,       \* the GPIO writes in flight
    gpioFailed, \* some GPIO write has failed
    lock,       \* IsControllerLocked and LockUnlockRequest
    locks,      \* number of lock requests so far
    given,      \* number of transfer requests so far
    answers     \* the completions of each request

vars == <<cur, bus, io, dpc, dpcQueued, cancel, want, wdf, smp, gpio, pin,
          pend, gpioFailed, lock, locks, given, answers>>

threads == <<io, dpc, dpcQueued, cancel>>
chipSelect == <<smp, gpio, pin, pend, gpioFailed>>
client == <<want, lock, locks, given>>

Slots == 0..Ring - 1
Requests == 1..MaxRequests
Types == {"READ", "WRITE", "FULL_DUPLEX", "SEQUENCE"}
NoTransfer == [idx |-> 0, todo |-> 0]

\* CurrentRequest zeroed
ZeroRequest ==
    [spb |-> 0, type |-> "INVALID", state |-> "INACTIVE", count |-> 0,
     left |-> 0, next |-> 0, idle |-> 0, ready |-> 0, in |-> 0, out |-> 0,
     moved |-> 0, bursts |-> 1, reads |-> FALSE, bad |-> 0,
     xfer |-> [s \in Slots |-> NoTransfer]]

IdleDpc == [pc |-> "idle", n |-> 0, k |-> 0, st |-> "OK"]

Init ==
    /\ cur = ZeroRequest
    /\ bus = "disabled"
    /\ io = [r \in Requests |-> "idle"]
    /\ dpc = [c \in Cpus |-> IdleDpc]
    /\ dpcQueued = FALSE
    /\ cancel = [pc |-> "idle", req |-> 0]
    /\ want = FALSE
    /\ wdf = "plain"
    /\ smp \in BOOLEAN
    /\ gpio \in BOOLEAN
    /\ pin = FALSE
    /\ pend = {}
    /\ gpioFailed = FALSE
    /\ lock = [held |-> FALSE, req |-> FALSE]
    /\ locks = 0
    /\ given = 0
    /\ answers = [r \in Requests |-> <<>>]

-----------------------------------------------------------------------------
\* Completing, aborting and starting

\* Every byte of the request has been transferred (TotalBytesTransferred)
AllMoved(q) == q.moved = q.count * q.bursts

\* Request r is handed back to the framework with status st; of a success it
\* is recorded whether every byte has moved
Answer(r, st, q) ==
    answers' = [answers EXCEPT ![r] =
                  Append(@, [st |-> st, full |-> st = "OK" => AllMoved(q)])]

\* ECSPISpbCompleteTransferRequest on the request record q: whoever
\* exchanges SpbRequest for NULL first completes it
CompleteTransferRequest(q, st) ==
    IF q.spb = 0
    THEN cur' = q /\ UNCHANGED answers
    ELSE /\ cur' = [q EXCEPT !.spb = 0, !.type = "INVALID", !.state = "INACTIVE"]
         /\ Answer(q.spb, st, q)

\* ECSPISpbAbortAllTransfers, the part in CurrentRequest; bus' = "disabled" is
\* the rest (ECSPIHwUnselectTarget)
Aborted(q) == [q EXCEPT !.ready = 0]

\* ECSPIDeviceEnableRequestCancellation: mark the request cancelable, or
\* find it cancelled already and complete it; line is the controller's state
EnableSucceeds(line) ==
    /\ cur.spb # 0
    /\ ~want
    /\ wdf' = "marked"
    /\ cur' = [cur EXCEPT !.state = "CANCELABLE"]
    /\ bus' = line
    /\ UNCHANGED answers

EnableFails ==
    /\ cur.spb # 0
    /\ want
    /\ CompleteTransferRequest(Aborted(cur), "CANCELLED")
    /\ bus' = "disabled"
    /\ UNCHANGED wdf

\* Nothing of the last request is queued or running
Quiet ==
    /\ \A r \in Requests : io[r] = "idle"
    /\ \A c \in Cpus : dpc[c].pc = "idle"
    /\ ~dpcQueued
    /\ cancel.pc = "idle"
    /\ pend = {}

\* The sequential queue hands over the next request
CanDeliver ==
    /\ \A r \in 1..given : answers[r] # <<>>
    /\ ~lock.req
    /\ "overtake" \in Lifted \/ Quiet

-----------------------------------------------------------------------------
\* The dispatch routines

\* Transfers 0..n-1 of a request just zeroed fill the first slots of the ring
FirstPrepared(q, n) ==
    [q EXCEPT !.ready = n, !.in = n % Ring, !.next = n,
              !.xfer = [s \in Slots |-> IF s < n THEN [idx |-> s, todo |-> q.bursts]
                                                 ELSE NoTransfer]]

\* External: the requests a client may send; bad is the 1-based position of a
\* transfer with an invalid length, a delay or a buffer that cannot be mapped,
\* 0 when there is none.  The direction of a SEQUENCE only matters when a
\* transfer has several bursts.
ClientSends(type, count, bursts, reads, bad) ==
    /\ type \in {"READ", "WRITE"} => count = 1
    /\ type # "SEQUENCE" => reads = (type = "READ")
    /\ type = "SEQUENCE" /\ reads => bursts > 1 /\ "split" \in Lifted
    /\ bad <= count
    /\ bad <= Ring \/ "late" \in Lifted

\* ECSPIpSpbInitiateIo up to the end of ECSPIpSpbPrepareRequest
InitiateIo(type, count, bursts, reads, bad) ==
    LET r == given + 1
        n == IF count < Ring THEN count ELSE Ring
        q == [ZeroRequest EXCEPT !.spb = r, !.type = type, !.count = count,
                                 !.left = count, !.bursts = bursts, !.reads = reads,
                                 !.bad = bad]
        valid == /\ count # 0
                 /\ type = "FULL_DUPLEX" => count = 2
                 /\ bad = 0 \/ bad > n
    IN  /\ given < MaxRequests
        /\ CanDeliver
        /\ ClientSends(type, count, bursts, reads, bad)
        /\ given' = r
        /\ want' = FALSE
        /\ wdf' = "plain"
        /\ IF valid
           THEN /\ cur' = FirstPrepared(q, n)
                /\ io' = [io EXCEPT ![r] = "go"]
                /\ UNCHANGED answers
           ELSE /\ CompleteTransferRequest(q, "ERROR")
                /\ UNCHANGED io
        /\ UNCHANGED <<bus, dpc, dpcQueued, cancel, chipSelect, lock, locks>>

\* ECSPIpDeviceSetGpioPin: the write is sent, or refused at once
SendGpio(write) == pend' = pend \cup {write} /\ UNCHANGED <<smp, gpio, pin, gpioFailed>>
RefuseGpio == gpioFailed' = TRUE /\ UNCHANGED <<smp, gpio, pin, pend>>

\* The rest of ECSPIpSpbInitiateIo on a locked controller
GoLocked(r) ==
    /\ io[r] = "go"
    /\ lock.held
    /\ \/ EnableSucceeds(bus) /\ io' = [io EXCEPT ![r] = "armedLocked"]
       \/ EnableFails /\ io' = [io EXCEPT ![r] = "idle"]
    /\ UNCHANGED <<dpc, dpcQueued, cancel, chipSelect, client>>

\* ... and on one that is not, ECSPIDeviceAssertCS without a GPIO pin
\* (ECSPIHwSelectTarget enables the block)
GoDirect(r) ==
    /\ io[r] = "go"
    /\ ~lock.held
    /\ ~gpio
    /\ \/ EnableSucceeds("off") /\ io' = [io EXCEPT ![r] = "armed"]
       \/ EnableFails /\ io' = [io EXCEPT ![r] = "cancelled"]
    /\ UNCHANGED <<dpc, dpcQueued, cancel, chipSelect, client>>

\* Mutant: the transfer starts without waiting for the write
GoGpioNoWait(r) ==
    /\ io[r] = "go"
    /\ ~lock.held
    /\ gpio
    /\ EnableSucceeds("off")
    /\ SendGpio("assert")
    /\ io' = [io EXCEPT ![r] = "armed"]
    /\ UNCHANGED <<dpc, dpcQueued, cancel, client>>

\* ... and with one
GoGpio(r) ==
    /\ io[r] = "go"
    /\ ~lock.held
    /\ gpio
    /\ io' = [io EXCEPT ![r] = "idle"]
    /\ bus' = "off"
    /\ \/ SendGpio("assert") /\ UNCHANGED <<cur, answers>>
       \/ RefuseGpio /\ CompleteTransferRequest(cur, "ERROR")
    /\ UNCHANGED <<dpc, dpcQueued, cancel, client, wdf>>

\* ECSPISpbStartNextTransfer: a prepared transfer starts, unless the block is
\* disabled, which only ECSPIHwSelectTarget changes
Started == IF cur.ready # 0 /\ bus # "disabled" THEN "on" ELSE bus

\* ECSPISpbStartTransferSafe after cancellation was enabled: a cancel that
\* came in between has left nothing to start
StartTransferSafe(r) ==
    /\ io[r] \in {"armed", "armedLocked"}
    /\ bus' = Started
    /\ io' = [io EXCEPT ![r] = IF cur.ready = 0 /\ io[r] = "armed" THEN "failed" ELSE "idle"]
    /\ UNCHANGED <<cur, answers, dpc, dpcQueued, cancel, chipSelect, client, wdf>>

\* The thread that could not start the request completes it, without a lock,
\* even if ECSPIDeviceEnableRequestCancellation has done so before
CompleteFailed(r) ==
    /\ io[r] \in {"failed", "cancelled"}
    /\ io' = [io EXCEPT ![r] = "idle"]
    /\ CompleteTransferRequest(cur, IF io[r] = "failed" THEN "ERROR" ELSE "CANCELLED")
    /\ UNCHANGED <<bus, dpc, dpcQueued, cancel, chipSelect, client, wdf>>

\* ECSPIEvtSpbControllerLock and ECSPIEvtSpbControllerUnlock; a GPIO write
\* that cannot be sent leaves the lock request unanswered for ever
ControllerLock ==
    /\ locks < MaxLocks
    /\ CanDeliver
    /\ ~lock.held
    /\ locks' = locks + 1
    /\ bus' = "off"
    /\ lock' = [held |-> TRUE, req |-> gpio]
    /\ \/ gpio /\ (SendGpio("assert") \/ RefuseGpio)
       \/ ~gpio /\ UNCHANGED chipSelect
    /\ UNCHANGED <<threads, cur, want, wdf, given, answers>>

ControllerUnlock ==
    /\ CanDeliver
    /\ lock.held
    /\ bus' = "disabled"
    /\ lock' = [held |-> FALSE, req |-> gpio]
    /\ \/ gpio /\ (SendGpio("negate") \/ RefuseGpio)
       \/ ~gpio /\ UNCHANGED chipSelect
    /\ UNCHANGED <<threads, cur, want, wdf, locks, given, answers>>

-----------------------------------------------------------------------------
\* The ISR (under the interrupt lock)

\* The active transfer
Active == cur.xfer[cur.out]

\* One more burst of the active transfer is done
BurstDone == [cur EXCEPT !.moved = @ + 1, !.xfer[cur.out].todo = @ - 1]

\* The ISR on a READ or WRITE: at the end of a burst the next one is started,
\* unless a READ finds XCH still busy and leaves it to the DPC
IsrSingle ==
    /\ bus = "on"
    /\ cur.type \in {"READ", "WRITE"}
    /\ cur' = BurstDone
    /\ \/ Active.todo = 1 /\ bus' = "off" /\ dpcQueued' = TRUE
       \/ Active.todo > 1 /\ UNCHANGED <<bus, dpcQueued>>
       \/ /\ Active.todo > 1
          /\ cur.type = "READ"
          /\ bus' = "hold"
          /\ dpcQueued' = TRUE
    /\ UNCHANGED <<io, dpc, cancel, chipSelect, client, wdf, answers>>

\* The two active transfers of a FULL_DUPLEX request
BothActive == {cur.out, (cur.out + 1) % Ring}
BothBurstsDone ==
    [s \in Slots |-> IF s \in BothActive THEN [cur.xfer[s] EXCEPT !.todo = @ - 1] ELSE cur.xfer[s]]

\* The ISR on a FULL_DUPLEX request, whose two transfers move together
IsrFullDuplex ==
    /\ bus = "on"
    /\ cur.type = "FULL_DUPLEX"
    /\ cur' = [cur EXCEPT !.moved = @ + 2, !.xfer = BothBurstsDone]
    /\ \/ Active.todo = 1 /\ bus' = "off" /\ dpcQueued' = TRUE
       \/ Active.todo > 1 /\ UNCHANGED <<bus, dpcQueued>>
    /\ UNCHANGED <<io, dpc, cancel, chipSelect, client, wdf, answers>>

\* A transfer of a SEQUENCE ends when ECSPIHwReadRxFIFO returns TRUE: all its
\* data has moved, or its next burst is due and XCH is still busy
IsrSequenceBurst ==
    /\ bus = "on"
    /\ cur.type = "SEQUENCE"
    /\ Active.todo > 1
    /\ cur' = BurstDone
    /\ UNCHANGED <<bus, io, dpc, dpcQueued, cancel, chipSelect, client, wdf, answers>>

\* A DPC has counted the free slots and not yet tested IsIdle
DpcRefilling == \E c \in Cpus : dpc[c].pc \in {"fill", "arm", "kick"}

\* The progress of a request whose active SEQUENCE transfer ends
TransferEnded == [BurstDone EXCEPT !.ready = @ - 1, !.left = @ - 1, !.out = (@ + 1) % Ring]

\* Mutants: the test of the ready count is off by one; IsIdle is not set
StarvedBelowZero(q) == q.left # 0 /\ q.ready < 0
MarkIdleNever(q) == q

\* No transfer is ready and the request has more
Starved(q) == q.left # 0 /\ q.ready = 0

\* IsIdle is set when nothing could be started
MarkIdle(q) == IF Starved(q) THEN [q EXCEPT !.idle = 1] ELSE q

\* The ISR at the end of a SEQUENCE transfer, ECSPISpbCompleteSequenceTransfer:
\* the next prepared transfer starts, or the request is marked idle
IsrSequenceTransfer ==
    /\ bus = "on"
    /\ cur.type = "SEQUENCE"
    /\ Active.todo = 1 \/ cur.reads
    /\ Starved(TransferEnded) => ~DpcRefilling \/ "outrun" \in Lifted
    /\ cur' = MarkIdle(TransferEnded)
    /\ bus' = IF TransferEnded.left # 0 /\ ~Starved(TransferEnded) THEN "on" ELSE "off"
    /\ dpcQueued' = TRUE
    /\ UNCHANGED <<io, dpc, cancel, chipSelect, client, wdf, answers>>

-----------------------------------------------------------------------------
\* The DPC

At(c, pc) == dpc' = [dpc EXCEPT ![c].pc = pc]
Leaves(c) == dpc' = [dpc EXCEPT ![c] = IdleDpc]

DpcBegin(c) ==
    /\ dpcQueued
    /\ dpc[c].pc = "idle"
    /\ smp \/ \A d \in Cpus : dpc[d].pc = "idle"
    /\ dpcQueued' = FALSE
    /\ At(c, "run")
    /\ UNCHANGED <<cur, bus, io, cancel, chipSelect, client, wdf, answers>>

\* A READ waits for its next burst
BurstDue == cur.type = "READ" /\ Active.todo > 0 /\ bus = "hold"

\* The test for a delayed burst, without a lock
DpcReadDelayed(c) ==
    /\ dpc[c].pc = "run"
    /\ BurstDue
    /\ At(c, "poll")
    /\ UNCHANGED <<cur, bus, io, dpcQueued, cancel, chipSelect, client, wdf, answers>>

\* XCH is polled under DeviceLock for one SPI clock: the next burst starts, or
\* the wait times out.  XCH of a controller that has been reset since is clear,
\* and nothing starts.
DpcNextBurst(c) ==
    /\ dpc[c].pc = "poll"
    /\ \/ bus = "hold" /\ bus' = "on" /\ Leaves(c)
       \/ bus # "hold" /\ UNCHANGED bus /\ Leaves(c)
       \/ bus \in {"on", "hold"} /\ UNCHANGED bus /\ At(c, "late")
    /\ UNCHANGED <<cur, io, dpcQueued, cancel, chipSelect, client, wdf, answers>>

\* ECSPIDeviceDisableRequestCancellation
DpcDisableCancel(c) ==
    /\ (dpc[c].pc = "run" /\ ~BurstDue) \/ dpc[c].pc = "late"
    /\ IF cur.spb = 0 \/ cur.state # "CANCELABLE"
       THEN Leaves(c) /\ UNCHANGED <<cur, bus, wdf>>
       ELSE IF wdf = "called"
       THEN Leaves(c) /\ cur' = Aborted(cur) /\ bus' = "disabled" /\ UNCHANGED wdf
       ELSE /\ At(c, IF dpc[c].pc = "late" THEN "timeout" ELSE "own")
            /\ cur' = [cur EXCEPT !.state = "NOT_CANCELABLE"]
            /\ wdf' = "plain"
            /\ UNCHANGED bus
    /\ UNCHANGED <<io, dpcQueued, cancel, chipSelect, client, answers>>

\* A timed-out READ is completed with its chip select left as it is
DpcTimeOut(c) ==
    /\ dpc[c].pc = "timeout"
    /\ CompleteTransferRequest(cur, "TIMEOUT")
    /\ Leaves(c)
    /\ UNCHANGED <<bus, io, dpcQueued, cancel, chipSelect, client, wdf>>

\* Free slots of the ring and transfers still to prepare, whichever is less
\* (ECSPISpbPrepareNextTransfer)
TransfersToPrepare ==
    LET space == Ring - cur.ready
        more == cur.count - cur.next
    IN  IF more < space THEN more ELSE space

\* Mutant: a SEQUENCE is taken for done once all its transfers are prepared
DpcOwnPreparedIsDone(c) ==
    /\ dpc[c].pc = "own"
    /\ dpc' = [dpc EXCEPT ![c] =
                 IF cur.type = "SEQUENCE" /\ cur.next # cur.count
                 THEN [@ EXCEPT !.pc = "fill", !.n = TransfersToPrepare]
                 ELSE [@ EXCEPT !.pc = "finish"]]
    /\ UNCHANGED <<cur, bus, io, dpcQueued, cancel, chipSelect, client, wdf, answers>>

\* A SEQUENCE that is not done has more transfers prepared; any other request is complete
DpcOwn(c) ==
    /\ dpc[c].pc = "own"
    /\ dpc' = [dpc EXCEPT ![c] =
                 IF cur.type = "SEQUENCE" /\ cur.left # 0
                 THEN [@ EXCEPT !.pc = "fill", !.n = TransfersToPrepare]
                 ELSE [@ EXCEPT !.pc = "finish"]]
    /\ UNCHANGED <<cur, bus, io, dpcQueued, cancel, chipSelect, client, wdf, answers>>

\* One turn of ECSPISpbPrepareNextTransfer's loop, which holds no lock
DpcPrepare(c) ==
    LET k == dpc[c].k
        i == cur.next + k
    IN  /\ dpc[c].pc = "fill"
        /\ k < dpc[c].n
        /\ IF cur.bad = i + 1
           THEN /\ dpc' = [dpc EXCEPT ![c].pc = "finish", ![c].st = "ERROR"]
                /\ UNCHANGED cur
           ELSE /\ dpc' = [dpc EXCEPT ![c].k = k + 1]
                /\ cur' = [cur EXCEPT !.xfer[(cur.in + k) % Ring] =
                                          [idx |-> i, todo |-> cur.bursts],
                                      !.ready = @ + 1]
        /\ UNCHANGED <<bus, io, dpcQueued, cancel, chipSelect, client, wdf, answers>>

\* The end of that loop
DpcPrepared(c) ==
    /\ dpc[c].pc = "fill"
    /\ dpc[c].k = dpc[c].n
    /\ cur' = [cur EXCEPT !.in = (@ + dpc[c].n) % Ring, !.next = @ + dpc[c].n]
    /\ At(c, "arm")
    /\ UNCHANGED <<bus, io, dpcQueued, cancel, chipSelect, client, wdf, answers>>

DpcEnableCancel(c) ==
    /\ dpc[c].pc = "arm"
    /\ \/ EnableSucceeds(bus) /\ At(c, "kick")
       \/ EnableFails /\ Leaves(c)
    /\ UNCHANGED <<io, dpcQueued, cancel, chipSelect, client>>

\* The exchange of IsIdle
DpcTestIdle(c) ==
    /\ dpc[c].pc = "kick"
    /\ cur' = [cur EXCEPT !.idle = 0]
    /\ IF cur.idle # 0 THEN At(c, "start") ELSE Leaves(c)
    /\ UNCHANGED <<bus, io, dpcQueued, cancel, chipSelect, client, wdf, answers>>

DpcStart(c) ==
    /\ dpc[c].pc = "start"
    /\ bus' = Started
    /\ Leaves(c)
    /\ UNCHANGED <<cur, io, dpcQueued, cancel, chipSelect, client, wdf, answers>>

\* Request completion; the status of ECSPIDeviceNegateCS replaces the one
\* the DPC came with
DpcFinish(c) ==
    /\ dpc[c].pc = "finish"
    /\ Leaves(c)
    /\ \/ lock.held /\ CompleteTransferRequest(cur, dpc[c].st) /\ UNCHANGED chipSelect
       \/ ~lock.held /\ ~gpio /\ CompleteTransferRequest(cur, "OK") /\ UNCHANGED chipSelect
       \/ ~lock.held /\ gpio /\ SendGpio("negate") /\ UNCHANGED <<cur, answers>>
       \/ ~lock.held /\ gpio /\ RefuseGpio /\ CompleteTransferRequest(cur, "ERROR")
    /\ UNCHANGED <<bus, io, dpcQueued, cancel, client, wdf>>

-----------------------------------------------------------------------------
\* Cancellation

\* External: the client cancels the outstanding request; the framework calls
\* the cancel routine when one is set
ClientCancel ==
    /\ given > 0
    /\ answers[given] = <<>>
    /\ ~want
    /\ want' = TRUE
    /\ IF wdf = "marked"
       THEN wdf' = "called" /\ cancel' = [pc |-> "run", req |-> given]
       ELSE UNCHANGED <<wdf, cancel>>
    /\ UNCHANGED <<cur, bus, io, dpc, dpcQueued, chipSelect, lock, locks, given, answers>>

\* Mutant: SpbRequest is not cleared
CancelKeepsRequest ==
    LET q == [Aborted(cur) EXCEPT !.state = "CANCELED"]
    IN  /\ cancel.pc = "run"
        /\ bus' = "disabled"
        /\ cur' = q
        /\ \/ (lock.held \/ ~gpio) /\ UNCHANGED chipSelect
              /\ cancel' = [pc |-> "complete", req |-> cur.spb]
           \/ /\ ~lock.held /\ gpio /\ SendGpio("negate")
              /\ cancel' = [cancel EXCEPT !.pc = "idle"]
        /\ UNCHANGED <<io, dpc, dpcQueued, client, wdf, answers>>

\* The section of ECSPIEvtRequestCancel under DeviceLock: the request is taken
\* out of CurrentRequest, or left there for the completion of the negation
Cancel ==
    LET q == [Aborted(cur) EXCEPT !.state = "CANCELED"]
        Take == /\ cur' = [q EXCEPT !.spb = 0]
                /\ cancel' = [pc |-> "complete", req |-> cur.spb]
    IN  /\ cancel.pc = "run"
        /\ bus' = "disabled"
        /\ IF cur.spb = 0
           THEN /\ cur' = Aborted(cur)
                /\ cancel' = [cancel EXCEPT !.pc = "idle"]
                /\ UNCHANGED chipSelect
           ELSE \/ (lock.held \/ ~gpio) /\ Take /\ UNCHANGED chipSelect
                \/ ~lock.held /\ gpio /\ RefuseGpio /\ Take
                \/ /\ ~lock.held /\ gpio
                   /\ SendGpio("negate")
                   /\ cur' = q
                   /\ cancel' = [cancel EXCEPT !.pc = "idle"]
        /\ UNCHANGED <<io, dpc, dpcQueued, client, wdf, answers>>

\* ... and after it
CancelComplete ==
    /\ cancel.pc = "complete"
    /\ cancel' = [cancel EXCEPT !.pc = "idle"]
    /\ cur' = [cur EXCEPT !.type = "INVALID", !.state = "INACTIVE"]
    /\ Answer(cancel.req, "CANCELLED", cur)
    /\ UNCHANGED <<bus, io, dpc, dpcQueued, chipSelect, client, wdf>>

-----------------------------------------------------------------------------
\* The completion routines of the GPIO writes

GpioWritten(write, ok) ==
    /\ write \in pend
    /\ pend' = pend \ {write}
    /\ pin' = IF ok THEN write = "assert" ELSE pin
    /\ gpioFailed' = (gpioFailed \/ ~ok)
    /\ UNCHANGED <<smp, gpio>>

\* The (un)lock request, which is answered with success whatever the write did
LockAnswered(write, ok) ==
    /\ GpioWritten(write, ok)
    /\ lock.req
    /\ lock' = [lock EXCEPT !.req = FALSE]
    /\ UNCHANGED <<threads, cur, bus, want, wdf, locks, given, answers>>

\* ECSPIpGpioAssertCompletionRoutine for a transfer request
AssertDone(ok) ==
    /\ GpioWritten("assert", ok)
    /\ ~lock.req
    /\ \/ ~ok /\ CompleteTransferRequest(cur, "ERROR") /\ UNCHANGED <<bus, io, wdf>>
       \/ ok /\ EnableSucceeds(bus) /\ io' = [io EXCEPT ![cur.spb] = "armed"]
       \/ ok /\ EnableFails /\ UNCHANGED io
    /\ UNCHANGED <<dpc, dpcQueued, cancel, client>>

\* ECSPIpGpioNegateCompletionRoutine for a transfer request
NegateDone(ok) ==
    LET st == IF cur.state = "CANCELED" THEN "CANCELLED" ELSE IF ok THEN "OK" ELSE "ERROR"
    IN  /\ GpioWritten("negate", ok)
        /\ ~lock.req
        /\ CompleteTransferRequest(cur, st)
        /\ UNCHANGED <<bus, threads, client, wdf>>

-----------------------------------------------------------------------------
Isr == IsrSingle \/ IsrFullDuplex \/ IsrSequenceBurst \/ IsrSequenceTransfer

Dpc(c) ==
    \/ DpcReadDelayed(c) \/ DpcNextBurst(c) \/ DpcDisableCancel(c) \/ DpcTimeOut(c) \/ DpcOwn(c)
    \/ DpcPrepare(c) \/ DpcPrepared(c) \/ DpcEnableCancel(c)
    \/ DpcTestIdle(c) \/ DpcStart(c) \/ DpcFinish(c)

Dispatch(r) ==
    GoLocked(r) \/ GoDirect(r) \/ GoGpio(r) \/ StartTransferSafe(r) \/ CompleteFailed(r)

Gpio ==
    \E ok \in BOOLEAN :
        \/ \E write \in {"assert", "negate"} : LockAnswered(write, ok)
        \/ AssertDone(ok) \/ NegateDone(ok)

Deliver ==
    \/ \E type \in Types, count \in 0..MaxTransfers, bursts \in 1..MaxBursts,
          reads \in BOOLEAN, bad \in 0..MaxTransfers : InitiateIo(type, count, bursts, reads, bad)
    \/ ControllerLock \/ ControllerUnlock

Next ==
    \/ Deliver \/ ClientCancel
    \/ \E r \in Requests : Dispatch(r)
    \/ Isr
    \/ \E c \in Cpus : DpcBegin(c) \/ Dpc(c)
    \/ Cancel \/ CancelComplete
    \/ Gpio

Spec == Init /\ [][Next]_vars

\* The driver's threads run, the bus moves its data, a queued DPC is run and
\* the GPIO driver completes its writes.  Nothing is assumed of the client.
FairSpec ==
    /\ Spec
    /\ \A r \in Requests : WF_vars(Dispatch(r))
    /\ \A c \in Cpus : WF_vars(Dpc(c))
    /\ WF_vars(\E c \in Cpus : DpcBegin(c))
    /\ WF_vars(Isr)
    /\ WF_vars(Cancel \/ CancelComplete)
    /\ WF_vars(Gpio)

-----------------------------------------------------------------------------
\* Properties

Transfer == [idx : 0..MaxTransfers, todo : 0..MaxBursts]

\* Type correctness; the ring holds at most Ring prepared transfers and
\* IsIdle is a flag (ECSPI_SPB_REQUEST).
TypeOK ==
    /\ cur \in [spb : 0..MaxRequests, type : Types \cup {"INVALID"},
                state : {"INACTIVE", "CANCELABLE", "NOT_CANCELABLE", "CANCELED"},
                count : 0..MaxTransfers, left : 0..MaxTransfers,
                next : 0..MaxTransfers, idle : {0, 1}, ready : 0..Ring,
                in : Slots, out : Slots, moved : 0..MaxTransfers * MaxBursts,
                bursts : 1..MaxBursts, reads : BOOLEAN, bad : 0..MaxTransfers,
                xfer : [Slots -> Transfer]]
    /\ bus \in {"disabled", "off", "on", "hold"}
    /\ io \in [Requests -> {"idle", "go", "armed", "armedLocked", "failed", "cancelled"}]
    /\ dpc \in [Cpus -> [pc : {"idle", "run", "poll", "late", "timeout", "own", "fill", "arm",
                               "kick", "start", "finish"},
                         n : 0..Ring, k : 0..Ring, st : {"OK", "ERROR"}]]
    /\ {dpcQueued, want, smp, gpio, pin, gpioFailed} \subseteq BOOLEAN
    /\ cancel \in [pc : {"idle", "run", "complete"}, req : 0..MaxRequests]
    /\ wdf \in {"plain", "marked", "called"}
    /\ pend \subseteq {"assert", "negate"}
    /\ lock \in [held : BOOLEAN, req : BOOLEAN]
    /\ locks \in 0..MaxLocks
    /\ given \in 0..MaxRequests
    /\ answers \in [Requests ->
                      Seq([st : {"OK", "ERROR", "CANCELLED", "TIMEOUT"}, full : BOOLEAN])]

\* A request is completed at most once, whichever of the DPC, the cancel
\* routine, the dispatch thread and the two GPIO completion routines gets to
\* it: completing a WDF request twice is fatal.
CompletedOnce == \A r \in Requests : Len(answers[r]) <= 1

\* A request reported as successful has moved all the data of all its transfers.
SuccessMeansDone ==
    \A r \in Requests : \A i \in DOMAIN answers[r] :
        answers[r][i].full

\* The controller only moves data for a request that the driver still owns:
\* after completion the buffers belong to the client again.
NoLateIo == bus = "on" => cur.spb # 0

\* The ISR consumes the ring in the order the client gave the transfers: the
\* slot it works on holds the transfer that is next, never one that the DPC has
\* overwritten or has yet to fill.
TransfersInOrder ==
    bus \in {"on", "hold"} /\ cur.spb # 0 =>
        Active.idx = cur.count - cur.left /\ Active.todo > 0

\* The ISR moves the transfers of the request the driver holds, in their order,
\* and nothing else.
OnlyOwnTransfers == TypeOK /\ NoLateIo /\ TransfersInOrder

\* Data moves only while the chip select is asserted, through aborts, cancels
\* and locks, as long as the GPIO driver performs the writes.
SelectedWhileMoving == bus = "on" /\ gpio /\ ~gpioFailed => pin

\* Once an unlocked request has succeeded and nothing is running, its device is deselected.
DeselectedAfterSuccess ==
    /\ gpio /\ ~gpioFailed
    /\ Quiet /\ ~lock.held /\ ~lock.req
    /\ given > 0
    /\ \E i \in DOMAIN answers[given] : answers[given][i].st = "OK"
    => ~pin

\* The GPIO chip select frames the data: asserted before the first word, through
\* the last one, and negated again when the request was a success.
ChipSelectFrames == SelectedWhileMoving /\ DeselectedAfterSuccess

\* A request under a lock that was started on a disabled block: a cancel, or an
\* abort, of an earlier one under the same lock has cleared CONREG.EN
\* (ECSPIHwUnselectTarget), and the start of a locked request does not set it.
\* Nothing will move unless the client cancels this one too.
Stranded == Quiet /\ lock.held /\ bus = "disabled" /\ cur.spb # 0

\* Every request is completed when the DPCs run one after the other: no
\* wake-up between the ISR and the DPC of a sequence is lost, and a cancelled
\* request is not left to a routine that does not come.  The one exception is
\* a stranded request.
EveryRequestCompletes ==
    \A r \in Requests :
        ~smp /\ given = r /\ answers[r] = <<>> ~> answers[r] # <<>> \/ Stranded

\* The same when they run side by side, which ECSPIEvtInterruptDpc calls a
\* benign case: a DPC that finds the request in the hands of another one may
\* leave.
SecondDpcMayLeave ==
    \A r \in Requests :
        smp /\ given = r /\ answers[r] = <<>> ~> answers[r] # <<>> \/ Stranded
=============================================================================
