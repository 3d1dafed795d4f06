------------------------ MODULE EcspiRequestProofs ------------------------
(***************************************************************************)
(* No SPB request is completed twice, for any number of processors, ring   *)
(* size, transfers and requests, and whichever of the assumptions in       *)
(* Assumptions are lifted.  When none but "outrun" is, a successful request*)
(* is a complete one, the ISR works on the transfers of the request in     *)
(* their order, and the chip select frames the data.                       *)
(*                                                                         *)
(* CompletedOnce is not inductive. A routine completes what it finds in    *)
(* SpbRequest, or what the cancel routine has taken from there, so these   *)
(* two must always name requests that have not been answered, and never    *)
(* the same one.  The rest needs to know which thread has the request at   *)
(* every moment, which transfers are ready, and where the chip select is.  *)
(***************************************************************************)
EXTENDS EcspiRequest, RingLemmas, TLAPS

\* The request in CurrentRequest has been given to the driver and not answered.
OwnedInv ==
    /\ "spb" \in DOMAIN cur
    /\ given \in 0..MaxRequests
    /\ cur.spb \in 0..given
    /\ cur.spb # 0 => answers[cur.spb] = <<>>

\* Nor has the one the cancel routine has taken, which is another one.
TakenInv ==
    /\ cancel \in [pc : {"idle", "run", "complete"}, req : Nat]
    /\ cancel.pc = "complete" => /\ cancel.req \in 1..given
                                 /\ cancel.req # cur.spb
                                 /\ answers[cancel.req] = <<>>

\* What has not been given has not been answered.
AnswersInv ==
    /\ DOMAIN answers = Requests
    /\ answers = [r \in Requests |-> answers[r]]
    /\ \A r \in Requests : r > given => answers[r] = <<>>
    /\ \A r \in Requests : Len(answers[r]) <= 1

OnceInv == OwnedInv /\ TakenInv /\ AnswersInv

\* The invariant holds initially: nothing is given, owned or taken.
LEMMA InitOnce == Init => OnceInv
  BY EcspiAssumption DEF Init, OnceInv, OwnedInv, TakenInv, AnswersInv, ZeroRequest, Requests

\* A step that neither answers nor exchanges the request keeps the invariant.
LEMMA SameRequest ==
  ASSUME OnceInv, "spb" \in DOMAIN cur', cur'.spb = cur.spb,
         UNCHANGED <<given, cancel, answers>>
  PROVE  OnceInv'
  BY DEF OnceInv, OwnedInv, TakenInv, AnswersInv

\* The first answer to a request that has been given.
LEMMA AnswerOnce ==
  ASSUME AnswersInv, NEW r \in Requests, answers[r] = <<>>, NEW st, NEW q, Answer(r, st, q),
         r <= given', given' >= given, given \in Nat, given' \in Nat
  PROVE  /\ AnswersInv'
         /\ \A s \in Requests : s # r => answers'[s] = answers[s]
<1>1. PICK x : answers' = [answers EXCEPT ![r] = Append(@, x)]
  BY DEF Answer
<1>2. answers'[r] = <<x>> /\ \A s \in Requests : s # r => answers'[s] = answers[s]
  BY <1>1 DEF AnswersInv
<1>3. Len(answers'[r]) = 1
  BY <1>2
<1>4. DOMAIN answers' = Requests /\ answers' = [s \in Requests |-> answers'[s]]
  BY <1>1 DEF AnswersInv
<1>5. \A s \in Requests : s > given' => answers'[s] = <<>>
  BY <1>2, EcspiAssumption DEF AnswersInv, Requests
<1>6. \A s \in Requests : Len(answers'[s]) <= 1
  <2> TAKE s \in Requests
  <2>1. CASE s = r
    BY <2>1, <1>3
  <2>2. CASE s # r
    <3>1. answers'[s] = answers[s] /\ Len(answers[s]) <= 1
      BY <2>2, <1>2 DEF AnswersInv
    <3> QED
      BY <3>1
  <2> QED
    BY <2>1, <2>2
<1> QED
  BY <1>2, <1>4, <1>5, <1>6 DEF AnswersInv, Requests

\* ECSPISpbCompleteTransferRequest on CurrentRequest, with whatever other fields
\* its caller has changed, keeps the invariant.
LEMMA CompleteOnce ==
  ASSUME OnceInv, NEW q, "spb" \in DOMAIN q, q.spb = cur.spb, NEW st,
         CompleteTransferRequest(q, st), UNCHANGED <<given, cancel>>
  PROVE  OnceInv'
<1>1. CASE q.spb = 0
  BY <1>1, SameRequest DEF CompleteTransferRequest
<1>2. CASE q.spb # 0
  <2>1. /\ cur' = [q EXCEPT !.spb = 0, !.type = "INVALID", !.state = "INACTIVE"]
        /\ Answer(cur.spb, st, q)
    BY <1>2 DEF CompleteTransferRequest
  <2>2. "spb" \in DOMAIN cur' /\ cur'.spb = 0
    BY <2>1
  <2>3. cur.spb \in Requests /\ answers[cur.spb] = <<>> /\ cur.spb <= given /\ given \in Nat
    BY <1>2, EcspiAssumption DEF OnceInv, OwnedInv, Requests
  <2>4. AnswersInv' /\ \A s \in Requests : s # cur.spb => answers'[s] = answers[s]
    BY <2>1, <2>3, AnswerOnce DEF OnceInv
  <2>5. OwnedInv'
    BY <2>2, <2>3 DEF OnceInv, OwnedInv
  <2>6. TakenInv'
    BY <2>2, <2>4, EcspiAssumption DEF OnceInv, OwnedInv, TakenInv, Requests
  <2> QED
    BY <2>4, <2>5, <2>6 DEF OnceInv
<1> QED
  BY <1>1, <1>2

\* One step per action: which of the lemmas it follows from.
LEMMA OncePreserved == OnceInv /\ [Next]_vars => OnceInv'
<1> SUFFICES ASSUME OnceInv, [Next]_vars PROVE OnceInv'
  OBVIOUS
<1> USE DEF threads, chipSelect, client
<1>0. "spb" \in DOMAIN cur
  BY DEF OnceInv, OwnedInv
<1>1. ASSUME EnableFails, UNCHANGED <<given, cancel>> PROVE OnceInv'
  <2>1. "spb" \in DOMAIN Aborted(cur) /\ Aborted(cur).spb = cur.spb
    BY <1>0 DEF Aborted
  <2> QED
    BY <1>1, <2>1, CompleteOnce DEF EnableFails
<1>2. ASSUME NEW line, EnableSucceeds(line), UNCHANGED <<given, cancel>> PROVE OnceInv'
  BY <1>0, <1>2, SameRequest DEF EnableSucceeds
<1>3. ASSUME NEW st, CompleteTransferRequest(cur, st), UNCHANGED <<given, cancel>> PROVE OnceInv'
  BY <1>0, <1>3, CompleteOnce
<1>4. ASSUME UNCHANGED <<cur, given, cancel, answers>> PROVE OnceInv'
  BY <1>0, <1>4, SameRequest
<1>5. ASSUME NEW type \in Types, NEW count \in 0..MaxTransfers, NEW bursts \in 1..MaxBursts,
             NEW reads \in BOOLEAN, NEW bad \in 0..MaxTransfers,
             InitiateIo(type, count, bursts, reads, bad)
      PROVE  OnceInv'
  <2> DEFINE r == given + 1
             n == IF count < Ring THEN count ELSE Ring
             q == [ZeroRequest EXCEPT !.spb = r, !.type = type, !.count = count,
                                      !.left = count, !.bursts = bursts, !.reads = reads,
                                      !.bad = bad]
  <2>1. /\ given \in Nat /\ given' = r /\ r \in Requests /\ answers[r] = <<>>
        /\ cancel' = cancel
    BY <1>5, EcspiAssumption DEF InitiateIo, OnceInv, OwnedInv, AnswersInv, Requests
  <2>2. "spb" \in DOMAIN q /\ q.spb = r
    BY DEF ZeroRequest
  <2>3. CASE cur' = FirstPrepared(q, n) /\ UNCHANGED answers
    <3>1. "spb" \in DOMAIN cur' /\ cur'.spb = r
      BY <2>2, <2>3 DEF FirstPrepared
    <3> QED
      BY <2>1, <2>3, <3>1, EcspiAssumption DEF OnceInv, OwnedInv, TakenInv, AnswersInv, Requests
  <2>4. CASE CompleteTransferRequest(q, "ERROR")
    <3>1. /\ cur' = [q EXCEPT !.spb = 0, !.type = "INVALID", !.state = "INACTIVE"]
          /\ Answer(r, "ERROR", q)
      BY <2>1, <2>2, <2>4 DEF CompleteTransferRequest, Requests
    <3>2. "spb" \in DOMAIN cur' /\ cur'.spb = 0
      BY <2>2, <3>1
    <3>3. AnswersInv' /\ \A s \in Requests : s # r => answers'[s] = answers[s]
      BY <2>1, <3>1, AnswerOnce DEF OnceInv
    <3> QED
      BY <2>1, <3>2, <3>3, EcspiAssumption DEF OnceInv, OwnedInv, TakenInv, Requests
  <2> QED
    BY <1>5, <2>3, <2>4 DEF InitiateIo
<1>6. ASSUME NEW r \in Requests, Dispatch(r) PROVE OnceInv'
  <2>1. CASE GoLocked(r)
    BY <2>1, <1>1, <1>2 DEF GoLocked
  <2>2. CASE GoDirect(r)
    BY <2>2, <1>1, <1>2 DEF GoDirect
  <2>3. CASE GoGpio(r)
    BY <2>3, <1>3, <1>4 DEF GoGpio
  <2>4. CASE StartTransferSafe(r)
    BY <2>4, <1>4 DEF StartTransferSafe
  <2>5. CASE CompleteFailed(r)
    BY <2>5, <1>3 DEF CompleteFailed
  <2> QED
    BY <1>6, <2>1, <2>2, <2>3, <2>4, <2>5 DEF Dispatch
<1>7. ASSUME Isr PROVE OnceInv'
  <2>1. UNCHANGED <<given, cancel, answers>>
    BY <1>7 DEF Isr, IsrSingle, IsrFullDuplex, IsrSequenceBurst, IsrSequenceTransfer
  <2>2. "spb" \in DOMAIN BurstDone /\ BurstDone.spb = cur.spb
    BY <1>0 DEF BurstDone
  <2>3. "spb" \in DOMAIN TransferEnded /\ TransferEnded.spb = cur.spb
    BY <2>2 DEF TransferEnded
  <2>4. "spb" \in DOMAIN MarkIdle(TransferEnded) /\ MarkIdle(TransferEnded).spb = cur.spb
    BY <2>3 DEF MarkIdle
  <2>5. "spb" \in DOMAIN cur' /\ cur'.spb = cur.spb
    <3>1. CASE IsrSingle \/ IsrSequenceBurst
      BY <3>1, <2>2 DEF IsrSingle, IsrSequenceBurst
    <3>2. CASE IsrFullDuplex
      BY <3>2, <1>0 DEF IsrFullDuplex
    <3>3. CASE IsrSequenceTransfer
      BY <3>3, <2>4 DEF IsrSequenceTransfer
    <3> QED
      BY <1>7, <3>1, <3>2, <3>3 DEF Isr
  <2> QED
    BY <2>1, <2>5, SameRequest
<1>8. ASSUME NEW c \in Cpus, DpcBegin(c) \/ Dpc(c) PROVE OnceInv'
  <2>1. CASE DpcBegin(c) \/ DpcReadDelayed(c) \/ DpcNextBurst(c) \/ DpcOwn(c) \/ DpcStart(c)
    BY <2>1, <1>4 DEF DpcBegin, DpcReadDelayed, DpcNextBurst, DpcOwn, DpcStart
  <2>2. CASE DpcDisableCancel(c)
    BY <2>2, <1>0, SameRequest DEF DpcDisableCancel, Aborted
  <2>3. CASE DpcTimeOut(c)
    BY <2>3, <1>3 DEF DpcTimeOut
  <2>4. CASE DpcPrepare(c)
    BY <2>4, <1>0, SameRequest DEF DpcPrepare
  <2>5. CASE DpcPrepared(c)
    BY <2>5, <1>0, SameRequest DEF DpcPrepared
  <2>6. CASE DpcEnableCancel(c)
    BY <2>6, <1>1, <1>2 DEF DpcEnableCancel
  <2>7. CASE DpcTestIdle(c)
    BY <2>7, <1>0, SameRequest DEF DpcTestIdle
  <2>8. CASE DpcFinish(c)
    BY <2>8, <1>3, <1>4 DEF DpcFinish
  <2> QED
    BY <1>8, <2>1, <2>2, <2>3, <2>4, <2>5, <2>6, <2>7, <2>8 DEF Dpc
<1>9. CASE Cancel
  <2> DEFINE q == [Aborted(cur) EXCEPT !.state = "CANCELED"]
  <2>1. /\ "spb" \in DOMAIN Aborted(cur) /\ Aborted(cur).spb = cur.spb
        /\ "spb" \in DOMAIN q /\ q.spb = cur.spb
    BY <1>0 DEF Aborted
  <2>2. UNCHANGED <<given, answers>>
    BY <1>9 DEF Cancel
  <2>3. CASE /\ cur.spb # 0
             /\ cur' = [q EXCEPT !.spb = 0]
             /\ cancel' = [pc |-> "complete", req |-> cur.spb]
    <3>1. "spb" \in DOMAIN cur' /\ cur'.spb = 0
      BY <2>1, <2>3
    <3> QED
      BY <2>2, <2>3, <3>1 DEF OnceInv, OwnedInv, TakenInv, AnswersInv
  <2>4. CASE (cur' = Aborted(cur) \/ cur' = q) /\ cancel' = [cancel EXCEPT !.pc = "idle"]
    <3>1. "spb" \in DOMAIN cur' /\ cur'.spb = cur.spb
      BY <2>1, <2>4
    <3> QED
      BY <2>2, <2>4, <3>1 DEF OnceInv, OwnedInv, TakenInv, AnswersInv
  <2> QED
    BY <1>9, <2>3, <2>4 DEF Cancel
<1>10. CASE CancelComplete
  <2>1. /\ cancel.pc = "complete" /\ Answer(cancel.req, "CANCELLED", cur)
        /\ cancel' = [cancel EXCEPT !.pc = "idle"] /\ given' = given
    BY <1>10 DEF CancelComplete
  <2>2. "spb" \in DOMAIN cur' /\ cur'.spb = cur.spb
    BY <1>0, <1>10 DEF CancelComplete
  <2>3. /\ cancel.req \in Requests /\ cancel.req <= given /\ given \in Nat
        /\ answers[cancel.req] = <<>> /\ cancel.req # cur.spb
    BY <2>1, EcspiAssumption DEF OnceInv, OwnedInv, TakenInv, Requests
  <2>4. AnswersInv' /\ \A s \in Requests : s # cancel.req => answers'[s] = answers[s]
    BY <2>1, <2>3, AnswerOnce DEF OnceInv
  <2>5. OwnedInv'
    BY <2>1, <2>2, <2>3, <2>4, EcspiAssumption DEF OnceInv, OwnedInv, Requests
  <2>6. TakenInv'
    BY <2>1 DEF OnceInv, TakenInv
  <2> QED
    BY <2>4, <2>5, <2>6 DEF OnceInv
<1>11. CASE ClientCancel
  <2>1. UNCHANGED <<cur, given, answers>>
    BY <1>11 DEF ClientCancel
  <2>2. TakenInv'
    BY <1>11, <2>1, EcspiAssumption DEF ClientCancel, OnceInv, OwnedInv, TakenInv
  <2> QED
    BY <2>1, <2>2 DEF OnceInv, OwnedInv, AnswersInv
<1>12. CASE ControllerLock \/ ControllerUnlock
  BY <1>12, <1>4 DEF ControllerLock, ControllerUnlock
<1>13. CASE Gpio
  <2>1. ASSUME NEW write, NEW ok, LockAnswered(write, ok) PROVE OnceInv'
    BY <2>1, <1>4 DEF LockAnswered
  <2>2. ASSUME NEW ok, AssertDone(ok) PROVE OnceInv'
    BY <2>2, <1>1, <1>2, <1>3 DEF AssertDone
  <2>3. ASSUME NEW ok, NegateDone(ok) PROVE OnceInv'
    BY <2>3, <1>3 DEF NegateDone
  <2> QED
    BY <1>13, <2>1, <2>2, <2>3 DEF Gpio
<1>14. CASE UNCHANGED vars
  BY <1>14, <1>4 DEF vars
<1> QED
  BY <1>5, <1>6, <1>7, <1>8, <1>9, <1>10, <1>11, <1>12, <1>13, <1>14 DEF Next, Deliver

\* Whichever of the DPCs, the cancel routine, the dispatch thread and the GPIO
\* completion routines get to a request, ECSPISpbCompleteTransferRequest and
\* ECSPIEvtRequestCancel hand it back to the framework at most once.
THEOREM RequestCompletedOnce == Spec => []CompletedOnce
<1>1. OnceInv => CompletedOnce
  BY DEF OnceInv, AnswersInv, CompletedOnce
<1> QED
  BY <1>1, InitOnce, OncePreserved, PTL DEF Spec

-----------------------------------------------------------------------------
(***************************************************************************)
(* What follows assumes that nothing but "outrun" is Lifted.  The invariant*)
(* has these parts: which thread may touch the request and what the others *)
(* may then be doing (RoleInv), the request's transfers and how far they   *)
(* have got (DataInv), what the DPCs have left to do (DpcInv), and the chip*)
(* select (PinInv).                                                        *)
(***************************************************************************)
Live == cur.spb # 0
NoDpc == ~dpcQueued /\ \A c \in Cpus : dpc[c].pc = "idle"
Owns(c) == dpc[c].pc \in {"timeout", "own", "fill", "arm", "finish"}
Idle == ~Live /\ NoDpc /\ (\A r \in Requests : io[r] = "idle") /\ cancel.pc = "idle" /\ bus # "on"

\* A request that is being started: nobody but the thread that starts it, or
\* the GPIO driver, has it, and nothing has moved yet.
Untouched == cur.ready # 0 /\ (cur.type # "SEQUENCE" => cur.xfer[0].todo # 0)
StartInv ==
    /\ \A r \in Requests : io[r] # "idle" => r = given /\ NoDpc /\ bus # "on" /\ "assert" \notin pend
    /\ \A r \in Requests : io[r] = "go" => Live /\ cur.state = "INACTIVE" /\ pend = {}
    /\ \A r \in Requests : io[r] \in {"armed", "armedLocked"} =>
          IF Live THEN cur.state = "CANCELED" \/ (cur.state = "CANCELABLE" /\ Untouched)
                  ELSE cur.ready = 0
    /\ \A r \in Requests : io[r] \in {"failed", "cancelled"} =>
          IF Live THEN cur.state = "CANCELED" ELSE cur.ready = 0
    /\ "assert" \in pend /\ ~lock.req => Live /\ cur.state = "INACTIVE"
    /\ Live /\ cur.state = "INACTIVE" =>
          /\ NoDpc /\ bus # "on" /\ cur.ready # 0
          /\ wdf = "plain" /\ cancel.pc = "idle" /\ "negate" \notin pend

\* Who may complete the request, and what the cancel routine finds.
OwnerInv ==
    /\ Live => cur.spb = given /\ cur.type \in Types /\ ~lock.req
    /\ lock.req => Idle
    /\ cancel.pc = "run" => Live /\ cur.state = "CANCELABLE" /\ wdf = "called"
    /\ cancel.pc = "complete" => ~Live /\ cancel.req = given /\ cur.ready = 0
    /\ wdf = "marked" => Live /\ cur.state = "CANCELABLE" /\ cancel.pc = "idle"
    /\ wdf = "called" /\ Live /\ cur.state = "CANCELABLE" => cancel.pc = "run"
    /\ \A c \in Cpus : Owns(c) => Live /\ cur.state = "NOT_CANCELABLE" /\ pend = {}
    /\ \A c, e \in Cpus : Owns(c) /\ Owns(e) => c = e

\* A chip select being negated: the request is over.
NegateInv ==
    /\ pend \subseteq {"assert"} \/ pend \subseteq {"negate"}
    /\ "negate" \in pend /\ ~lock.req => gpio /\ ~lock.held /\ bus \in {"disabled", "off"}
    /\ "negate" \in pend /\ Live =>
          \/ cur.state = "CANCELED"
          \/ cur.state = "NOT_CANCELABLE" /\ AllMoved(cur) /\ (cur.type = "SEQUENCE" => cur.left = 0)

RoleInv == StartInv /\ OwnerInv /\ NegateInv

\* How far slot s is from the active one.
Place(s) == (s - cur.out) % Ring

\* A READ, a WRITE or a FULL_DUPLEX request, prepared once and for all.
SingleData ==
    LET first == cur.xfer[0]
        n == IF cur.type = "FULL_DUPLEX" THEN 2 ELSE 1
    IN  /\ cur.count = n /\ cur.left = n /\ cur.ready = n /\ cur.out = 0
        /\ cur.type = "FULL_DUPLEX" => cur.xfer[1].todo = first.todo
        /\ first.idx = 0 /\ first.todo <= cur.bursts
        /\ cur.moved = n * (cur.bursts - first.todo)
        /\ first.todo = 0 => bus \in {"disabled", "off"} /\ cur.state # "INACTIVE"

\* The ready transfers of a SEQUENCE are the next ones of the request, in their
\* order, from the active slot on, and the bursts of those before have moved.
SequenceData ==
    LET done == cur.count - cur.left
    IN  /\ done >= 0 /\ cur.next <= cur.count /\ done + cur.ready <= cur.count
        /\ ~cur.reads
        /\ \A s \in Slots : Place(s) < cur.ready =>
              /\ cur.xfer[s].idx = done + Place(s)
              /\ cur.xfer[s].todo \in 1..cur.bursts
              /\ Place(s) # 0 => cur.xfer[s].todo = cur.bursts
        /\ cur.moved = done * cur.bursts
                        + IF cur.ready = 0 THEN 0 ELSE cur.bursts - Active.todo
        /\ bus \in {"on", "hold"} => cur.ready # 0

\* Where the next transfer goes: behind those that are ready, whatever the bus
\* has finished since a DPC counted the free slots.
FillData ==
    /\ (\A c \in Cpus : dpc[c].pc # "fill") =>
          cur.in = (cur.out + cur.ready) % Ring /\ cur.next = cur.count - cur.left + cur.ready
    /\ \A c \in Cpus : dpc[c].pc = "fill" =>
          /\ (cur.in + dpc[c].k) % Ring = (cur.out + cur.ready) % Ring
          /\ cur.next + dpc[c].k = cur.count - cur.left + cur.ready
          /\ dpc[c].k <= dpc[c].n
          /\ cur.ready + dpc[c].n - dpc[c].k <= Ring
          /\ cur.next + dpc[c].n <= cur.count

\* All transfers were dropped, for the cancel routine to complete the request.
Dropped == cur.ready = 0 /\ bus \in {"disabled", "off"} /\ (cur.state = "CANCELED" \/ cancel.pc = "run")

DataInv ==
    /\ Live => /\ cur.bad = 0 /\ cur.count # 0
               /\ \/ Dropped
                  \/ cur.type # "SEQUENCE" /\ SingleData
                  \/ cur.type = "SEQUENCE" /\ SequenceData /\ FillData
               /\ cur.state = "CANCELED" => Dropped
    /\ ~Live => bus # "on"

\* The DPCs: those of a SEQUENCE may be many, any other request has one at most,
\* and not while the bus moves its data.
DpcInv ==
    /\ \A c \in Cpus : dpc[c].pc \in {"idle", "run", "poll", "late", "own"} => dpc[c].k = 0
    /\ \A c \in Cpus : dpc[c].pc \in {"kick", "start", "fill", "arm"} =>
          IF Live THEN cur.type = "SEQUENCE" ELSE cur.ready = 0
    /\ \A c \in Cpus : dpc[c].pc \in {"poll", "late", "timeout"} /\ Live => cur.type = "READ"
    /\ \A c \in Cpus : dpc[c].pc = "finish" =>
          AllMoved(cur) /\ bus \in {"disabled", "off"} /\ (cur.type = "SEQUENCE" => cur.left = 0)
    /\ ~NoDpc /\ bus = "hold" => Live /\ cur.type = "READ"
    /\ Live /\ cur.type # "SEQUENCE" =>
          /\ bus = "on" => NoDpc
          /\ dpcQueued => \A c \in Cpus : dpc[c].pc = "idle"
          /\ \A c, e \in Cpus : dpc[c].pc # "idle" /\ dpc[e].pc # "idle" => c = e
          /\ \A c \in Cpus : dpc[c].pc = "own" => bus \in {"disabled", "off"} /\ cur.xfer[0].todo = 0
          /\ ~NoDpc /\ bus \in {"disabled", "off"} /\ cur.ready # 0 => cur.xfer[0].todo = 0

\* The chip select, as long as the GPIO driver performs the writes.
PinInv ==
    gpio /\ ~gpioFailed =>
        /\ lock.req => pend = {IF lock.held THEN "assert" ELSE "negate"}
        /\ lock.held /\ ~lock.req => pin
        /\ Live /\ cur.state # "INACTIVE" /\ pend = {} => pin
        /\ ~lock.held /\ ~lock.req /\ given > 0 /\ (\E i \in DOMAIN answers[given] : answers[given][i].st = "OK")
              => ~pin

SpiInv == TypeOK /\ RoleInv /\ DataInv /\ DpcInv /\ PinInv /\ SuccessMeansDone

\* The type of CurrentRequest.
Moves == 0..MaxTransfers * MaxBursts
CurTypes ==
    [spb : 0..MaxRequests, type : Types \cup {"INVALID"},
     state : {"INACTIVE", "CANCELABLE", "NOT_CANCELABLE", "CANCELED"},
     count : 0..MaxTransfers, left : 0..MaxTransfers,
     next : 0..MaxTransfers, idle : {0, 1}, ready : 0..Ring,
     in : Slots, out : Slots, moved : Moves,
     bursts : 1..MaxBursts, reads : BOOLEAN, bad : 0..MaxTransfers,
     xfer : [Slots -> Transfer]]

DpcTypes ==
    [pc : {"idle", "run", "poll", "late", "timeout", "own", "fill", "arm", "kick", "start", "finish"},
     n : 0..Ring, k : 0..Ring, st : {"OK", "ERROR"}]

Statuses == {"OK", "ERROR", "CANCELLED", "TIMEOUT"}
Answers == [st : Statuses, full : BOOLEAN]

\* The rest of the type invariant.
RestTyped ==
    /\ bus \in {"disabled", "off", "on", "hold"}
    /\ io \in [Requests -> {"idle", "go", "armed", "armedLocked", "failed", "cancelled"}]
    /\ dpcQueued \in BOOLEAN /\ want \in BOOLEAN
    /\ cancel \in [pc : {"idle", "run", "complete"}, req : 0..MaxRequests]
    /\ wdf \in {"plain", "marked", "called"}
    /\ given \in 0..MaxRequests
PinTyped ==
    /\ smp \in BOOLEAN /\ gpio \in BOOLEAN /\ pin \in BOOLEAN /\ gpioFailed \in BOOLEAN
    /\ pend \subseteq {"assert", "negate"}
    /\ lock \in [held : BOOLEAN, req : BOOLEAN]
    /\ locks \in 0..MaxLocks
AnswersTyped == answers \in [Requests -> Seq(Answers)]

LEMMA Bounds ==
  /\ Ring \in Nat /\ Ring > 1 /\ MaxTransfers \in Nat /\ MaxTransfers > 1
  /\ MaxBursts \in Nat /\ MaxBursts > 0 /\ MaxRequests \in Nat /\ MaxRequests > 0
  /\ MaxLocks \in Nat
  BY EcspiAssumption

LEMMA Typed ==
  TypeOK <=> /\ cur \in CurTypes /\ dpc \in [Cpus -> DpcTypes]
             /\ RestTyped /\ PinTyped /\ AnswersTyped
  BY DEF TypeOK, CurTypes, DpcTypes, RestTyped, PinTyped, AnswersTyped, Answers,
         Statuses, Moves

LEMMA TypedNext ==
  TypeOK' <=> /\ cur' \in CurTypes /\ dpc' \in [Cpus -> DpcTypes]
              /\ RestTyped' /\ PinTyped' /\ AnswersTyped'
  BY DEF TypeOK, CurTypes, DpcTypes, RestTyped, PinTyped, AnswersTyped, Answers,
         Statuses, Moves

\* The fields of a request record, one by one.
LEMMA Fields ==
  ASSUME NEW q \in CurTypes
  PROVE  /\ q.spb \in 0..MaxRequests /\ q.type \in Types \cup {"INVALID"}
         /\ q.state \in {"INACTIVE", "CANCELABLE", "NOT_CANCELABLE", "CANCELED"}
         /\ q.count \in 0..MaxTransfers /\ q.left \in 0..MaxTransfers
         /\ q.next \in 0..MaxTransfers /\ q.idle \in {0, 1} /\ q.ready \in 0..Ring
         /\ q.in \in Slots /\ q.out \in Slots /\ q.moved \in Moves
         /\ q.bursts \in 1..MaxBursts /\ q.reads \in BOOLEAN /\ q.bad \in 0..MaxTransfers
         /\ q.xfer \in [Slots -> Transfer]
  BY DEF CurTypes

\* A record with the fields of CurrentRequest, of whatever type.
IsRequest(q) ==
    q = [spb |-> q.spb, type |-> q.type, state |-> q.state, count |-> q.count, left |-> q.left,
         next |-> q.next, idle |-> q.idle, ready |-> q.ready, in |-> q.in, out |-> q.out,
         moved |-> q.moved, bursts |-> q.bursts, reads |-> q.reads, bad |-> q.bad,
         xfer |-> q.xfer]

LEMMA RequestRecord ==
  ASSUME NEW q \in CurTypes
  PROVE  IsRequest(q)
  BY DEF CurTypes, IsRequest

LEMMA RequestTyped ==
  ASSUME NEW q, IsRequest(q),
         q.spb \in 0..MaxRequests, q.type \in Types \cup {"INVALID"},
         q.state \in {"INACTIVE", "CANCELABLE", "NOT_CANCELABLE", "CANCELED"},
         q.count \in 0..MaxTransfers, q.left \in 0..MaxTransfers,
         q.next \in 0..MaxTransfers, q.idle \in {0, 1}, q.ready \in 0..Ring,
         q.in \in Slots, q.out \in Slots, q.moved \in Moves,
         q.bursts \in 1..MaxBursts, q.reads \in BOOLEAN, q.bad \in 0..MaxTransfers,
         q.xfer \in [Slots -> Transfer]
  PROVE  q \in CurTypes
  BY DEF CurTypes, IsRequest

\* Two request records that have the same transfers, as far as they have got.
SameData(p, q) ==
    /\ p.count = q.count /\ p.left = q.left /\ p.next = q.next /\ p.in = q.in /\ p.out = q.out
    /\ p.moved = q.moved /\ p.bursts = q.bursts /\ p.reads = q.reads /\ p.bad = q.bad
    /\ p.xfer = q.xfer

\* A request handed back to the framework.
LEMMA Answered ==
  ASSUME TypeOK, SuccessMeansDone, NEW q, NEW r \in Requests, NEW st \in Statuses,
         st = "OK" => AllMoved(q), Answer(r, st, q)
  PROVE  /\ AnswersTyped' /\ SuccessMeansDone'
         /\ \A s \in Requests : s # r => answers'[s] = answers[s]
         /\ answers[r] = <<>> => \A i \in DOMAIN answers'[r] : answers'[r][i].st = st
<1> DEFINE x == [st |-> st, full |-> st = "OK" => AllMoved(q)]
<1>1. x \in Answers /\ x.full /\ x.st = st
  BY DEF Answers
<1>2. answers' = [answers EXCEPT ![r] = Append(@, x)]
  BY DEF Answer
<1> HIDE DEF x
<1>3. answers \in [Requests -> Seq(Answers)]
  BY Typed DEF AnswersTyped
<1>4. answers'[r] = Append(answers[r], x) /\ \A s \in Requests : s # r => answers'[s] = answers[s]
  BY <1>2, <1>3
<1>5. answers' \in [Requests -> Seq(Answers)]
  BY <1>1, <1>2, <1>3
<1>6. \A i \in DOMAIN answers'[r] :
          (i \in DOMAIN answers[r] /\ answers'[r][i] = answers[r][i]) \/ answers'[r][i] = x
  BY <1>1, <1>3, <1>4
<1>7. SuccessMeansDone'
  BY <1>1, <1>4, <1>6 DEF SuccessMeansDone
<1>8. answers[r] = <<>> => \A i \in DOMAIN answers'[r] : answers'[r][i].st = st
  BY <1>1, <1>6
<1> QED
  BY <1>4, <1>5, <1>7, <1>8 DEF AnswersTyped

\* ECSPISpbCompleteTransferRequest: what is left of the request, and its answer.
LEMMA Completes ==
  ASSUME TypeOK, SuccessMeansDone, NEW q \in CurTypes, NEW st \in Statuses,
         q.spb # 0 /\ st = "OK" => AllMoved(q), CompleteTransferRequest(q, st)
  PROVE  /\ cur' \in CurTypes /\ cur'.spb = 0 /\ cur'.ready = q.ready
         /\ AnswersTyped' /\ SuccessMeansDone'
         /\ q.spb = 0 => UNCHANGED answers
         /\ \A r \in Requests : r # q.spb => answers'[r] = answers[r]
         /\ q.spb # 0 /\ answers[q.spb] = <<>> =>
              \A i \in DOMAIN answers'[q.spb] : answers'[q.spb][i].st = st
<1>1. CASE q.spb = 0
  <2>1. cur' = q /\ answers' = answers
    BY <1>1 DEF CompleteTransferRequest
  <2> QED
    BY <1>1, <2>1, Typed DEF AnswersTyped, SuccessMeansDone
<1>2. CASE q.spb # 0
  <2>1. cur' = [q EXCEPT !.spb = 0, !.type = "INVALID", !.state = "INACTIVE"]
    BY <1>2 DEF CompleteTransferRequest
  <2>2. cur' \in CurTypes /\ cur'.spb = 0 /\ cur'.ready = q.ready
    <3>1. IsRequest(q)
      BY RequestRecord
    <3>2. IsRequest(cur')
      BY <2>1, <3>1 DEF IsRequest
    <3>3. /\ cur'.spb = 0 /\ cur'.type = "INVALID" /\ cur'.state = "INACTIVE"
          /\ cur'.ready = q.ready /\ cur'.idle = q.idle /\ SameData(cur', q)
      BY <2>1, <3>1 DEF IsRequest, SameData
    <3> QED
      BY <3>2, <3>3, Bounds, Fields, RequestTyped DEF SameData
  <2>3. q.spb \in Requests /\ Answer(q.spb, st, q)
    BY <1>2, Fields, EcspiAssumption DEF Requests, CompleteTransferRequest
  <2>4. /\ AnswersTyped' /\ SuccessMeansDone'
        /\ \A s \in Requests : s # q.spb => answers'[s] = answers[s]
        /\ answers[q.spb] = <<>> => \A i \in DOMAIN answers'[q.spb] : answers'[q.spb][i].st = st
    BY <1>2, <2>3, Answered
  <2> QED
    BY <1>2, <2>2, <2>4
<1> QED
  BY <1>1, <1>2

Pcs == {"idle", "run", "poll", "late", "timeout", "own", "fill", "arm", "kick", "start", "finish"}

\* A DPC that goes on, or leaves.
LEMMA DpcMoves ==
  ASSUME dpc \in [Cpus -> DpcTypes], NEW c \in Cpus
  PROVE  /\ \A pc \in Pcs : At(c, pc) =>
               /\ dpc' \in [Cpus -> DpcTypes]
               /\ dpc'[c].pc = pc /\ dpc'[c].n = dpc[c].n /\ dpc'[c].k = dpc[c].k
               /\ \A d \in Cpus : d # c => dpc'[d] = dpc[d]
         /\ Leaves(c) =>
               /\ dpc' \in [Cpus -> DpcTypes]
               /\ dpc'[c].pc = "idle" /\ dpc'[c].k = 0
               /\ \A d \in Cpus : d # c => dpc'[d] = dpc[d]
<1>1. ASSUME NEW pc \in Pcs, At(c, pc)
      PROVE  /\ dpc' \in [Cpus -> DpcTypes]
             /\ dpc'[c].pc = pc /\ dpc'[c].n = dpc[c].n /\ dpc'[c].k = dpc[c].k
             /\ \A d \in Cpus : d # c => dpc'[d] = dpc[d]
  BY <1>1 DEF At, DpcTypes, Pcs
<1>2. IdleDpc \in DpcTypes /\ IdleDpc.pc = "idle" /\ IdleDpc.k = 0
  BY Bounds DEF IdleDpc, DpcTypes
<1> QED
  BY <1>1, <1>2 DEF Leaves

\* A step that leaves the transfers of the request alone.
LEMMA KeepData ==
  ASSUME SameData(cur', cur), cur'.ready = cur.ready, cur'.type = cur.type
  PROVE  /\ SingleData /\ (cur.xfer[0].todo = 0 => bus' \in {"disabled", "off"} /\ cur'.state # "INACTIVE")
              => SingleData'
         /\ SequenceData /\ (bus' \in {"on", "hold"} => cur.ready # 0) => SequenceData'
         /\ FillData /\ (\A c \in Cpus : IF dpc[c].pc = "fill" THEN dpc'[c] = dpc[c]
                                                                ELSE dpc'[c].pc # "fill")
              => FillData'
<1> USE DEF SameData
<1>1. ASSUME SingleData, cur.xfer[0].todo = 0 => bus' \in {"disabled", "off"} /\ cur'.state # "INACTIVE"
      PROVE  SingleData'
  BY <1>1 DEF SingleData
<1>2. ASSUME SequenceData, bus' \in {"on", "hold"} => cur.ready # 0
      PROVE  SequenceData'
  BY <1>2 DEF SequenceData, Place, Active
<1>3. ASSUME FillData, \A c \in Cpus : IF dpc[c].pc = "fill" THEN dpc'[c] = dpc[c]
                                                              ELSE dpc'[c].pc # "fill"
      PROVE  FillData'
  BY <1>3 DEF FillData
<1> QED
  BY <1>1, <1>2, <1>3

-----------------------------------------------------------------------------
\* The ISR

\* What holds while the bus moves data: the request is the driver's, past its
\* start and not dropped, and its chip select is not about to change.
LEMMA WhileMoving ==
  ASSUME SpiInv, bus = "on"
  PROVE  /\ Live /\ cur.type \in Types /\ ~lock.req /\ pend = {} /\ cancel.pc # "complete"
         /\ cur.state \in {"CANCELABLE", "NOT_CANCELABLE"} /\ cur.bad = 0 /\ cur.count # 0
         /\ \A r \in Requests : io[r] = "idle"
         /\ \A c \in Cpus : dpc[c].pc # "finish"
         /\ cur.type # "SEQUENCE" => SingleData /\ NoDpc
         /\ cur.type = "SEQUENCE" => SequenceData /\ FillData
<1>1. /\ Live /\ cur.bad = 0 /\ cur.count # 0
      /\ cur.type # "SEQUENCE" => SingleData
      /\ cur.type = "SEQUENCE" => SequenceData /\ FillData
      /\ cur.state # "CANCELED"
  BY DEF SpiInv, DataInv, Dropped
<1>2. cur.type \in Types /\ ~lock.req /\ cancel.pc # "complete"
  BY <1>1 DEF SpiInv, RoleInv, OwnerInv
<1>3. cur.state # "INACTIVE" /\ \A r \in Requests : io[r] = "idle"
  BY <1>1 DEF SpiInv, RoleInv, StartInv
<1>4. cur.state \in {"CANCELABLE", "NOT_CANCELABLE"}
  BY <1>1, <1>3, Typed, Fields DEF SpiInv
<1>5. "assert" \notin pend /\ "negate" \notin pend
  BY <1>1, <1>2, <1>3 DEF SpiInv, RoleInv, StartInv, NegateInv
<1>6. pend = {}
  BY <1>5, Typed DEF SpiInv, PinTyped
<1>7. (\A c \in Cpus : dpc[c].pc # "finish") /\ (cur.type # "SEQUENCE" => NoDpc)
  BY <1>1 DEF SpiInv, DpcInv
<1> QED
  BY <1>1, <1>2, <1>3, <1>4, <1>6, <1>7

\* A step of the ISR that keeps the data right keeps the rest.
LEMMA IsrRest ==
  ASSUME SpiInv, bus = "on", UNCHANGED <<io, dpc, cancel, chipSelect, client, wdf, answers>>,
         cur'.spb = cur.spb, cur'.type = cur.type, cur'.state = cur.state, cur' \in CurTypes,
         bus' \in {"disabled", "off", "on", "hold"}, dpcQueued' \in BOOLEAN, DataInv', DpcInv'
  PROVE  SpiInv'
<1> USE DEF chipSelect, client
<1>0. /\ Live /\ cur.type \in Types /\ ~lock.req /\ pend = {} /\ cancel.pc # "complete"
      /\ cur.state \in {"CANCELABLE", "NOT_CANCELABLE"}
      /\ \A r \in Requests : io[r] = "idle"
  BY WhileMoving
<1>1. TypeOK'
  BY Typed, TypedNext DEF SpiInv, RestTyped, PinTyped, AnswersTyped
<1>2. StartInv'
  BY <1>0 DEF StartInv, Live
<1>3. OwnerInv'
  BY <1>0 DEF SpiInv, RoleInv, OwnerInv, Live, Owns
<1>4. NegateInv'
  BY <1>0 DEF NegateInv
<1>5. PinInv' /\ SuccessMeansDone'
  BY <1>0 DEF SpiInv, PinInv, SuccessMeansDone, Live
<1> QED
  BY <1>1, <1>2, <1>3, <1>4, <1>5 DEF SpiInv, RoleInv

\* The product of two numbers of transfers and bursts.
LEMMA ProductBound ==
  ASSUME NEW a \in 0..MaxTransfers, NEW b \in 0..MaxBursts
  PROVE  a * b \in Moves
<1>1. a \in Nat /\ b \in Nat /\ MaxTransfers \in Nat /\ MaxBursts \in Nat
  BY Bounds
<1>2. a * b \in Nat
  BY <1>1
<1>3. a * b <= a * MaxBursts
  BY <1>1, SMT
<1>4. a * MaxBursts <= MaxTransfers * MaxBursts
  BY <1>1, SMT
<1>5. a * MaxBursts \in Nat /\ MaxTransfers * MaxBursts \in Nat
  BY <1>1
<1> QED
  BY <1>2, <1>3, <1>4, <1>5 DEF Moves

\* The end of a burst: the fields it changes and those it does not.
LEMMA BurstFields ==
  ASSUME cur \in CurTypes
  PROVE  /\ IsRequest(BurstDone)
         /\ BurstDone.moved = cur.moved + 1
         /\ BurstDone.xfer = [cur.xfer EXCEPT ![cur.out].todo = @ - 1]
         /\ BurstDone.spb = cur.spb /\ BurstDone.type = cur.type /\ BurstDone.state = cur.state
         /\ BurstDone.count = cur.count /\ BurstDone.left = cur.left /\ BurstDone.next = cur.next
         /\ BurstDone.idle = cur.idle /\ BurstDone.ready = cur.ready /\ BurstDone.in = cur.in
         /\ BurstDone.out = cur.out /\ BurstDone.bursts = cur.bursts
         /\ BurstDone.reads = cur.reads /\ BurstDone.bad = cur.bad
<1> IsRequest(cur)
  BY RequestRecord
<1>1. PICK q : q = [cur EXCEPT !.moved = @ + 1, !.xfer[cur.out].todo = @ - 1]
  OBVIOUS
<1>2. IsRequest(q)
  BY <1>1 DEF IsRequest
<1>3. q = BurstDone
  BY <1>1 DEF BurstDone
<1>4. /\ q.moved = cur.moved + 1
      /\ q.xfer = [cur.xfer EXCEPT ![cur.out].todo = @ - 1]
      /\ q.spb = cur.spb /\ q.type = cur.type /\ q.state = cur.state
      /\ q.count = cur.count /\ q.left = cur.left /\ q.next = cur.next
      /\ q.idle = cur.idle /\ q.ready = cur.ready /\ q.in = cur.in
      /\ q.out = cur.out /\ q.bursts = cur.bursts
      /\ q.reads = cur.reads /\ q.bad = cur.bad
  BY <1>1, <1>2 DEF IsRequest
<1> QED
  BY <1>2, <1>3, <1>4

\* The slot that is worked on after a burst, and the others.
LEMMA BurstSlots ==
  ASSUME cur \in CurTypes, Active.todo \in 1..MaxBursts
  PROVE  /\ BurstDone.xfer \in [Slots -> Transfer]
         /\ BurstDone.xfer[cur.out].idx = Active.idx
         /\ BurstDone.xfer[cur.out].todo = Active.todo - 1
         /\ \A s \in Slots : s # cur.out => BurstDone.xfer[s] = cur.xfer[s]
<1>1. BurstDone.xfer = [cur.xfer EXCEPT ![cur.out].todo = @ - 1]
  BY BurstFields
<1>2. cur.xfer \in [Slots -> Transfer] /\ cur.out \in Slots
  BY Fields
<1>3. cur.xfer[cur.out] \in Transfer /\ Active = cur.xfer[cur.out]
  BY <1>2 DEF Active
<1> DEFINE t == [cur.xfer[cur.out] EXCEPT !.todo = @ - 1]
<1>4. t \in Transfer /\ t.idx = Active.idx /\ t.todo = Active.todo - 1
  BY <1>3, Bounds DEF Transfer
<1>5. BurstDone.xfer = [cur.xfer EXCEPT ![cur.out] = t]
  BY <1>1
<1> HIDE DEF t
<1> QED
  BY <1>2, <1>4, <1>5

LEMMA SingleStep ==
  ASSUME SpiInv, IsrSingle
  PROVE  SpiInv'
<1> USE DEF chipSelect, client
<1>1. bus = "on" /\ cur.type \in {"READ", "WRITE"} /\ cur' = BurstDone
  BY DEF IsrSingle
<1>2. /\ Live /\ SingleData /\ NoDpc /\ cur.state \in {"CANCELABLE", "NOT_CANCELABLE"}
      /\ cur.bad = 0 /\ cur.count # 0
  BY <1>1, WhileMoving
<1>3. cur \in CurTypes
  BY Typed DEF SpiInv
<1>4. /\ cur.out = 0 /\ Active.idx = 0 /\ Active.todo <= cur.bursts /\ Active.todo # 0
      /\ cur.moved = cur.bursts - Active.todo /\ cur.ready = 1 /\ cur.count = 1 /\ cur.left = 1
  <2>1. cur.bursts \in Nat /\ Active.todo \in Nat
    BY <1>3, Fields, Bounds DEF Active, Transfer
  <2> QED
    BY <1>1, <1>2, <2>1 DEF SingleData, Active
<1>5. Active.todo \in 1..MaxBursts /\ cur.bursts \in 1..MaxBursts
  BY <1>3, <1>4, Fields, Bounds DEF Active, Transfer
<1>6. /\ cur'.xfer \in [Slots -> Transfer] /\ cur'.xfer[0].idx = 0
      /\ cur'.xfer[0].todo = Active.todo - 1
  BY <1>1, <1>3, <1>4, <1>5, BurstSlots
<1>7. cur'.moved = cur.bursts - cur'.xfer[0].todo
  BY <1>1, <1>3, <1>4, <1>5, <1>6, BurstFields
<1>8. cur'.moved \in Moves
  <2>1. cur'.moved \in 0..MaxBursts
    BY <1>4, <1>5, <1>6, <1>7, Bounds
  <2>2. 1 \in 0..MaxTransfers
    BY Bounds
  <2>3. 1 * cur'.moved \in Moves
    BY <2>1, <2>2, ProductBound
  <2> QED
    BY <2>1, <2>3, Bounds
<1>9. cur' \in CurTypes
  BY <1>1, <1>3, <1>6, <1>8, Fields, BurstFields, RequestTyped
<1>10. UNCHANGED <<io, dpc, cancel, chipSelect, client, wdf, answers>>
  BY DEF IsrSingle
<1>11. \/ Active.todo = 1 /\ bus' = "off" /\ dpcQueued' = TRUE
       \/ Active.todo > 1 /\ bus' = "on" /\ dpcQueued' = FALSE
       \/ Active.todo > 1 /\ cur.type = "READ" /\ bus' = "hold" /\ dpcQueued' = TRUE
  BY <1>1, <1>2 DEF IsrSingle, NoDpc
<1>12. SingleData'
  BY <1>1, <1>3, <1>4, <1>5, <1>6, <1>7, <1>11, <1>2, BurstFields DEF SingleData
<1>13. DataInv'
  BY <1>1, <1>2, <1>3, <1>12, BurstFields DEF DataInv, Live
<1>14. DpcInv'
  BY <1>1, <1>2, <1>3, <1>6, <1>10, <1>11, BurstFields DEF SpiInv, DpcInv, NoDpc, Live
<1> QED
  BY <1>1, <1>3, <1>9, <1>10, <1>11, <1>13, <1>14, BurstFields, IsrRest

LEMMA FullDuplexStep ==
  ASSUME SpiInv, IsrFullDuplex
  PROVE  SpiInv'
<1> USE DEF chipSelect, client
<1>1. bus = "on" /\ cur.type = "FULL_DUPLEX"
  BY DEF IsrFullDuplex
<1>2. /\ Live /\ SingleData /\ NoDpc /\ cur.state \in {"CANCELABLE", "NOT_CANCELABLE"}
      /\ cur.bad = 0 /\ cur.count # 0
  BY <1>1, WhileMoving
<1>3. cur \in CurTypes /\ IsRequest(cur)
  BY Typed, RequestRecord DEF SpiInv
<1>4. cur' = [cur EXCEPT !.moved = @ + 2, !.xfer = BothBurstsDone]
  BY DEF IsrFullDuplex
<1>5. /\ IsRequest(cur') /\ cur'.moved = cur.moved + 2
      /\ cur'.xfer = [s \in Slots |-> IF s \in BothActive THEN [cur.xfer[s] EXCEPT !.todo = @ - 1]
                                                           ELSE cur.xfer[s]]
      /\ cur'.spb = cur.spb /\ cur'.type = cur.type /\ cur'.state = cur.state
      /\ cur'.count = cur.count /\ cur'.left = cur.left /\ cur'.next = cur.next
      /\ cur'.idle = cur.idle /\ cur'.ready = cur.ready /\ cur'.in = cur.in
      /\ cur'.out = cur.out /\ cur'.bursts = cur.bursts
      /\ cur'.reads = cur.reads /\ cur'.bad = cur.bad
  <2>1. PICK y, m : y = BothBurstsDone /\ m = cur.moved + 2
    OBVIOUS
  <2>2. cur' = [cur EXCEPT !.moved = m, !.xfer = y]
    BY <1>4, <2>1
  <2>3. IsRequest(cur')
    BY <1>3, <2>2 DEF IsRequest
  <2>4. /\ cur'.moved = m /\ cur'.xfer = y
        /\ cur'.spb = cur.spb /\ cur'.type = cur.type /\ cur'.state = cur.state
        /\ cur'.count = cur.count /\ cur'.left = cur.left /\ cur'.next = cur.next
        /\ cur'.idle = cur.idle /\ cur'.ready = cur.ready /\ cur'.in = cur.in
        /\ cur'.out = cur.out /\ cur'.bursts = cur.bursts
        /\ cur'.reads = cur.reads /\ cur'.bad = cur.bad
    BY <1>3, <2>2, <2>3 DEF IsRequest
  <2> QED
    BY <2>1, <2>3, <2>4 DEF BothBurstsDone
<1>6. /\ 0 \in Slots /\ 1 \in Slots /\ cur.out = 0 /\ BothActive = {0, 1}
      /\ Active = cur.xfer[0] /\ cur.xfer[1].todo = cur.xfer[0].todo
      /\ cur.xfer[0].idx = 0 /\ cur.xfer[0].todo <= cur.bursts
      /\ cur.moved = 2 * (cur.bursts - cur.xfer[0].todo) /\ cur.count = 2
  <2>1. 0 \in Slots /\ 1 \in Slots /\ 1 % Ring = 1
    BY Bounds DEF Slots
  <2>2. /\ cur.out = 0 /\ cur.xfer[1].todo = cur.xfer[0].todo
        /\ cur.xfer[0].idx = 0 /\ cur.xfer[0].todo <= cur.bursts
        /\ cur.moved = 2 * (cur.bursts - cur.xfer[0].todo) /\ cur.count = 2
    BY <1>1, <1>2 DEF SingleData
  <2> QED
    BY <2>1, <2>2 DEF BothActive, Active
<1>7. cur.bursts \in 1..MaxBursts /\ cur.xfer \in [Slots -> Transfer]
  BY <1>3, Fields
<1>8. Active.todo \in 1..MaxBursts
  <2>1. Active.todo \in 0..MaxBursts
    BY <1>6, <1>7, Bounds DEF Transfer
  <2>2. Active.todo = 1 \/ Active.todo > 1
    BY DEF IsrFullDuplex
  <2> QED
    BY <2>1, <2>2, Bounds
<1>9. /\ cur'.xfer[0].todo = Active.todo - 1 /\ cur'.xfer[1].todo = Active.todo - 1
      /\ cur'.xfer[0].idx = 0
      /\ cur'.xfer \in [Slots -> Transfer]
  <2>1. ASSUME NEW s \in Slots
        PROVE  /\ cur'.xfer[s] \in Transfer
               /\ cur'.xfer[s].idx = cur.xfer[s].idx
               /\ s \in {0, 1} => cur'.xfer[s].todo = cur.xfer[s].todo - 1
    <3>1. cur.xfer[s] \in Transfer
      BY <1>7
    <3>2. CASE s \in {0, 1}
      <4>1. cur'.xfer[s] = [cur.xfer[s] EXCEPT !.todo = @ - 1]
        BY <1>5, <1>6, <3>2
      <4>2. cur.xfer[s].todo \in 1..MaxBursts
        BY <1>6, <1>8, <3>2
      <4> QED
        BY <3>1, <4>1, <4>2, Bounds DEF Transfer
    <3>3. CASE s \notin {0, 1}
      BY <1>5, <1>6, <3>1, <3>3
    <3> QED
      BY <3>2, <3>3
  <2>2. cur'.xfer = [s \in Slots |-> cur'.xfer[s]]
    BY <1>5
  <2> QED
    BY <1>6, <2>1, <2>2
<1>10. cur'.moved = 2 * (cur.bursts - cur'.xfer[0].todo) /\ cur'.moved \in Moves
  <2>1. cur'.moved = 2 * (cur.bursts - cur'.xfer[0].todo)
    BY <1>5, <1>6, <1>7, <1>8, <1>9, Bounds
  <2>2. cur.bursts - cur'.xfer[0].todo \in 0..MaxBursts /\ 2 \in 0..MaxTransfers
    BY <1>6, <1>7, <1>8, <1>9, Bounds, EcspiAssumption
  <2>3. 2 * (cur.bursts - cur'.xfer[0].todo) \in Moves
    BY <2>2, ProductBound, Zenon
  <2> QED
    BY <2>1, <2>3
<1>11. cur' \in CurTypes
  BY <1>3, <1>5, <1>9, <1>10, Fields, RequestTyped
<1>12. /\ \/ Active.todo = 1 /\ bus' = "off" /\ dpcQueued' = TRUE
          \/ Active.todo > 1 /\ bus' = bus /\ dpcQueued' = dpcQueued
       /\ UNCHANGED <<io, dpc, cancel, chipSelect, client, wdf, answers>>
  BY DEF IsrFullDuplex
<1>13. SingleData'
  BY <1>1, <1>2, <1>5, <1>6, <1>7, <1>8, <1>9, <1>10, <1>12 DEF SingleData
<1>14. DataInv'
  BY <1>1, <1>2, <1>5, <1>13 DEF DataInv, Live
<1>15. DpcInv'
  BY <1>1, <1>2, <1>5, <1>6, <1>8, <1>9, <1>12 DEF SpiInv, DpcInv, NoDpc, Live
<1>16. bus' \in {"disabled", "off", "on", "hold"} /\ dpcQueued' \in BOOLEAN
  BY <1>1, <1>2, <1>12, Typed DEF NoDpc, SpiInv, RestTyped
<1> QED
  BY <1>1, <1>5, <1>11, <1>12, <1>14, <1>15, <1>16, IsrRest

\* The active transfer of a SEQUENCE while the bus moves it.
LEMMA ActiveSequence ==
  ASSUME cur \in CurTypes, SequenceData, cur.ready # 0
  PROVE  /\ cur.out \in Slots /\ Place(cur.out) = 0
         /\ Active.idx = cur.count - cur.left /\ Active.todo \in 1..cur.bursts
         /\ Active.todo \in 1..MaxBursts
         /\ cur.left \in 1..MaxTransfers /\ cur.ready \in 1..Ring
         /\ cur.count - cur.left \in 0..MaxTransfers
<1>1. cur.out \in Slots /\ cur.ready \in 1..Ring /\ cur.count \in 0..MaxTransfers
  BY Fields, Bounds
<1>2. Place(cur.out) = 0
  BY <1>1, Bounds DEF Place, Slots
<1>3. Active.idx = cur.count - cur.left + 0 /\ Active.todo \in 1..cur.bursts
  BY <1>1, <1>2 DEF SequenceData, Active
<1>4. cur.bursts \in 1..MaxBursts /\ cur.left \in 0..MaxTransfers
  BY Fields
<1>5. cur.count - cur.left >= 0 /\ cur.count - cur.left + cur.ready <= cur.count
  BY DEF SequenceData
<1> QED
  BY <1>1, <1>2, <1>3, <1>4, <1>5, Bounds

LEMMA BurstStep ==
  ASSUME SpiInv, IsrSequenceBurst
  PROVE  SpiInv'
<1> USE DEF chipSelect, client
<1>1. /\ bus = "on" /\ cur.type = "SEQUENCE" /\ cur' = BurstDone /\ Active.todo > 1 /\ bus' = bus
      /\ dpcQueued' = dpcQueued /\ UNCHANGED <<io, dpc, cancel, chipSelect, client, wdf, answers>>
  BY DEF IsrSequenceBurst
<1>2. /\ Live /\ SequenceData /\ FillData /\ cur.state \in {"CANCELABLE", "NOT_CANCELABLE"}
      /\ cur.bad = 0 /\ cur.count # 0 /\ \A c \in Cpus : dpc[c].pc # "finish"
  BY <1>1, WhileMoving
<1>3. cur \in CurTypes /\ cur.ready # 0
  BY <1>1, <1>2, Typed DEF SpiInv, SequenceData
<1>4. /\ cur.out \in Slots /\ Place(cur.out) = 0
      /\ Active.idx = cur.count - cur.left /\ Active.todo \in 1..cur.bursts
      /\ Active.todo \in 1..MaxBursts /\ cur.count - cur.left \in 0..MaxTransfers
  BY <1>2, <1>3, ActiveSequence
<1>5. /\ cur'.xfer \in [Slots -> Transfer] /\ cur'.xfer[cur.out].idx = Active.idx
      /\ cur'.xfer[cur.out].todo = Active.todo - 1
      /\ \A s \in Slots : s # cur.out => cur'.xfer[s] = cur.xfer[s]
  BY <1>1, <1>3, <1>4, BurstSlots
<1> DEFINE done == cur.count - cur.left
           b == cur.bursts
<1>6. cur.moved = done * b + (b - Active.todo)
  BY <1>2, <1>3 DEF SequenceData
<1>7. done \in 0..MaxTransfers /\ b \in 1..MaxBursts /\ done + 1 \in 0..MaxTransfers
  BY <1>2, <1>3, <1>4, Fields, Bounds DEF SequenceData
<1>8. done * b \in Nat /\ (done + 1) * b = done * b + b
  BY <1>7, Bounds
<1>9. cur'.moved = done * b + (b - (Active.todo - 1))
  BY <1>1, <1>3, <1>4, <1>6, <1>7, <1>8, BurstFields
<1>10. cur'.moved \in Moves
  <2>0. b \in 0..MaxBursts
    BY <1>7, Bounds
  <2> HIDE DEF done, b
  <2>1. (done + 1) * b \in Moves
    BY <1>7, <2>0, ProductBound, Zenon
  <2>2. done * b + b \in Moves
    BY <2>1, <1>8
  <2> QED
    BY <2>2, <1>4, <1>7, <1>8, <1>9, Bounds DEF Moves, b
<1>11. cur' \in CurTypes
  BY <1>1, <1>3, <1>5, <1>10, Fields, BurstFields, RequestTyped
<1>12. SequenceData'
  <2>1. \A s \in Slots : Place(s) < cur.ready =>
              /\ cur'.xfer[s].idx = done + Place(s)
              /\ cur'.xfer[s].todo \in 1..b
              /\ Place(s) # 0 => cur'.xfer[s].todo = b
    <3> SUFFICES ASSUME NEW s \in Slots, Place(s) < cur.ready
                 PROVE  /\ cur'.xfer[s].idx = done + Place(s)
                        /\ cur'.xfer[s].todo \in 1..b
                        /\ Place(s) # 0 => cur'.xfer[s].todo = b
      OBVIOUS
    <3>1. CASE s = cur.out
      BY <3>1, <1>1, <1>4, <1>5, <1>7, Bounds
    <3>2. CASE s # cur.out
      BY <3>2, <1>2, <1>5 DEF SequenceData
    <3> QED
      BY <3>1, <3>2
  <2>2. Active' = cur'.xfer[cur.out]
    BY <1>1, <1>3, BurstFields DEF Active
  <2> QED
    BY <2>1, <2>2, <1>1, <1>2, <1>3, <1>5, <1>9, BurstFields DEF SequenceData, Place
<1>13. FillData'
  BY <1>1, <1>2, <1>3, BurstFields DEF FillData
<1>14. DataInv'
  BY <1>1, <1>2, <1>3, <1>12, <1>13, BurstFields DEF DataInv, Live
<1>15. DpcInv'
  BY <1>1, <1>2, <1>3, BurstFields DEF SpiInv, DpcInv, NoDpc, Live
<1> QED
  BY <1>1, <1>3, <1>11, <1>14, <1>15, BurstFields, IsrRest, Typed DEF SpiInv, RestTyped

\* The end of a transfer of a SEQUENCE: what it changes.
LEMMA EndedFields ==
  ASSUME cur \in CurTypes
  PROVE  \A q \in {TransferEnded, MarkIdle(TransferEnded)} :
         /\ IsRequest(q)
         /\ q.moved = cur.moved + 1 /\ q.ready = cur.ready - 1 /\ q.left = cur.left - 1
         /\ q.out = (cur.out + 1) % Ring
         /\ q.xfer = BurstDone.xfer
         /\ q.spb = cur.spb /\ q.type = cur.type /\ q.state = cur.state
         /\ q.count = cur.count /\ q.next = cur.next /\ q.in = cur.in
         /\ q.bursts = cur.bursts /\ q.reads = cur.reads /\ q.bad = cur.bad
         /\ q.idle \in {1, cur.idle}
<1>1. IsRequest(BurstDone)
  BY BurstFields
<1>2. PICK q : q = [BurstDone EXCEPT !.ready = @ - 1, !.left = @ - 1, !.out = (@ + 1) % Ring]
  OBVIOUS
<1>3. q = TransferEnded
  BY <1>2 DEF TransferEnded
<1>4. IsRequest(q)
  BY <1>1, <1>2 DEF IsRequest
<1>5. /\ q.ready = BurstDone.ready - 1 /\ q.left = BurstDone.left - 1
      /\ q.out = (BurstDone.out + 1) % Ring /\ q.moved = BurstDone.moved
      /\ q.xfer = BurstDone.xfer
      /\ q.spb = BurstDone.spb /\ q.type = BurstDone.type /\ q.state = BurstDone.state
      /\ q.count = BurstDone.count /\ q.next = BurstDone.next /\ q.in = BurstDone.in
      /\ q.bursts = BurstDone.bursts /\ q.reads = BurstDone.reads /\ q.bad = BurstDone.bad
      /\ q.idle = BurstDone.idle
  BY <1>1, <1>2, <1>4 DEF IsRequest
<1>6. PICK m : m = MarkIdle(q)
  OBVIOUS
<1>7. m = q \/ m = [q EXCEPT !.idle = 1]
  BY <1>6 DEF MarkIdle
<1>8. IsRequest(m)
  BY <1>4, <1>7 DEF IsRequest
<1>9. /\ m.ready = q.ready /\ m.left = q.left /\ m.out = q.out /\ m.moved = q.moved
      /\ m.xfer = q.xfer
      /\ m.spb = q.spb /\ m.type = q.type /\ m.state = q.state
      /\ m.count = q.count /\ m.next = q.next /\ m.in = q.in
      /\ m.bursts = q.bursts /\ m.reads = q.reads /\ m.bad = q.bad
      /\ m.idle \in {1, q.idle}
  BY <1>4, <1>7, <1>8 DEF IsRequest
<1> QED
  BY <1>3, <1>4, <1>5, <1>6, <1>8, <1>9, BurstFields

LEMMA TransferStep ==
  ASSUME SpiInv, IsrSequenceTransfer
  PROVE  SpiInv'
<1> USE DEF chipSelect, client
<1>1. /\ bus = "on" /\ cur.type = "SEQUENCE" /\ cur' = MarkIdle(TransferEnded)
      /\ Active.todo = 1 \/ cur.reads
      /\ bus' = IF TransferEnded.left # 0 /\ ~Starved(TransferEnded) THEN "on" ELSE "off"
      /\ dpcQueued' = TRUE /\ UNCHANGED <<io, dpc, cancel, chipSelect, client, wdf, answers>>
  BY DEF IsrSequenceTransfer
<1>2. /\ Live /\ SequenceData /\ FillData /\ cur.state \in {"CANCELABLE", "NOT_CANCELABLE"}
      /\ cur.bad = 0 /\ cur.count # 0 /\ \A c \in Cpus : dpc[c].pc # "finish"
  BY <1>1, WhileMoving
<1>3. cur \in CurTypes /\ cur.ready # 0 /\ Active.todo = 1
  BY <1>1, <1>2, Typed DEF SpiInv, SequenceData
<1>4. /\ cur.out \in Slots /\ Place(cur.out) = 0
      /\ Active.idx = cur.count - cur.left /\ Active.todo \in 1..MaxBursts
      /\ cur.left \in 1..MaxTransfers /\ cur.ready \in 1..Ring
      /\ cur.count - cur.left \in 0..MaxTransfers
  BY <1>2, <1>3, ActiveSequence
<1>5. /\ IsRequest(cur')
      /\ cur'.moved = cur.moved + 1 /\ cur'.ready = cur.ready - 1 /\ cur'.left = cur.left - 1
      /\ cur'.out = (cur.out + 1) % Ring
      /\ cur'.xfer = BurstDone.xfer
      /\ cur'.spb = cur.spb /\ cur'.type = cur.type /\ cur'.state = cur.state
      /\ cur'.count = cur.count /\ cur'.next = cur.next /\ cur'.in = cur.in
      /\ cur'.bursts = cur.bursts /\ cur'.reads = cur.reads /\ cur'.bad = cur.bad
      /\ cur'.idle \in {1, cur.idle}
  BY <1>1, <1>3, EndedFields
<1>6. cur'.xfer \in [Slots -> Transfer] /\ \A s \in Slots : s # cur.out => cur'.xfer[s] = cur.xfer[s]
  BY <1>3, <1>4, <1>5, BurstSlots
<1>7. bus' \in {"off", "on"} /\ (bus' = "on" => cur'.ready # 0)
  <2>1. TransferEnded.ready = cur.ready - 1
    BY <1>3, EndedFields
  <2> QED
    BY <1>1, <1>5, <2>1 DEF Starved
<1> DEFINE done == cur.count - cur.left
           b == cur.bursts
<1>8. /\ done \in 0..MaxTransfers /\ b \in 0..MaxBursts /\ b > 0 /\ done + 1 \in 0..MaxTransfers
      /\ done + 1 = cur'.count - cur'.left
  BY <1>2, <1>3, <1>4, <1>5, Fields, Bounds DEF SequenceData
<1>9. cur'.moved = (done + 1) * b
  <2>1. cur.moved = done * b + (b - 1)
    BY <1>2, <1>3 DEF SequenceData
  <2>2. done * b \in Int /\ (done + 1) * b = done * b + b
    BY <1>8, Bounds
  <2> HIDE DEF done
  <2> QED
    BY <1>5, <1>8, <2>1, <2>2, Bounds
<1>10. cur'.moved \in Moves
  <2> HIDE DEF done, b
  <2>1. (done + 1) * b \in Moves
    BY <1>8, ProductBound, Zenon
  <2> QED
    BY <2>1, <1>9
<1>11. cur'.out \in Slots
  <2>1. Ring \in Nat \ {0} /\ cur.out \in 0..Ring - 1 /\ 1 \in 0..Ring
    BY <1>4, Bounds DEF Slots
  <2>2. (cur.out + 1) % Ring \in 0..Ring - 1
    BY <2>1, PlacesAfter
  <2> QED
    BY <1>5, <2>2 DEF Slots
<1>12. cur' \in CurTypes
  <2>1. /\ cur'.left \in 0..MaxTransfers /\ cur'.ready \in 0..Ring /\ cur'.idle \in {0, 1}
    BY <1>3, <1>4, <1>5, Fields, Bounds
  <2> QED
    BY <2>1, <1>3, <1>5, <1>6, <1>10, <1>11, Fields, RequestTyped
<1>13. SequenceData'
  <2>1. \A s \in Slots : Place(s)' < cur'.ready =>
              /\ Place(s) = Place(s)' + 1 /\ Place(s) < cur.ready /\ Place(s) # 0
    <3> SUFFICES ASSUME NEW s \in Slots, Place(s)' < cur'.ready
                 PROVE  Place(s) = Place(s)' + 1 /\ Place(s) < cur.ready /\ Place(s) # 0
      OBVIOUS
    <3>1. Place(s) \in 0..Ring - 1
      BY <1>4, PlacesBetween, Bounds DEF Place, Slots
    <3>2. Place(s)' = IF Place(s) >= 1 THEN Place(s) - 1 ELSE Place(s) - 1 + Ring
      <4>1. Place(s)' = (s - ((cur.out + 1) % Ring)) % Ring
        BY <1>5 DEF Place
      <4>2. Ring \in Nat \ {0} /\ cur.out \in 0..Ring - 1 /\ s \in 0..Ring - 1 /\ 1 \in 0..Ring
        BY <1>4, Bounds DEF Slots
      <4> QED
        BY <4>1, <4>2, PlacesShift DEF Place
    <3> QED
      BY <1>4, <1>5, <3>1, <3>2, Bounds
  <2>2. \A s \in Slots : Place(s)' < cur'.ready =>
              /\ cur'.xfer[s].idx = (done + 1) + Place(s)'
              /\ cur'.xfer[s].todo = b
    <3> SUFFICES ASSUME NEW s \in Slots, Place(s)' < cur'.ready
                 PROVE  cur'.xfer[s].idx = (done + 1) + Place(s)' /\ cur'.xfer[s].todo = b
      OBVIOUS
    <3>1. Place(s) = Place(s)' + 1 /\ Place(s) < cur.ready /\ Place(s) # 0
      BY <2>1
    <3>2. s # cur.out
      BY <1>4, <3>1
    <3>3. cur.xfer[s].idx = done + Place(s) /\ cur.xfer[s].todo = b
      BY <1>2, <3>1 DEF SequenceData
    <3>4. Place(s)' \in Int
      BY <1>11, PlacesBetween, Bounds DEF Place, Slots
    <3> HIDE DEF Place, done, b
    <3> QED
      BY <1>6, <1>8, <3>1, <3>2, <3>3, <3>4
  <2>3. cur'.ready # 0 => Active'.todo = b
    <3>0. PICK o \in Slots : o = cur'.out
      BY <1>11
    <3>1. Place(o)' = 0
      BY <3>0, Bounds DEF Place, Slots
    <3>2. cur'.ready # 0 => Place(o)' < cur'.ready
      BY <1>4, <1>5, <3>1
    <3>3. Active' = cur'.xfer[o]
      BY <3>0 DEF Active
    <3> QED
      BY <2>2, <3>2, <3>3
  <2>4. cur'.moved = (done + 1) * b + IF cur'.ready = 0 THEN 0 ELSE b - Active'.todo
    BY <1>8, <1>9, <2>3, Bounds
  <2>5. b \in 1..b
    BY <1>8, Bounds
  <2>6. done + 1 >= 0 /\ cur'.next <= cur'.count /\ done + 1 + cur'.ready <= cur'.count /\ ~cur'.reads
    BY <1>2, <1>3, <1>4, <1>5, <1>8, Fields, Bounds DEF SequenceData
  <2>7. cur'.bursts = b /\ cur'.count - cur'.left = done + 1
    BY <1>5, <1>8
  <2> HIDE DEF done, b, Place, Active
  <2> QED
    BY <1>7, <2>2, <2>4, <2>5, <2>6, <2>7 DEF SequenceData
<1>14. FillData'
  <2>1. (cur'.out + cur'.ready) % Ring = (cur.out + cur.ready) % Ring
    <3>1. /\ Ring \in Nat \ {0} /\ cur.out \in 0..Ring - 1 /\ 1 \in 0..Ring
          /\ cur.ready - 1 \in 0..Ring /\ 1 + (cur.ready - 1) <= Ring /\ 1 + (cur.ready - 1) = cur.ready
      BY <1>4, Bounds DEF Slots
    <3>2. (((cur.out + 1) % Ring) + (cur.ready - 1)) % Ring = (cur.out + (1 + (cur.ready - 1))) % Ring
      BY <3>1, PlacesAdd
    <3> QED
      BY <1>5, <3>1, <3>2
  <2>2. cur'.count - cur'.left + cur'.ready = cur.count - cur.left + cur.ready
    BY <1>3, <1>4, <1>5, Fields
  <2>3. \A c \in Cpus : dpc[c].pc = "fill" => cur'.ready + dpc[c].n - dpc[c].k <= Ring
    <3> SUFFICES ASSUME NEW c \in Cpus, dpc[c].pc = "fill"
                 PROVE  cur'.ready + dpc[c].n - dpc[c].k <= Ring
      OBVIOUS
    <3>1. dpc[c].n \in 0..Ring /\ dpc[c].k \in 0..Ring
      BY Typed DEF SpiInv, DpcTypes
    <3> QED
      BY <3>1, <1>2, <1>4, <1>5, Bounds DEF FillData
  <2> QED
    BY <1>1, <1>2, <1>5, <2>1, <2>2, <2>3 DEF FillData
<1>15. DataInv'
  BY <1>1, <1>2, <1>5, <1>13, <1>14 DEF DataInv, Live
<1>16. DpcInv'
  BY <1>1, <1>2, <1>5, <1>7 DEF SpiInv, DpcInv, NoDpc, Live
<1> QED
  BY <1>1, <1>5, <1>7, <1>12, <1>15, <1>16, IsrRest

-----------------------------------------------------------------------------
\* The DPC

\* While a DPC is queued or running no request is being started.
LEMMA WhileDpc ==
  ASSUME SpiInv, ~NoDpc
  PROVE  /\ \A r \in Requests : io[r] = "idle"
         /\ ~(Live /\ cur.state = "INACTIVE") /\ ~lock.req /\ "assert" \notin pend
<1>1. ~lock.req
  BY DEF SpiInv, RoleInv, OwnerInv, Idle
<1>2. ~(Live /\ cur.state = "INACTIVE")
  BY DEF SpiInv, RoleInv, StartInv
<1>3. "assert" \notin pend
  BY <1>1, <1>2 DEF SpiInv, RoleInv, StartInv
<1>4. \A r \in Requests : io[r] = "idle"
  BY DEF SpiInv, RoleInv, StartInv
<1> QED
  BY <1>1, <1>2, <1>3, <1>4

LEMMA BusyDpc ==
  ASSUME NEW c \in Cpus, dpc[c].pc # "idle"
  PROVE  ~NoDpc
  BY DEF NoDpc

\* A step of a DPC that does not take the request and keeps the data right
\* keeps the rest.
LEMMA DpcRest ==
  ASSUME SpiInv, ~NoDpc, UNCHANGED <<io, cancel, chipSelect, client, wdf, answers>>,
         cur'.spb = cur.spb, cur'.type = cur.type, cur'.state = cur.state, cur' \in CurTypes,
         dpc' \in [Cpus -> DpcTypes], bus' \in {"disabled", "off", "on", "hold"}, dpcQueued' \in BOOLEAN,
         \A d \in Cpus : Owns(d)' => Owns(d),
         ~Live => cur'.ready = cur.ready,
         "negate" \in pend => bus' = bus /\ (Live => SameData(cur', cur)),
         DataInv', DpcInv'
  PROVE  SpiInv'
<1> USE DEF chipSelect, client
<1>0. /\ \A r \in Requests : io[r] = "idle"
      /\ ~(Live /\ cur.state = "INACTIVE") /\ ~lock.req /\ "assert" \notin pend
  BY WhileDpc
<1>1. TypeOK'
  BY Typed, TypedNext DEF SpiInv, RestTyped, PinTyped, AnswersTyped
<1>2. StartInv'
  BY <1>0 DEF StartInv, Live
<1>3. OwnerInv'
  BY <1>0 DEF SpiInv, RoleInv, OwnerInv, Live
<1>4. NegateInv'
  BY <1>0 DEF SpiInv, RoleInv, NegateInv, Live, AllMoved, SameData
<1>5. PinInv' /\ SuccessMeansDone'
  BY <1>0 DEF SpiInv, PinInv, SuccessMeansDone, Live
<1> QED
  BY <1>1, <1>2, <1>3, <1>4, <1>5 DEF SpiInv, RoleInv

\* Such a step that leaves the transfers and the bus alone.
LEMMA KeepDataInv ==
  ASSUME DataInv, SameData(cur', cur), cur'.ready = cur.ready, cur'.type = cur.type,
         cur'.spb = cur.spb, cur'.state = cur.state, bus' = bus, cancel' = cancel,
         \A c \in Cpus : IF dpc[c].pc = "fill" THEN dpc'[c] = dpc[c] ELSE dpc'[c].pc # "fill"
  PROVE  DataInv'
<1>1. /\ SingleData => SingleData'
      /\ SequenceData => SequenceData'
      /\ FillData => FillData'
  <2>1. SingleData => SingleData'
    <3>1. SingleData => (cur.xfer[0].todo = 0 => bus' \in {"disabled", "off"} /\ cur'.state # "INACTIVE")
      BY DEF SingleData
    <3> QED
      BY <3>1, KeepData
  <2>2. SequenceData => SequenceData'
    <3>1. SequenceData => (bus' \in {"on", "hold"} => cur.ready # 0)
      BY DEF SequenceData
    <3> QED
      BY <3>1, KeepData
  <2>3. FillData => FillData'
    BY KeepData
  <2> QED
    BY <2>1, <2>2, <2>3
<1> QED
  BY <1>1 DEF DataInv, Live, Dropped, SameData

LEMMA BeginStep ==
  ASSUME SpiInv, NEW c \in Cpus, DpcBegin(c)
  PROVE  SpiInv'
<1> USE DEF chipSelect, client
<1>1. /\ dpcQueued /\ dpc[c].pc = "idle" /\ dpcQueued' = FALSE /\ At(c, "run")
      /\ UNCHANGED <<cur, bus, io, cancel, chipSelect, client, wdf, answers>>
  BY DEF DpcBegin
<1>2. ~NoDpc /\ cur \in CurTypes /\ dpc \in [Cpus -> DpcTypes] /\ bus \in {"disabled", "off", "on", "hold"}
  BY <1>1, Typed DEF NoDpc, SpiInv, RestTyped
<1>3. /\ dpc' \in [Cpus -> DpcTypes] /\ dpc'[c].pc = "run" /\ dpc'[c].k = dpc[c].k
      /\ \A d \in Cpus : d # c => dpc'[d] = dpc[d]
  BY <1>1, <1>2, DpcMoves DEF Pcs
<1>4. SameData(cur', cur)
  BY <1>1 DEF SameData
<1>5. DataInv'
  BY <1>1, <1>3, <1>4, KeepDataInv DEF SpiInv
<1>6. DpcInv'
  BY <1>1, <1>2, <1>3 DEF SpiInv, DpcInv, NoDpc, Live, AllMoved
<1>7. \A d \in Cpus : Owns(d)' => Owns(d)
  BY <1>3 DEF Owns
<1> QED
  BY <1>1, <1>2, <1>3, <1>4, <1>5, <1>6, <1>7, DpcRest

LEMMA ReadDelayedStep ==
  ASSUME SpiInv, NEW c \in Cpus, DpcReadDelayed(c)
  PROVE  SpiInv'
<1> USE DEF chipSelect, client
<1>1. /\ dpc[c].pc = "run" /\ cur.type = "READ" /\ At(c, "poll")
      /\ UNCHANGED <<cur, bus, io, dpcQueued, cancel, chipSelect, client, wdf, answers>>
  BY DEF DpcReadDelayed, BurstDue
<1>2. /\ ~NoDpc /\ cur \in CurTypes /\ dpc \in [Cpus -> DpcTypes] /\ dpcQueued \in BOOLEAN
      /\ bus \in {"disabled", "off", "on", "hold"}
  BY <1>1, BusyDpc, Typed DEF SpiInv, RestTyped
<1>3. /\ dpc' \in [Cpus -> DpcTypes] /\ dpc'[c].pc = "poll" /\ dpc'[c].k = dpc[c].k
      /\ \A d \in Cpus : d # c => dpc'[d] = dpc[d]
  BY <1>1, <1>2, DpcMoves DEF Pcs
<1>4. SameData(cur', cur) /\ \A d \in Cpus : IF dpc[d].pc = "fill" THEN dpc'[d] = dpc[d] ELSE dpc'[d].pc # "fill"
  BY <1>1, <1>3 DEF SameData
<1>6. DataInv'
  BY <1>1, <1>4, KeepDataInv DEF SpiInv
<1>7. DpcInv'
  BY <1>1, <1>2, <1>3 DEF SpiInv, DpcInv, NoDpc, Live, AllMoved
<1>8. \A d \in Cpus : Owns(d)' => Owns(d)
  BY <1>3 DEF Owns
<1> QED
  BY <1>1, <1>2, <1>3, <1>4, <1>6, <1>7, <1>8, DpcRest

LEMMA NextBurstStep ==
  ASSUME SpiInv, NEW c \in Cpus, DpcNextBurst(c)
  PROVE  SpiInv'
<1> USE DEF chipSelect, client
<1>1. /\ dpc[c].pc = "poll" /\ dpcQueued' = dpcQueued
      /\ \/ bus = "hold" /\ bus' = "on" /\ Leaves(c)
         \/ bus # "hold" /\ bus' = bus /\ Leaves(c)
         \/ bus \in {"on", "hold"} /\ bus' = bus /\ At(c, "late")
      /\ UNCHANGED <<cur, io, cancel, chipSelect, client, wdf, answers>>
  BY DEF DpcNextBurst
<1>2. /\ ~NoDpc /\ cur \in CurTypes /\ dpc \in [Cpus -> DpcTypes] /\ dpcQueued \in BOOLEAN
      /\ bus \in {"disabled", "off", "on", "hold"} /\ bus # "on" /\ (Live => cur.type = "READ")
  BY <1>1, BusyDpc, Typed DEF SpiInv, RestTyped, DpcInv, DataInv
<1>3. /\ dpc' \in [Cpus -> DpcTypes] /\ dpc'[c].pc \in {"idle", "late"} /\ dpc'[c].k \in {dpc[c].k, 0}
      /\ \A d \in Cpus : d # c => dpc'[d] = dpc[d]
      /\ bus' = "on" => dpc'[c].pc = "idle"
  BY <1>1, <1>2, DpcMoves DEF Pcs
<1>4. SameData(cur', cur) /\ \A d \in Cpus : IF dpc[d].pc = "fill" THEN dpc'[d] = dpc[d] ELSE dpc'[d].pc # "fill"
  BY <1>1, <1>3 DEF SameData
<1>5. \A d \in Cpus : Owns(d)' => Owns(d)
  BY <1>3 DEF Owns
<1>6. CASE bus' = bus
  <2>1. DataInv'
    BY <1>1, <1>4, <1>6, KeepDataInv DEF SpiInv
  <2>2. DpcInv'
    BY <1>1, <1>2, <1>3, <1>6 DEF SpiInv, DpcInv, NoDpc, Live, AllMoved
  <2> QED
    BY <1>1, <1>2, <1>3, <1>4, <1>5, <1>6, <2>1, <2>2, DpcRest
<1>7. CASE bus = "hold" /\ bus' = "on"
  <2>1. /\ Live /\ ~dpcQueued /\ (\A d \in Cpus : d # c => dpc[d].pc = "idle") /\ "negate" \notin pend
    BY <1>1, <1>2, <1>7, WhileDpc DEF SpiInv, DpcInv, RoleInv, NegateInv
  <2>2. /\ SingleData /\ cur.xfer[0].todo # 0 /\ cur.bad = 0 /\ cur.count # 0
        /\ cur.state # "CANCELED"
    BY <1>2, <1>7, <2>1 DEF SpiInv, DataInv, Dropped, SingleData
  <2>3. SingleData'
    BY <1>1, <1>7, <2>2 DEF SingleData
  <2>4. DataInv'
    BY <1>1, <1>2, <2>1, <2>2, <2>3 DEF DataInv, Live
  <2>5. DpcInv'
    BY <1>1, <1>2, <1>3, <1>7, <2>1 DEF SpiInv, DpcInv, NoDpc, Live
  <2> QED
    BY <1>1, <1>2, <1>3, <1>5, <1>7, <2>1, <2>4, <2>5, DpcRest
<1> QED
  BY <1>1, <1>6, <1>7

\* What a DPC that has the request can rely on.
LEMMA OwnerFacts ==
  ASSUME SpiInv, NEW c \in Cpus, Owns(c)
  PROVE  /\ ~NoDpc /\ Live /\ cur.state = "NOT_CANCELABLE" /\ pend = {} /\ cancel.pc = "idle"
         /\ ~lock.req /\ wdf # "marked" /\ cur.type \in Types /\ cur.bad = 0 /\ cur.count # 0
         /\ \A r \in Requests : io[r] = "idle"
         /\ \A d \in Cpus : d # c => ~Owns(d)
         /\ cur.type # "SEQUENCE" => SingleData
         /\ cur.type = "SEQUENCE" => SequenceData /\ FillData
<1>1. ~NoDpc
  BY DEF NoDpc, Owns
<1>2. Live /\ cur.state = "NOT_CANCELABLE" /\ pend = {} /\ \A d \in Cpus : d # c => ~Owns(d)
  BY DEF SpiInv, RoleInv, OwnerInv
<1>3. cancel.pc # "run" /\ cancel.pc # "complete" /\ wdf # "marked" /\ cur.type \in Types
  BY <1>2 DEF SpiInv, RoleInv, OwnerInv
<1>4. cancel.pc = "idle"
  BY <1>3, Typed DEF SpiInv, RestTyped
<1>5. ~lock.req /\ \A r \in Requests : io[r] = "idle"
  BY <1>1, WhileDpc
<1>6. /\ cur.bad = 0 /\ cur.count # 0
      /\ cur.type # "SEQUENCE" => SingleData
      /\ cur.type = "SEQUENCE" => SequenceData /\ FillData
  BY <1>2, <1>3 DEF SpiInv, DataInv, Dropped
<1> QED
  BY <1>1, <1>2, <1>3, <1>4, <1>5, <1>6

LEMMA OwnStep ==
  ASSUME SpiInv, NEW c \in Cpus, DpcOwn(c)
  PROVE  SpiInv'
<1> USE DEF chipSelect, client
<1>1. /\ dpc[c].pc = "own"
      /\ UNCHANGED <<cur, bus, io, dpcQueued, cancel, chipSelect, client, wdf, answers>>
  BY DEF DpcOwn
<1>2. Owns(c) /\ SameData(cur', cur)
  BY <1>1 DEF Owns, SameData
<1>3. /\ ~NoDpc /\ Live /\ cur.state = "NOT_CANCELABLE" /\ pend = {}
      /\ cur.type \in Types /\ cur.bad = 0 /\ cur.count # 0
      /\ \A d \in Cpus : d # c => ~Owns(d)
      /\ cur.type # "SEQUENCE" => SingleData
      /\ cur.type = "SEQUENCE" => SequenceData /\ FillData
  BY <1>2, OwnerFacts
<1>4. /\ cur \in CurTypes /\ dpc \in [Cpus -> DpcTypes] /\ dpcQueued \in BOOLEAN
      /\ bus \in {"disabled", "off", "on", "hold"}
  BY Typed DEF SpiInv, RestTyped
<1>5. dpc[c].k = 0
  BY <1>1 DEF SpiInv, DpcInv
<1>6. CASE cur.type = "SEQUENCE" /\ cur.left # 0
  <2>1. dpc' = [dpc EXCEPT ![c] = [@ EXCEPT !.pc = "fill", !.n = TransfersToPrepare]]
    BY <1>6 DEF DpcOwn
  <2>2. \A d \in Cpus : dpc[d].pc # "fill"
    BY <1>1, <1>3 DEF Owns
  <2>3. cur.in = (cur.out + cur.ready) % Ring /\ cur.next = cur.count - cur.left + cur.ready
    BY <1>3, <1>6, <2>2 DEF FillData
  <2>4. /\ TransfersToPrepare \in 0..Ring /\ cur.ready + TransfersToPrepare <= Ring
        /\ cur.next + TransfersToPrepare <= cur.count
    <3>1. cur.ready \in 0..Ring /\ cur.count \in Nat /\ cur.next \in Nat /\ cur.next <= cur.count
      BY <1>3, <1>4, <1>6, Fields, Bounds DEF SequenceData
    <3> QED
      BY <3>1, Bounds DEF TransfersToPrepare
  <2>5. /\ dpc' \in [Cpus -> DpcTypes] /\ dpc'[c].pc = "fill" /\ dpc'[c].n = TransfersToPrepare
        /\ dpc'[c].k = 0 /\ \A d \in Cpus : d # c => dpc'[d] = dpc[d]
    <3> HIDE DEF TransfersToPrepare
    <3> DEFINE e == [dpc[c] EXCEPT !.pc = "fill", !.n = TransfersToPrepare]
    <3>1. e \in DpcTypes /\ e.pc = "fill" /\ e.n = TransfersToPrepare /\ e.k = 0
      BY <1>4, <1>5, <2>4 DEF DpcTypes
    <3>2. dpc' = [dpc EXCEPT ![c] = e]
      BY <2>1
    <3> HIDE DEF e
    <3> QED
      BY <1>4, <3>1, <3>2
  <2>6. SequenceData'
    BY <1>1, <1>2, <1>3, <1>6, KeepData DEF SequenceData
  <2>7. (cur.in + 0) % Ring = cur.in
    <3>1. Ring \in Nat \ {0} /\ cur.in \in 0..Ring - 1 /\ 0 \in 0..Ring
      BY <1>4, Fields, Bounds DEF Slots
    <3>2. (cur.in + 0) % Ring = IF cur.in + 0 < Ring THEN cur.in + 0 ELSE cur.in + 0 - Ring
      BY <3>1, PlacesAfter
    <3> QED
      BY <3>1, <3>2
  <2>8. FillData'
    <3>1. cur.ready \in Int /\ cur.next \in Int
      BY <1>4, Fields
    <3> HIDE DEF TransfersToPrepare
    <3> QED
      BY <1>1, <2>2, <2>3, <2>4, <2>5, <2>7, <3>1, Bounds DEF FillData
  <2>9. DataInv'
    BY <1>1, <1>3, <1>6, <2>6, <2>8 DEF DataInv, Live
  <2>10. DpcInv'
    BY <1>1, <1>3, <1>6, <2>5 DEF SpiInv, DpcInv, NoDpc, Live, AllMoved
  <2>11. \A d \in Cpus : Owns(d)' => Owns(d)
    BY <1>2, <2>5 DEF Owns
  <2> QED
    BY <1>1, <1>2, <1>3, <1>4, <2>5, <2>9, <2>10, <2>11, DpcRest
<1>7. CASE ~(cur.type = "SEQUENCE" /\ cur.left # 0)
  <2>1. dpc' = [dpc EXCEPT ![c] = [@ EXCEPT !.pc = "finish"]]
    BY <1>7 DEF DpcOwn
  <2>2. /\ dpc' \in [Cpus -> DpcTypes] /\ dpc'[c].pc = "finish"
        /\ \A d \in Cpus : d # c => dpc'[d] = dpc[d]
    BY <1>4, <2>1 DEF DpcTypes
  <2>3. AllMoved(cur) /\ bus \in {"disabled", "off"}
    <3>1. CASE cur.type = "SEQUENCE"
      <4>1. cur.left = 0 /\ cur.count \in Nat /\ cur.ready \in Nat /\ cur.bursts \in Nat
        BY <1>4, <1>7, <3>1, Fields, Bounds
      <4>2. cur.count - cur.left = cur.count /\ cur.ready = 0
        BY <1>3, <3>1, <4>1 DEF SequenceData
      <4>3. cur.moved = cur.count * cur.bursts + 0
        BY <1>3, <3>1, <4>2 DEF SequenceData
      <4>4. bus # "on" /\ bus # "hold"
        BY <1>3, <3>1, <4>2 DEF SequenceData, SpiInv, DpcInv
      <4>5. cur.count * cur.bursts \in Nat
        BY <4>1
      <4> QED
        BY <1>4, <4>3, <4>4, <4>5 DEF AllMoved
    <3>2. CASE cur.type # "SEQUENCE"
      <4>1. bus \in {"disabled", "off"} /\ cur.xfer[0].todo = 0
        BY <1>1, <1>3, <3>2 DEF SpiInv, DpcInv
      <4>2. cur.bursts \in Nat
        BY <1>4, Fields, Bounds
      <4> QED
        BY <1>3, <3>2, <4>1, <4>2 DEF SingleData, AllMoved
    <3> QED
      BY <3>1, <3>2
  <2>4. DataInv'
    BY <1>1, <1>2, <2>2, KeepDataInv DEF SpiInv
  <2>5. DpcInv'
    BY <1>1, <1>3, <1>7, <2>2, <2>3 DEF SpiInv, DpcInv, NoDpc, Live, AllMoved
  <2>6. \A d \in Cpus : Owns(d)' => Owns(d)
    BY <1>2, <2>2 DEF Owns
  <2> QED
    BY <1>1, <1>2, <1>3, <1>4, <2>2, <2>4, <2>5, <2>6, DpcRest
<1> QED
  BY <1>6, <1>7

LEMMA PreparedStep ==
  ASSUME SpiInv, NEW c \in Cpus, DpcPrepared(c)
  PROVE  SpiInv'
<1> USE DEF chipSelect, client
<1> DEFINE n == dpc[c].n
<1>1. /\ dpc[c].pc = "fill" /\ dpc[c].k = n /\ At(c, "arm")
      /\ cur' = [cur EXCEPT !.in = (@ + dpc[c].n) % Ring, !.next = @ + dpc[c].n]
      /\ UNCHANGED <<bus, io, dpcQueued, cancel, chipSelect, client, wdf, answers>>
  BY DEF DpcPrepared
<1>2. Owns(c)
  BY <1>1 DEF Owns
<1>3. /\ ~NoDpc /\ Live /\ cur.state = "NOT_CANCELABLE" /\ pend = {}
      /\ cur.type \in Types /\ cur.bad = 0 /\ cur.count # 0
      /\ \A d \in Cpus : d # c => ~Owns(d)
      /\ cur.type = "SEQUENCE" => SequenceData /\ FillData
  BY <1>2, OwnerFacts
<1>4. /\ cur \in CurTypes /\ dpc \in [Cpus -> DpcTypes] /\ dpcQueued \in BOOLEAN
      /\ bus \in {"disabled", "off", "on", "hold"} /\ IsRequest(cur)
  BY Typed, RequestRecord DEF SpiInv, RestTyped
<1>5. cur.type = "SEQUENCE"
  BY <1>1, <1>3 DEF SpiInv, DpcInv
<1>6. /\ dpc' \in [Cpus -> DpcTypes] /\ dpc'[c].pc = "arm"
      /\ \A d \in Cpus : d # c => dpc'[d] = dpc[d]
  BY <1>1, <1>4, DpcMoves DEF Pcs
<1>7. /\ IsRequest(cur') /\ cur'.in = (cur.in + n) % Ring /\ cur'.next = cur.next + n
      /\ cur'.moved = cur.moved /\ cur'.xfer = cur.xfer /\ cur'.spb = cur.spb
      /\ cur'.type = cur.type /\ cur'.state = cur.state /\ cur'.count = cur.count
      /\ cur'.left = cur.left /\ cur'.idle = cur.idle /\ cur'.ready = cur.ready
      /\ cur'.out = cur.out /\ cur'.bursts = cur.bursts /\ cur'.reads = cur.reads
      /\ cur'.bad = cur.bad
  <2>1. IsRequest(cur')
    BY <1>1, <1>4 DEF IsRequest
  <2> QED
    BY <1>1, <1>4, <2>1 DEF IsRequest
<1>8. /\ (cur.in + n) % Ring = (cur.out + cur.ready) % Ring
      /\ cur.next + n = cur.count - cur.left + cur.ready
      /\ cur.next + n <= cur.count
  BY <1>1, <1>3, <1>5 DEF FillData
<1>9. n \in 0..Ring /\ cur.next \in 0..MaxTransfers /\ cur.count \in 0..MaxTransfers
  BY <1>4, Fields DEF DpcTypes
<1>10. cur' \in CurTypes
  <2>1. cur'.in \in Slots
    <3>1. Ring \in Nat \ {0} /\ cur.in \in 0..Ring - 1
      BY <1>4, Fields, Bounds DEF Slots
    <3> HIDE DEF n
    <3>2. (cur.in + n) % Ring \in 0..Ring - 1
      BY <1>9, <3>1, PlacesAfter
    <3> QED
      BY <1>7, <3>2 DEF Slots
  <2>2. cur'.next \in 0..MaxTransfers
    BY <1>7, <1>8, <1>9, Bounds
  <2> QED
    BY <1>4, <1>7, <2>1, <2>2, Fields, RequestTyped
<1>11. SequenceData'
  BY <1>1, <1>3, <1>5, <1>7, <1>8 DEF SequenceData, Place, Active
<1>12. FillData'
  <2>1. \A d \in Cpus : dpc'[d].pc # "fill"
    BY <1>3, <1>6 DEF Owns
  <2> QED
    BY <1>7, <1>8, <2>1 DEF FillData
<1>13. DataInv'
  BY <1>1, <1>3, <1>5, <1>7, <1>11, <1>12 DEF DataInv, Live
<1>14. DpcInv'
  BY <1>1, <1>3, <1>5, <1>6, <1>7 DEF SpiInv, DpcInv, NoDpc, Live, AllMoved
<1>15. \A d \in Cpus : Owns(d)' => Owns(d)
  BY <1>2, <1>6 DEF Owns
<1> QED
  BY <1>1, <1>3, <1>4, <1>6, <1>7, <1>10, <1>13, <1>14, <1>15, DpcRest

\* The slot behind the ready transfers is free: it is as many places after the
\* active one as there are ready transfers, and no other slot is.
LEMMA FreeSlot ==
  ASSUME cur.out \in Slots, cur.ready \in Slots
  PROVE  LET w == (cur.out + cur.ready) % Ring
         IN  /\ w \in Slots /\ Place(w) = cur.ready
             /\ \A s \in Slots : /\ Place(s) \in 0..Ring - 1
                                 /\ s # w => Place(s) # cur.ready
<1> DEFINE w == (cur.out + cur.ready) % Ring
<1>1. Ring \in Nat \ {0} /\ cur.out \in 0..Ring - 1 /\ cur.ready \in 0..Ring - 1 /\ cur.ready \in 0..Ring
  BY Bounds DEF Slots
<1>2. w \in 0..Ring - 1
  BY <1>1, PlacesAfter
<1>3. (w - cur.out) % Ring = cur.ready
  BY <1>1, PlaceAt
<1>4. ASSUME NEW s \in 0..Ring - 1
      PROVE  /\ (s - cur.out) % Ring \in 0..Ring - 1
             /\ (cur.out + ((s - cur.out) % Ring)) % Ring = s
  BY <1>1, <1>4, PlacesBetween, PlaceOf
<1> QED
  BY <1>2, <1>3, <1>4 DEF Place, Slots

LEMMA PrepareStep ==
  ASSUME SpiInv, NEW c \in Cpus, DpcPrepare(c)
  PROVE  SpiInv'
<1> USE DEF chipSelect, client
<1> DEFINE k == dpc[c].k
           i == cur.next + k
           w == (cur.in + k) % Ring
           t == [idx |-> i, todo |-> cur.bursts]
           done == cur.count - cur.left
           b == cur.bursts
<1>1. /\ dpc[c].pc = "fill" /\ k < dpc[c].n
      /\ UNCHANGED <<bus, io, dpcQueued, cancel, chipSelect, client, wdf, answers>>
  BY DEF DpcPrepare
<1>2. Owns(c)
  BY <1>1 DEF Owns
<1>3. /\ ~NoDpc /\ Live /\ cur.state = "NOT_CANCELABLE" /\ pend = {}
      /\ cur.type \in Types /\ cur.bad = 0 /\ cur.count # 0
      /\ \A d \in Cpus : d # c => ~Owns(d)
      /\ cur.type = "SEQUENCE" => SequenceData /\ FillData
  BY <1>2, OwnerFacts
<1>4. /\ cur \in CurTypes /\ dpc \in [Cpus -> DpcTypes] /\ dpcQueued \in BOOLEAN
      /\ bus \in {"disabled", "off", "on", "hold"} /\ IsRequest(cur)
  BY Typed, RequestRecord DEF SpiInv, RestTyped
<1>5. cur.type = "SEQUENCE" /\ SequenceData /\ FillData
  BY <1>1, <1>3 DEF SpiInv, DpcInv
<1>6. k \in 0..Ring /\ dpc[c].n \in 0..Ring /\ dpc[c] \in DpcTypes
  BY <1>4 DEF DpcTypes
<1>7. /\ w = (cur.out + cur.ready) % Ring /\ i = done + cur.ready
      /\ cur.ready + dpc[c].n - k <= Ring /\ cur.next + dpc[c].n <= cur.count
  BY <1>1, <1>5 DEF FillData
<1>8. /\ cur.ready \in 0..Ring - 1 /\ cur.ready + 1 \in 0..Ring /\ i \in 0..MaxTransfers
      /\ k + 1 \in 0..Ring /\ i + 1 <= cur.count /\ k + 1 <= dpc[c].n /\ cur.bad # i + 1
  <2>1. /\ cur.ready \in 0..Ring /\ cur.next \in 0..MaxTransfers /\ cur.count \in 0..MaxTransfers
    BY <1>4, Fields
  <2> QED
    BY <1>1, <1>3, <1>6, <1>7, <2>1, Bounds
<1>9. /\ dpc' = [dpc EXCEPT ![c].k = k + 1]
      /\ cur' = [cur EXCEPT !.xfer[w] = t, !.ready = @ + 1]
  BY <1>8 DEF DpcPrepare
<1>10. /\ dpc' \in [Cpus -> DpcTypes] /\ dpc'[c].pc = "fill" /\ dpc'[c].n = dpc[c].n
       /\ dpc'[c].k = k + 1 /\ \A d \in Cpus : d # c => dpc'[d] = dpc[d]
  <2> HIDE DEF k
  <2> QED
    BY <1>1, <1>4, <1>6, <1>8, <1>9 DEF DpcTypes
<1>11. /\ IsRequest(cur') /\ cur'.xfer = [cur.xfer EXCEPT ![w] = t] /\ cur'.ready = cur.ready + 1
       /\ cur'.moved = cur.moved /\ cur'.in = cur.in /\ cur'.next = cur.next
       /\ cur'.spb = cur.spb /\ cur'.type = cur.type /\ cur'.state = cur.state
       /\ cur'.count = cur.count /\ cur'.left = cur.left /\ cur'.idle = cur.idle
       /\ cur'.out = cur.out /\ cur'.bursts = cur.bursts /\ cur'.reads = cur.reads
       /\ cur'.bad = cur.bad
  <2> HIDE DEF w, t
  <2>1. IsRequest(cur')
    BY <1>4, <1>9 DEF IsRequest
  <2> QED
    BY <1>4, <1>9, <2>1 DEF IsRequest
<1>12. /\ w \in Slots /\ Place(w) = cur.ready
       /\ \A s \in Slots : Place(s) \in 0..Ring - 1 /\ (s # w => Place(s) # cur.ready)
  <2>1. cur.out \in Slots /\ cur.ready \in Slots
    BY <1>4, <1>8, Fields DEF Slots
  <2> HIDE DEF w
  <2> QED
    BY <1>7, <2>1, FreeSlot
<1>13. t \in Transfer /\ t.idx = i /\ t.todo = b /\ b \in 1..MaxBursts /\ b \in 0..MaxBursts
  <2>1. b \in 1..MaxBursts /\ b \in 0..MaxBursts
    BY <1>4, Fields, Bounds
  <2> HIDE DEF b, i
  <2> QED
    BY <1>8, <2>1 DEF Transfer, b
<1>14. /\ cur'.xfer \in [Slots -> Transfer] /\ cur'.xfer[w] = t
       /\ \A s \in Slots : s # w => cur'.xfer[s] = cur.xfer[s]
  <2>1. cur.xfer \in [Slots -> Transfer]
    BY <1>4, Fields
  <2> HIDE DEF w, t
  <2> QED
    BY <1>11, <1>12, <1>13, <2>1
<1>15. cur' \in CurTypes
  BY <1>4, <1>8, <1>11, <1>14, Fields, RequestTyped
<1>16. done \in Int /\ done >= 0
  BY <1>4, <1>5, Fields DEF SequenceData
<1> HIDE DEF w, t, i, k
<1>17. SequenceData'
  <2>1. ASSUME NEW s \in Slots, Place(s) < cur.ready + 1
        PROVE  /\ cur'.xfer[s].idx = done + Place(s)
               /\ cur'.xfer[s].todo \in 1..b
               /\ Place(s) # 0 => cur'.xfer[s].todo = b
    <3>1. CASE s = w
      BY <3>1, <1>7, <1>12, <1>13, <1>14
    <3>2. CASE s # w
      <4>1. Place(s) < cur.ready
        BY <2>1, <3>2, <1>8, <1>12
      <4>2. /\ cur.xfer[s].idx = done + Place(s)
            /\ cur.xfer[s].todo \in 1..b
            /\ Place(s) # 0 => cur.xfer[s].todo = b
        BY <1>5, <4>1 DEF SequenceData
      <4> QED
        BY <1>14, <3>2, <4>2
    <3> QED
      BY <3>1, <3>2
  <2>2. cur.moved = done * b + (b - cur'.xfer[cur.out].todo)
    <3>1. cur.out \in Slots /\ Place(cur.out) = 0
      BY <1>4, Fields, Bounds DEF Place, Slots
    <3>2. CASE cur.ready = 0
      <4>1. cur.out = w
        BY <1>12, <3>1, <3>2
      <4>2. cur.moved = done * b + 0
        BY <1>5, <3>2 DEF SequenceData
      <4> QED
        BY <1>13, <1>14, <4>1, <4>2
    <3>3. CASE cur.ready # 0
      <4>1. cur.out # w
        BY <1>12, <3>1, <3>3
      <4>2. cur.moved = done * b + (b - cur.xfer[cur.out].todo)
        BY <1>5, <3>3 DEF SequenceData, Active
      <4> QED
        BY <1>14, <3>1, <4>1, <4>2
    <3> QED
      BY <3>2, <3>3
  <2>3. cur'.ready # 0 /\ done + cur'.ready <= cur.count
    BY <1>7, <1>8, <1>11, <1>16
  <2>4. Active' = cur'.xfer[cur.out] /\ \A s \in Slots : Place(s)' = Place(s)
    BY <1>11 DEF Active, Place
  <2>5. cur.next <= cur.count /\ ~cur.reads
    BY <1>5 DEF SequenceData
  <2>6. cur'.count - cur'.left = done /\ cur'.bursts = b
    BY <1>11
  <2> HIDE DEF done, b, Place, Active
  <2> QED
    BY <2>1, <2>2, <2>3, <2>4, <2>5, <2>6, <1>11, <1>16 DEF SequenceData
<1>18. FillData'
  <2>1. (cur.in + (k + 1)) % Ring = (cur.out + (cur.ready + 1)) % Ring
    <3>1. /\ Ring \in Nat \ {0} /\ cur.in \in 0..Ring - 1 /\ cur.out \in 0..Ring - 1
          /\ 1 \in 0..Ring /\ cur.ready \in 0..Ring /\ cur.ready + 1 <= Ring /\ k + 1 <= Ring
      <4>1. cur.in \in Slots /\ cur.out \in Slots
        BY <1>4, Fields
      <4> HIDE DEF k
      <4> QED
        BY <1>6, <1>8, <4>1, Bounds DEF Slots
    <3>2. (((cur.in + k) % Ring) + 1) % Ring = (cur.in + (k + 1)) % Ring
      BY <1>6, <3>1, PlacesAdd
    <3>3. (((cur.out + cur.ready) % Ring) + 1) % Ring = (cur.out + (cur.ready + 1)) % Ring
      BY <3>1, PlacesAdd
    <3> QED
      BY <1>7, <3>2, <3>3 DEF w
  <2>2. \A d \in Cpus : dpc'[d].pc = "fill" => d = c
    BY <1>3, <1>10 DEF Owns
  <2>3. cur.next + (k + 1) = done + (cur.ready + 1) /\ (cur.ready + 1) + dpc[c].n - (k + 1) <= Ring
    <3>1. cur.next \in Int /\ cur.ready \in Int /\ k \in Int /\ dpc[c].n \in Int
      BY <1>4, <1>6, Fields
    <3> HIDE DEF done
    <3> QED
      BY <1>7, <1>16, <3>1, Bounds DEF i
  <2> QED
    BY <1>7, <1>8, <1>10, <1>11, <2>1, <2>2, <2>3 DEF FillData
<1>19. DataInv'
  BY <1>1, <1>3, <1>5, <1>11, <1>17, <1>18 DEF DataInv, Live
<1>20. DpcInv'
  BY <1>1, <1>3, <1>5, <1>10, <1>11 DEF SpiInv, DpcInv, NoDpc, Live, AllMoved
<1>21. \A d \in Cpus : Owns(d)' => Owns(d)
  BY <1>2, <1>10 DEF Owns
<1> QED
  BY <1>1, <1>3, <1>4, <1>10, <1>11, <1>15, <1>19, <1>20, <1>21, DpcRest

LEMMA TestIdleStep ==
  ASSUME SpiInv, NEW c \in Cpus, DpcTestIdle(c)
  PROVE  SpiInv'
<1> USE DEF chipSelect, client
<1>1. /\ dpc[c].pc = "kick" /\ cur' = [cur EXCEPT !.idle = 0] /\ (At(c, "start") \/ Leaves(c))
      /\ UNCHANGED <<bus, io, dpcQueued, cancel, chipSelect, client, wdf, answers>>
  BY DEF DpcTestIdle
<1>2. /\ ~NoDpc /\ cur \in CurTypes /\ dpc \in [Cpus -> DpcTypes] /\ bus \in {"disabled", "off", "on", "hold"}
      /\ dpcQueued \in BOOLEAN /\ IsRequest(cur)
  BY <1>1, BusyDpc, Typed, RequestRecord DEF SpiInv, RestTyped
<1>3. /\ dpc' \in [Cpus -> DpcTypes] /\ dpc'[c].pc \in {"start", "idle"}
      /\ dpc'[c].pc = "idle" => dpc'[c].k = 0
      /\ \A d \in Cpus : d # c => dpc'[d] = dpc[d]
  BY <1>1, <1>2, DpcMoves DEF Pcs
<1>4. /\ IsRequest(cur') /\ SameData(cur', cur) /\ cur'.ready = cur.ready /\ cur'.idle = 0
      /\ cur'.spb = cur.spb /\ cur'.type = cur.type /\ cur'.state = cur.state
  <2>1. IsRequest(cur')
    BY <1>1, <1>2 DEF IsRequest
  <2> QED
    BY <1>1, <1>2, <2>1 DEF IsRequest, SameData
<1>5. cur' \in CurTypes
  BY <1>2, <1>4, Fields, RequestTyped DEF SameData
<1>6. DataInv'
  BY <1>1, <1>3, <1>4, KeepDataInv DEF SpiInv
<1>7. DpcInv'
  BY <1>1, <1>3, <1>4 DEF SpiInv, DpcInv, NoDpc, Live, AllMoved, SameData
<1>8. \A d \in Cpus : Owns(d)' => Owns(d)
  BY <1>3 DEF Owns
<1> QED
  BY <1>1, <1>2, <1>3, <1>4, <1>5, <1>6, <1>7, <1>8, DpcRest

LEMMA StartStep ==
  ASSUME SpiInv, NEW c \in Cpus, DpcStart(c)
  PROVE  SpiInv'
<1> USE DEF chipSelect, client
<1>1. /\ dpc[c].pc = "start" /\ Leaves(c)
      /\ bus' = (IF cur.ready # 0 /\ bus # "disabled" THEN "on" ELSE bus)
      /\ UNCHANGED <<cur, io, dpcQueued, cancel, chipSelect, client, wdf, answers>>
  BY DEF DpcStart, Started
<1>2. /\ ~NoDpc /\ cur \in CurTypes /\ dpc \in [Cpus -> DpcTypes] /\ bus \in {"disabled", "off", "on", "hold"}
      /\ dpcQueued \in BOOLEAN /\ SameData(cur', cur)
  BY <1>1, BusyDpc, Typed DEF SpiInv, RestTyped, SameData
<1>3. /\ dpc' \in [Cpus -> DpcTypes] /\ dpc'[c].pc = "idle" /\ dpc'[c].k = 0
      /\ \A d \in Cpus : d # c => dpc'[d] = dpc[d]
  BY <1>1, <1>2, DpcMoves
<1>4. \A d \in Cpus : Owns(d)' => Owns(d)
  BY <1>3 DEF Owns
<1>5. CASE cur.ready = 0 \/ bus = "disabled"
  <2>1. DataInv'
    BY <1>1, <1>2, <1>3, <1>5, KeepDataInv DEF SpiInv
  <2>2. DpcInv'
    BY <1>1, <1>3, <1>5 DEF SpiInv, DpcInv, NoDpc, Live, AllMoved
  <2> QED
    BY <1>1, <1>2, <1>3, <1>4, <1>5, <2>1, <2>2, DpcRest
<1>6. CASE cur.ready # 0 /\ bus # "disabled"
  <2>1. Live /\ cur.type = "SEQUENCE"
    BY <1>1, <1>6 DEF SpiInv, DpcInv
  <2>2. SequenceData /\ FillData /\ cur.bad = 0 /\ cur.count # 0 /\ cur.state # "CANCELED"
    BY <1>6, <2>1 DEF SpiInv, DataInv, Dropped
  <2>3. cur.left # 0
    BY <1>2, <1>6, <2>2, Fields DEF SequenceData
  <2>4. "negate" \notin pend /\ \A d \in Cpus : dpc[d].pc # "finish"
    BY <2>1, <2>2, <2>3 DEF SpiInv, RoleInv, NegateInv, DpcInv
  <2>5. SequenceData'
    BY <1>1, <1>2, <1>6, <2>2, KeepData
  <2>6. FillData'
    BY <1>1, <1>2, <1>3, <2>2, KeepData
  <2>7. DataInv'
    BY <1>1, <2>1, <2>2, <2>5, <2>6 DEF DataInv, Live
  <2>8. DpcInv'
    BY <1>1, <1>3, <1>6, <2>1, <2>4 DEF SpiInv, DpcInv, NoDpc, Live, AllMoved
  <2> QED
    BY <1>1, <1>2, <1>3, <1>4, <1>6, <2>4, <2>7, <2>8, DpcRest
<1> QED
  BY <1>5, <1>6

\* The fields of a request whose state changes and whose transfers may be dropped.
LEMMA StateFields ==
  ASSUME cur \in CurTypes,
         NEW st \in {"INACTIVE", "CANCELABLE", "NOT_CANCELABLE", "CANCELED"}
  PROVE  /\ Aborted(cur) \in CurTypes /\ SameData(Aborted(cur), cur)
         /\ Aborted(cur).spb = cur.spb /\ Aborted(cur).type = cur.type
         /\ Aborted(cur).state = cur.state /\ Aborted(cur).ready = 0
         /\ [cur EXCEPT !.state = st] \in CurTypes /\ SameData([cur EXCEPT !.state = st], cur)
         /\ [cur EXCEPT !.state = st].spb = cur.spb /\ [cur EXCEPT !.state = st].type = cur.type
         /\ [cur EXCEPT !.state = st].state = st /\ [cur EXCEPT !.state = st].ready = cur.ready
<1>0. IsRequest(cur)
  BY RequestRecord
<1>1. PICK p : p = Aborted(cur)
  OBVIOUS
<1>2. PICK q : q = [cur EXCEPT !.state = st]
  OBVIOUS
<1>3. p = [cur EXCEPT !.ready = 0]
  BY <1>1 DEF Aborted
<1>4. IsRequest(p) /\ IsRequest(q)
  BY <1>0, <1>2, <1>3 DEF IsRequest
<1>5. /\ SameData(p, cur) /\ p.ready = 0 /\ p.idle = cur.idle
      /\ p.spb = cur.spb /\ p.type = cur.type /\ p.state = cur.state
  BY <1>0, <1>3, <1>4 DEF IsRequest, SameData
<1>6. /\ SameData(q, cur) /\ q.ready = cur.ready /\ q.idle = cur.idle
      /\ q.spb = cur.spb /\ q.type = cur.type /\ q.state = st
  BY <1>0, <1>2, <1>4 DEF IsRequest, SameData
<1>7. p \in CurTypes
  BY <1>4, <1>5, Fields, Bounds, RequestTyped DEF SameData
<1>8. q \in CurTypes
  BY <1>4, <1>6, Fields, RequestTyped DEF SameData
<1> QED
  BY <1>1, <1>2, <1>5, <1>6, <1>7, <1>8

\* ECSPIDeviceDisableRequestCancellation: the request is not there to be taken,
\* it is being cancelled, or the DPC takes it.
LEMMA DisableCancelStep ==
  ASSUME SpiInv, NEW c \in Cpus, DpcDisableCancel(c)
  PROVE  SpiInv'
<1> USE DEF chipSelect, client
<1>1. /\ (dpc[c].pc = "run" /\ ~BurstDue) \/ dpc[c].pc = "late"
      /\ UNCHANGED <<io, dpcQueued, cancel, chipSelect, client, answers>>
  BY DEF DpcDisableCancel
<1>2. /\ ~NoDpc /\ cur \in CurTypes /\ dpc \in [Cpus -> DpcTypes] /\ bus \in {"disabled", "off", "on", "hold"}
      /\ dpcQueued \in BOOLEAN /\ cancel.pc \in {"idle", "run", "complete"}
  BY <1>1, BusyDpc, Typed DEF SpiInv, RestTyped
<1>3. CASE cur.spb = 0 \/ cur.state # "CANCELABLE"
  <2>1. Leaves(c) /\ UNCHANGED <<cur, bus, wdf>>
    BY <1>3 DEF DpcDisableCancel
  <2>2. /\ dpc' \in [Cpus -> DpcTypes] /\ dpc'[c].pc = "idle" /\ dpc'[c].k = 0
        /\ \A d \in Cpus : d # c => dpc'[d] = dpc[d]
    BY <1>2, <2>1, DpcMoves
  <2>3. SameData(cur', cur)
    BY <2>1 DEF SameData
  <2>4. DataInv'
    BY <1>1, <2>1, <2>2, <2>3, KeepDataInv DEF SpiInv
  <2>5. DpcInv'
    BY <1>1, <1>2, <2>1, <2>2 DEF SpiInv, DpcInv, NoDpc, Live, AllMoved
  <2>6. \A d \in Cpus : Owns(d)' => Owns(d)
    BY <2>2 DEF Owns
  <2> QED
    BY <1>1, <1>2, <2>1, <2>2, <2>3, <2>4, <2>5, <2>6, DpcRest
<1>4. ASSUME cur.spb # 0, cur.state = "CANCELABLE"
      PROVE  /\ Live /\ pend = {} /\ ~lock.req /\ cur.bad = 0 /\ cur.count # 0 /\ cur.type \in Types
             /\ \A r \in Requests : io[r] = "idle"
             /\ \A d \in Cpus : ~Owns(d) /\ dpc[d].pc \notin {"finish", "own", "fill"}
  <2>1. Live /\ ~lock.req /\ "assert" \notin pend /\ \A r \in Requests : io[r] = "idle"
    BY <1>2, <1>4, WhileDpc DEF Live
  <2>2. "negate" \notin pend
    BY <1>4, <2>1 DEF SpiInv, RoleInv, NegateInv
  <2>3. pend = {}
    BY <2>1, <2>2, Typed DEF SpiInv, PinTyped
  <2>4. cur.type \in Types /\ \A d \in Cpus : ~Owns(d)
    BY <1>4, <2>1 DEF SpiInv, RoleInv, OwnerInv
  <2>5. cur.bad = 0 /\ cur.count # 0
    BY <2>1 DEF SpiInv, DataInv
  <2> QED
    BY <2>1, <2>3, <2>4, <2>5 DEF Owns
<1>5. CASE cur.spb # 0 /\ cur.state = "CANCELABLE" /\ wdf = "called"
  <2>1. Leaves(c) /\ cur' = Aborted(cur) /\ bus' = "disabled" /\ wdf' = wdf
    BY <1>5 DEF DpcDisableCancel
  <2>2. /\ dpc' \in [Cpus -> DpcTypes] /\ dpc'[c].pc = "idle" /\ dpc'[c].k = 0
        /\ \A d \in Cpus : d # c => dpc'[d] = dpc[d]
    BY <1>2, <2>1, DpcMoves
  <2>3. /\ cur' \in CurTypes /\ SameData(cur', cur) /\ cur'.spb = cur.spb
        /\ cur'.type = cur.type /\ cur'.state = cur.state /\ cur'.ready = 0
    BY <1>2, <2>1, StateFields
  <2>4. cancel.pc = "run"
    BY <1>4, <1>5 DEF SpiInv, RoleInv, OwnerInv
  <2>5. DataInv'
    BY <1>1, <1>4, <1>5, <2>1, <2>3, <2>4 DEF DataInv, Dropped, Live, SameData
  <2>6. DpcInv'
    BY <1>1, <1>2, <1>4, <1>5, <2>1, <2>2, <2>3 DEF SpiInv, DpcInv, NoDpc, Live
  <2>7. \A d \in Cpus : Owns(d)' => Owns(d)
    BY <2>2 DEF Owns
  <2> QED
    BY <1>1, <1>2, <1>4, <1>5, <2>1, <2>2, <2>3, <2>5, <2>6, <2>7, DpcRest
<1>6. CASE cur.spb # 0 /\ cur.state = "CANCELABLE" /\ wdf # "called"
  <2>1. /\ At(c, IF dpc[c].pc = "late" THEN "timeout" ELSE "own")
        /\ cur' = [cur EXCEPT !.state = "NOT_CANCELABLE"] /\ wdf' = "plain" /\ bus' = bus
    BY <1>6 DEF DpcDisableCancel
  <2>2. /\ dpc' \in [Cpus -> DpcTypes] /\ dpc'[c].k = dpc[c].k
        /\ dpc'[c].pc = IF dpc[c].pc = "late" THEN "timeout" ELSE "own"
        /\ \A d \in Cpus : d # c => dpc'[d] = dpc[d]
    <3>1. CASE dpc[c].pc = "late"
      BY <1>2, <2>1, <3>1, DpcMoves DEF Pcs
    <3>2. CASE dpc[c].pc # "late"
      BY <1>2, <2>1, <3>2, DpcMoves DEF Pcs
    <3> QED
      BY <3>1, <3>2
  <2>3. /\ cur' \in CurTypes /\ SameData(cur', cur) /\ cur'.spb = cur.spb
        /\ cur'.type = cur.type /\ cur'.state = "NOT_CANCELABLE" /\ cur'.ready = cur.ready
    BY <1>2, <2>1, StateFields
  <2>4. cancel.pc = "idle"
    BY <1>2, <1>4, <1>6 DEF SpiInv, RoleInv, OwnerInv
  <2>5. ~Dropped
    BY <1>6, <2>4 DEF Dropped
  <2>6. DataInv'
    <3>1. SingleData => SingleData'
      BY <2>1, <2>3, KeepData DEF SingleData
    <3>2. SequenceData /\ FillData => SequenceData' /\ FillData'
      <4>1. SequenceData => SequenceData'
        BY <2>1, <2>3, KeepData DEF SequenceData
      <4>2. FillData => FillData'
        BY <1>4, <1>6, <2>2, <2>3, KeepData
      <4> QED
        BY <4>1, <4>2
    <3> QED
      BY <1>4, <1>6, <2>3, <2>5, <3>1, <3>2 DEF SpiInv, DataInv, Live, SameData
  <2>7. dpc[c].pc = "run" /\ cur.type # "SEQUENCE" => bus \in {"disabled", "off"} /\ cur.xfer[0].todo = 0
    <3> SUFFICES ASSUME dpc[c].pc = "run", cur.type # "SEQUENCE"
                 PROVE  bus \in {"disabled", "off"} /\ cur.xfer[0].todo = 0
      OBVIOUS
    <3>1. SingleData
      BY <1>4, <1>6, <2>5 DEF SpiInv, DataInv
    <3>2. Active = cur.xfer[0] /\ cur.ready # 0
      BY <3>1 DEF SingleData, Active
    <3>3. bus # "on"
      BY <1>2, <1>4, <1>6 DEF SpiInv, DpcInv
    <3>4. bus # "hold"
      <4> SUFFICES ASSUME bus = "hold" PROVE FALSE
        OBVIOUS
      <4>1. cur.type = "READ"
        BY <1>2 DEF SpiInv, DpcInv
      <4>2. cur.xfer[0].todo # 0 /\ cur.xfer[0].todo \in Nat
        BY <1>2, <3>1, Fields, Bounds DEF SingleData, Transfer, Slots
      <4> QED
        BY <1>1, <3>2, <4>1, <4>2 DEF BurstDue
    <3> QED
      BY <1>2, <1>4, <1>6, <3>2, <3>3, <3>4 DEF SpiInv, DpcInv
  <2>8. DpcInv'
    BY <1>1, <1>2, <1>4, <1>6, <2>1, <2>2, <2>3, <2>7 DEF SpiInv, DpcInv, NoDpc, Live, SameData
  <2>9. TypeOK'
    BY <1>1, <2>1, <2>2, <2>3, Typed, TypedNext DEF SpiInv, RestTyped, PinTyped, AnswersTyped
  <2>10. StartInv'
    BY <1>1, <1>4, <1>6, <2>3 DEF StartInv, Live
  <2>11. OwnerInv'
    BY <1>1, <1>4, <1>6, <2>1, <2>2, <2>3, <2>4 DEF SpiInv, RoleInv, OwnerInv, Live, Owns
  <2>12. NegateInv'
    BY <1>1, <1>4, <1>6 DEF NegateInv
  <2>13. PinInv' /\ SuccessMeansDone'
    BY <1>1, <1>4, <1>6, <2>3 DEF SpiInv, PinInv, SuccessMeansDone, Live
  <2> QED
    BY <2>6, <2>8, <2>9, <2>10, <2>11, <2>12, <2>13 DEF SpiInv, RoleInv
<1> QED
  BY <1>3, <1>5, <1>6

-----------------------------------------------------------------------------
\* Completion

\* A step that completes whatever request is in CurrentRequest and leaves no
\* thread behind that would go on with it.
LEMMA Retire ==
  ASSUME SpiInv, OnceInv, NEW q \in CurTypes, q.spb = cur.spb, q = cur \/ Live,
         NEW st \in Statuses, Live /\ st = "OK" => AllMoved(q), CompleteTransferRequest(q, st),
         UNCHANGED <<client, wdf, cancel, smp, gpio>>,
         dpc' \in [Cpus -> DpcTypes], RestTyped', PinTyped',
         ~lock.req, cancel.pc # "run", wdf # "marked", bus' # "on", "assert" \notin pend',
         \A r \in Requests : io'[r] # "idle" =>
            r = given /\ io'[r] # "go" /\ NoDpc' /\ q.ready = 0,
         "negate" \in pend' => gpio /\ ~lock.held /\ bus' \in {"disabled", "off"},
         \A c \in Cpus : ~Owns(c)' /\ (dpc'[c].pc \in {"kick", "start"} => q.ready = 0),
         \A c \in Cpus : dpc'[c].pc \in {"idle", "run", "poll", "late"} => dpc'[c].k = 0,
         ~NoDpc' => bus' # "hold",
         gpio /\ ~gpioFailed' => /\ ~gpioFailed
                                 /\ lock.held => pin' = pin
                                 /\ Live /\ st = "OK" /\ ~lock.held => ~pin'
                                 /\ ~Live /\ pin' => pin
  PROVE  SpiInv'
<1> USE DEF client
<1>1. /\ cur' \in CurTypes /\ cur'.spb = 0 /\ cur'.ready = q.ready
      /\ AnswersTyped' /\ SuccessMeansDone'
      /\ q.spb = 0 => UNCHANGED answers
      /\ q.spb # 0 /\ answers[q.spb] = <<>> =>
              \A i \in DOMAIN answers'[q.spb] : answers'[q.spb][i].st = st
  BY Completes DEF SpiInv, Live
<1>2. Live => cur.spb = given /\ answers[given] = <<>>
  BY DEF SpiInv, RoleInv, OwnerInv, OnceInv, OwnedInv, Live
<1>3. TypeOK'
  BY <1>1, TypedNext
<1>4. StartInv'
  BY <1>1, Typed DEF StartInv, Live, SpiInv, RestTyped
<1>5. cancel.pc = "complete" => q.ready = 0
  BY DEF SpiInv, RoleInv, OwnerInv
<1>6. OwnerInv'
  BY <1>1, <1>5 DEF SpiInv, RoleInv, OwnerInv, Live
<1>7. NegateInv'
  BY <1>1 DEF NegateInv, Live, PinTyped
<1>8. DataInv'
  BY <1>1 DEF DataInv, Live
<1>9. DpcInv'
  BY <1>1 DEF DpcInv, Live, Owns
<1>10. PinInv'
  <2> SUFFICES ASSUME gpio, ~gpioFailed'
               PROVE  PinInv'
    BY DEF PinInv
  <2>1. lock.held => pin'
    BY DEF SpiInv, PinInv
  <2>2. ASSUME ~lock.held, given > 0,
               \E i \in DOMAIN answers'[given] : answers'[given][i].st = "OK"
        PROVE  ~pin'
    <3>1. CASE Live
      BY <1>1, <1>2, <2>2, <3>1 DEF Live
    <3>2. CASE ~Live
      BY <1>1, <2>2, <3>2 DEF Live, SpiInv, PinInv
    <3> QED
      BY <3>1, <3>2
  <2> QED
    BY <1>1, <2>1, <2>2 DEF PinInv, Live
<1> QED
  BY <1>1, <1>3, <1>4, <1>6, <1>7, <1>8, <1>9, <1>10 DEF SpiInv, RoleInv

\* A step that completes the request a DPC has.
LEMMA DpcRetires ==
  ASSUME SpiInv, OnceInv, NEW c \in Cpus, Owns(c), Leaves(c), NEW q \in CurTypes,
         q.spb = cur.spb, q.ready = 0 \/ q.ready = cur.ready,
         NEW st \in Statuses, st = "OK" => AllMoved(q), CompleteTransferRequest(q, st),
         UNCHANGED <<client, wdf, cancel, smp, gpio, pin, pend, io, dpcQueued>>,
         gpioFailed' \in BOOLEAN, gpioFailed => gpioFailed',
         bus' \in {"disabled", "off", "hold"}, bus' = "hold" => bus = "hold" /\ cur.type # "SEQUENCE",
         cur.type = "SEQUENCE" => q.ready = 0,
         st = "OK" => lock.held \/ ~gpio
  PROVE  SpiInv'
<1>1. /\ ~NoDpc /\ Live /\ pend = {} /\ cancel.pc = "idle" /\ ~lock.req /\ wdf # "marked"
      /\ \A r \in Requests : io[r] = "idle"
      /\ \A d \in Cpus : d # c => ~Owns(d)
  BY OwnerFacts
<1>2. dpc \in [Cpus -> DpcTypes] /\ RestTyped /\ PinTyped
  BY Typed DEF SpiInv
<1>3. /\ dpc' \in [Cpus -> DpcTypes] /\ dpc'[c].pc = "idle" /\ dpc'[c].k = 0
      /\ \A d \in Cpus : d # c => dpc'[d] = dpc[d]
  BY <1>2, DpcMoves
<1>4. RestTyped' /\ PinTyped'
  BY <1>2 DEF RestTyped, PinTyped, client
<1>5. \A d \in Cpus : ~Owns(d)' /\ (dpc'[d].pc \in {"kick", "start"} => q.ready = 0)
  BY <1>1, <1>3 DEF Owns, SpiInv, DpcInv
<1>6. \A d \in Cpus : dpc'[d].pc \in {"idle", "run", "poll", "late"} => dpc'[d].k = 0
  BY <1>3 DEF SpiInv, DpcInv
<1>7. ~NoDpc' => bus' # "hold"
  BY <1>1, <1>3 DEF SpiInv, DpcInv, NoDpc, Owns
<1>8. gpio /\ ~gpioFailed' => /\ ~gpioFailed
                              /\ lock.held => pin' = pin
                              /\ Live /\ st = "OK" /\ ~lock.held => ~pin'
                              /\ ~Live /\ pin' => pin
  BY <1>1
<1>9. /\ \A r \in Requests : io'[r] = "idle"
      /\ "assert" \notin pend' /\ "negate" \notin pend' /\ bus' # "on" /\ cancel.pc # "run"
      /\ UNCHANGED <<client, wdf, cancel, smp, gpio>>
  BY <1>1
<1> QED
  BY <1>1, <1>3, <1>4, <1>5, <1>6, <1>7, <1>8, <1>9, Retire

LEMMA TimeOutStep ==
  ASSUME SpiInv, OnceInv, NEW c \in Cpus, DpcTimeOut(c)
  PROVE  SpiInv'
<1>1. /\ dpc[c].pc = "timeout" /\ CompleteTransferRequest(cur, "TIMEOUT") /\ Leaves(c)
      /\ UNCHANGED <<bus, io, dpcQueued, cancel, client, wdf>>
      /\ UNCHANGED <<smp, gpio, pin, pend, gpioFailed>>
  BY DEF DpcTimeOut, chipSelect
<1>2. Owns(c) /\ "TIMEOUT" \in Statuses
  BY <1>1 DEF Owns, Statuses
<1>3. ~NoDpc /\ Live
  BY <1>2, OwnerFacts
<1>4. cur.type = "READ" /\ bus # "on"
  BY <1>1, <1>3 DEF SpiInv, DpcInv
<1>5. cur \in CurTypes /\ bus' \in {"disabled", "off", "hold"} /\ gpioFailed' \in BOOLEAN
  BY <1>1, <1>4, Typed DEF SpiInv, RestTyped, PinTyped
<1>6. UNCHANGED <<client, wdf, cancel, smp, gpio, pin, pend, io, dpcQueued>>
  BY <1>1
<1> QED
  BY <1>1, <1>2, <1>4, <1>5, <1>6, DpcRetires

\* ECSPIDeviceEnableRequestCancellation: the request can be cancelled from now on.
LEMMA Enables ==
  ASSUME SpiInv, OnceInv, NEW line, EnableSucceeds(line),
         UNCHANGED <<client, cancel, smp, gpio>>,
         cancel.pc = "idle", ~lock.req, pend' = {},
         dpc' \in [Cpus -> DpcTypes], RestTyped', PinTyped', DataInv', DpcInv',
         \A c \in Cpus : ~Owns(c)',
         \A r \in Requests : io'[r] # "idle" =>
            /\ r = given /\ io'[r] \in {"armed", "armedLocked"}
            /\ NoDpc' /\ bus' # "on" /\ Untouched,
         gpio /\ ~gpioFailed' => pin'
  PROVE  SpiInv'
<1> USE DEF client
<1>1. /\ Live /\ wdf' = "marked" /\ answers' = answers /\ cur' = [cur EXCEPT !.state = "CANCELABLE"]
  BY DEF EnableSucceeds, Live
<1>2. /\ cur' \in CurTypes /\ cur'.spb = cur.spb /\ cur'.type = cur.type
      /\ cur'.state = "CANCELABLE" /\ cur'.ready = cur.ready /\ cur'.xfer = cur.xfer
  BY <1>1, Typed, StateFields DEF SpiInv, SameData
<1>3. cur.spb = given /\ answers[given] = <<>> /\ cur.type \in Types
  BY <1>1 DEF SpiInv, RoleInv, OwnerInv, OnceInv, OwnedInv, Live
<1>4. TypeOK'
  BY <1>1, <1>2, Typed, TypedNext DEF SpiInv, AnswersTyped
<1>5. StartInv'
  BY <1>1, <1>2, <1>3 DEF StartInv, Live, Untouched
<1>6. OwnerInv'
  BY <1>1, <1>2, <1>3 DEF OwnerInv, Live
<1>7. NegateInv'
  BY DEF NegateInv
<1>8. PinInv'
  BY <1>1, <1>3 DEF PinInv
<1>9. SuccessMeansDone'
  BY <1>1 DEF SpiInv, SuccessMeansDone
<1> QED
  BY <1>4, <1>5, <1>6, <1>7, <1>8, <1>9 DEF SpiInv, RoleInv

LEMMA EnableCancelStep ==
  ASSUME SpiInv, OnceInv, NEW c \in Cpus, DpcEnableCancel(c)
  PROVE  SpiInv'
<1>1. /\ dpc[c].pc = "arm"
      /\ (EnableSucceeds(bus) /\ At(c, "kick")) \/ (EnableFails /\ Leaves(c))
      /\ UNCHANGED <<io, dpcQueued, cancel, client>>
      /\ UNCHANGED <<smp, gpio, pin, pend, gpioFailed>>
  BY DEF DpcEnableCancel, chipSelect
<1>2. Owns(c)
  BY <1>1 DEF Owns
<1>3. /\ ~NoDpc /\ Live /\ cur.state = "NOT_CANCELABLE" /\ pend = {} /\ cancel.pc = "idle"
      /\ ~lock.req /\ wdf # "marked" /\ cur.bad = 0 /\ cur.count # 0
      /\ \A r \in Requests : io[r] = "idle"
      /\ \A d \in Cpus : d # c => ~Owns(d)
      /\ cur.type = "SEQUENCE" => SequenceData /\ FillData
  BY <1>2, OwnerFacts
<1>4. cur.type = "SEQUENCE"
  BY <1>1, <1>3 DEF SpiInv, DpcInv
<1>5. cur \in CurTypes /\ dpc \in [Cpus -> DpcTypes] /\ RestTyped /\ PinTyped
  BY Typed DEF SpiInv
<1>6. CASE EnableFails /\ Leaves(c)
  <2>1. CompleteTransferRequest(Aborted(cur), "CANCELLED") /\ bus' = "disabled" /\ wdf' = wdf
    BY <1>6 DEF EnableFails
  <2>2. Aborted(cur) \in CurTypes /\ Aborted(cur).spb = cur.spb /\ Aborted(cur).ready = 0
    BY <1>5, StateFields
  <2>3. "CANCELLED" \in Statuses /\ "CANCELLED" # "OK" /\ gpioFailed' \in BOOLEAN
    BY <1>1, <1>5 DEF Statuses, PinTyped
  <2>4. UNCHANGED <<client, wdf, cancel, smp, gpio, pin, pend, io, dpcQueued>>
    BY <1>1, <2>1
  <2> QED
    BY <1>1, <1>2, <1>6, <2>1, <2>2, <2>3, <2>4, DpcRetires
<1>7. CASE EnableSucceeds(bus) /\ At(c, "kick")
  <2>1. cur' = [cur EXCEPT !.state = "CANCELABLE"] /\ bus' = bus /\ wdf' = "marked"
    BY <1>7 DEF EnableSucceeds
  <2>2. /\ cur' \in CurTypes /\ SameData(cur', cur) /\ cur'.spb = cur.spb
        /\ cur'.type = cur.type /\ cur'.state = "CANCELABLE" /\ cur'.ready = cur.ready
    BY <1>5, <2>1, StateFields
  <2>3. /\ dpc' \in [Cpus -> DpcTypes] /\ dpc'[c].pc = "kick"
        /\ \A d \in Cpus : d # c => dpc'[d] = dpc[d]
    BY <1>5, <1>7, DpcMoves DEF Pcs
  <2>4. \A d \in Cpus : ~Owns(d)'
    BY <1>3, <2>3 DEF Owns
  <2>5. SequenceData'
    BY <1>3, <1>4, <2>1, <2>2, KeepData DEF SequenceData
  <2>6. FillData'
    BY <1>1, <1>3, <1>4, <2>2, <2>3, KeepData
  <2>7. DataInv'
    BY <1>3, <1>4, <2>2, <2>5, <2>6 DEF DataInv, Live, SameData
  <2>8. DpcInv'
    BY <1>1, <1>3, <1>4, <2>1, <2>2, <2>3, <2>4 DEF SpiInv, DpcInv, NoDpc, Live, Owns
  <2>9. RestTyped' /\ PinTyped'
    BY <1>1, <1>5, <2>1 DEF RestTyped, PinTyped, client
  <2>10. gpio /\ ~gpioFailed' => pin'
    BY <1>1, <1>3 DEF SpiInv, PinInv
  <2>11. /\ \A r \in Requests : io'[r] = "idle"
         /\ UNCHANGED <<client, cancel, smp, gpio>> /\ pend' = {}
    BY <1>1, <1>3
  <2> QED
    BY <1>3, <1>7, <2>3, <2>4, <2>7, <2>8, <2>9, <2>10, <2>11, Enables
<1> QED
  BY <1>1, <1>6, <1>7

LEMMA FinishStep ==
  ASSUME SpiInv, OnceInv, NEW c \in Cpus, DpcFinish(c)
  PROVE  SpiInv'
<1>1. /\ dpc[c].pc = "finish" /\ Leaves(c) /\ UNCHANGED <<bus, io, dpcQueued, cancel, client, wdf>>
  BY DEF DpcFinish
<1>2. Owns(c)
  BY <1>1 DEF Owns
<1>3. /\ ~NoDpc /\ Live /\ cur.state = "NOT_CANCELABLE" /\ pend = {} /\ cancel.pc = "idle"
      /\ ~lock.req /\ wdf # "marked" /\ cur.bad = 0 /\ cur.count # 0
      /\ \A r \in Requests : io[r] = "idle"
      /\ \A d \in Cpus : d # c => ~Owns(d)
      /\ cur.type # "SEQUENCE" => SingleData
      /\ cur.type = "SEQUENCE" => SequenceData /\ FillData
  BY <1>2, OwnerFacts
<1>4. AllMoved(cur) /\ bus \in {"disabled", "off"} /\ (cur.type = "SEQUENCE" => cur.left = 0)
  BY <1>1 DEF SpiInv, DpcInv
<1>5. cur \in CurTypes /\ dpc \in [Cpus -> DpcTypes] /\ RestTyped /\ PinTyped
  BY Typed DEF SpiInv
<1>6. cur.type = "SEQUENCE" => cur.ready = 0
  BY <1>3, <1>4, <1>5, Fields DEF SequenceData
<1>7. ASSUME NEW st \in Statuses, CompleteTransferRequest(cur, st), UNCHANGED <<smp, gpio, pin, pend>>,
             gpioFailed' \in BOOLEAN, gpioFailed => gpioFailed', st = "OK" => lock.held \/ ~gpio
      PROVE  SpiInv'
  <2>1. UNCHANGED <<client, wdf, cancel, smp, gpio, pin, pend, io, dpcQueued>>
    BY <1>1, <1>7
  <2> QED
    BY <1>1, <1>2, <1>4, <1>5, <1>6, <1>7, <2>1, DpcRetires
<1>8. CASE lock.held /\ CompleteTransferRequest(cur, dpc[c].st) /\ UNCHANGED chipSelect
  <2>1. dpc[c].st \in Statuses
    BY <1>5 DEF DpcTypes, Statuses
  <2> QED
    BY <1>5, <1>7, <1>8, <2>1 DEF chipSelect, PinTyped
<1>9. CASE ~lock.held /\ ~gpio /\ CompleteTransferRequest(cur, "OK") /\ UNCHANGED chipSelect
  BY <1>5, <1>7, <1>9 DEF chipSelect, PinTyped, Statuses
<1>10. CASE ~lock.held /\ gpio /\ RefuseGpio /\ CompleteTransferRequest(cur, "ERROR")
  BY <1>5, <1>7, <1>10 DEF RefuseGpio, PinTyped, Statuses
<1>11. CASE ~lock.held /\ gpio /\ SendGpio("negate") /\ UNCHANGED <<cur, answers>>
  <2>1. pend' = {"negate"} /\ UNCHANGED <<smp, gpio, pin, gpioFailed>>
    BY <1>3, <1>11 DEF SendGpio
  <2>2. /\ dpc' \in [Cpus -> DpcTypes] /\ dpc'[c].pc = "idle" /\ dpc'[c].k = 0
        /\ \A d \in Cpus : d # c => dpc'[d] = dpc[d]
    BY <1>1, <1>5, DpcMoves
  <2>3. SameData(cur', cur)
    BY <1>11 DEF SameData
  <2>4. TypeOK'
    BY <1>1, <1>5, <1>11, <2>1, <2>2, Typed, TypedNext
       DEF SpiInv, RestTyped, PinTyped, AnswersTyped, client
  <2>5. StartInv'
    BY <1>1, <1>3, <1>11, <2>1 DEF StartInv, Live
  <2>6. OwnerInv'
    BY <1>1, <1>3, <1>11, <2>2 DEF SpiInv, RoleInv, OwnerInv, Live, Owns, client
  <2>7. NegateInv'
    BY <1>1, <1>3, <1>4, <1>11, <2>1 DEF NegateInv, Live, AllMoved, client
  <2>8. DataInv'
    BY <1>1, <1>11, <2>2, <2>3, KeepDataInv DEF SpiInv
  <2>9. DpcInv'
    BY <1>1, <1>11, <2>2 DEF SpiInv, DpcInv, NoDpc, Live, AllMoved
  <2>10. PinInv' /\ SuccessMeansDone'
    BY <1>1, <1>3, <1>11, <2>1 DEF SpiInv, PinInv, SuccessMeansDone, Live, client
  <2> QED
    BY <2>4, <2>5, <2>6, <2>7, <2>8, <2>9, <2>10 DEF SpiInv, RoleInv
<1> QED
  BY <1>8, <1>9, <1>10, <1>11 DEF DpcFinish

-----------------------------------------------------------------------------
\* Starting a request

\* What holds while a request is being started: nothing of it has moved and
\* nobody else has it.
LEMMA WhileStarting ==
  ASSUME SpiInv, Live, cur.state = "INACTIVE"
  PROVE  /\ NoDpc /\ bus # "on" /\ wdf = "plain" /\ cancel.pc = "idle" /\ ~lock.req
         /\ cur.ready # 0 /\ cur.bad = 0 /\ cur.count # 0 /\ cur.type \in Types
         /\ "negate" \notin pend
         /\ \A r \in Requests : io[r] \in {"idle", "go"}
         /\ cur.type # "SEQUENCE" => SingleData /\ cur.xfer[0].todo # 0
         /\ cur.type = "SEQUENCE" => SequenceData /\ FillData
<1>1. /\ NoDpc /\ bus # "on" /\ cur.ready # 0 /\ wdf = "plain" /\ cancel.pc = "idle"
      /\ "negate" \notin pend
  BY DEF SpiInv, RoleInv, StartInv
<1>2. ~lock.req /\ cur.type \in Types
  BY DEF SpiInv, RoleInv, OwnerInv
<1>3. \A r \in Requests : io[r] \in {"idle", "go"}
  BY Typed DEF SpiInv, RoleInv, StartInv, RestTyped
<1>4. /\ cur.bad = 0 /\ cur.count # 0
      /\ cur.type # "SEQUENCE" => SingleData
      /\ cur.type = "SEQUENCE" => SequenceData /\ FillData
  BY <1>1 DEF SpiInv, DataInv, Dropped
<1>5. cur.type # "SEQUENCE" => cur.xfer[0].todo # 0
  BY <1>4 DEF SingleData
<1> QED
  BY <1>1, <1>2, <1>3, <1>4, <1>5

\* The request is made cancelable and is about to start.
LEMMA StartEnables ==
  ASSUME SpiInv, OnceInv, Live, cur.state = "INACTIVE", NEW line, EnableSucceeds(line),
         line \in {"disabled", "off", "hold"}, line = "hold" => bus = "hold",
         UNCHANGED <<dpc, dpcQueued, cancel, client, smp, gpio>>, PinTyped', pend' = {},
         io' \in [Requests -> {"idle", "go", "armed", "armedLocked", "failed", "cancelled"}],
         \A r \in Requests : io'[r] # "idle" => r = given /\ io'[r] \in {"armed", "armedLocked"},
         gpio /\ ~gpioFailed' => pin'
  PROVE  SpiInv'
<1>1. /\ NoDpc /\ cancel.pc = "idle" /\ ~lock.req
      /\ cur.ready # 0 /\ cur.bad = 0 /\ cur.count # 0 /\ cur.type \in Types
      /\ cur.type # "SEQUENCE" => SingleData /\ cur.xfer[0].todo # 0
      /\ cur.type = "SEQUENCE" => SequenceData /\ FillData
  BY WhileStarting
<1>2. cur \in CurTypes /\ dpc \in [Cpus -> DpcTypes] /\ RestTyped
  BY Typed DEF SpiInv
<1>3. cur' = [cur EXCEPT !.state = "CANCELABLE"] /\ bus' = line /\ wdf' = "marked"
  BY DEF EnableSucceeds
<1>4. /\ SameData(cur', cur) /\ cur'.spb = cur.spb
      /\ cur'.type = cur.type /\ cur'.state = "CANCELABLE" /\ cur'.ready = cur.ready
  BY <1>2, <1>3, StateFields
<1>5. RestTyped' /\ dpc' \in [Cpus -> DpcTypes] /\ bus' # "on" /\ NoDpc'
  BY <1>1, <1>2, <1>3 DEF RestTyped, client, NoDpc
<1>6. cur.type # "SEQUENCE" => SingleData'
  BY <1>1, <1>4, KeepData
<1>7. cur.type = "SEQUENCE" => SequenceData' /\ FillData'
  <2>1. cur.type = "SEQUENCE" => SequenceData'
    BY <1>1, <1>4, <1>5, KeepData
  <2>2. cur.type = "SEQUENCE" => FillData'
    BY <1>1, <1>4, KeepData DEF NoDpc
  <2> QED
    BY <2>1, <2>2
<1>8. DataInv'
  BY <1>1, <1>4, <1>6, <1>7 DEF DataInv, Live, SameData
<1>9. DpcInv'
  BY <1>1, <1>3, <1>4, <1>5 DEF SpiInv, DpcInv, NoDpc, Live
<1>10. \A c \in Cpus : ~Owns(c)'
  BY <1>5 DEF NoDpc, Owns
<1>11. \A r \in Requests : io'[r] # "idle" => r = given /\ io'[r] \in {"armed", "armedLocked"}
  OBVIOUS
<1>12. UNCHANGED <<client, cancel, smp, gpio>>
  OBVIOUS
<1>13. Untouched
  BY <1>1 DEF Untouched
<1> QED
  BY <1>1, <1>5, <1>8, <1>9, <1>10, <1>11, <1>12, <1>13, Enables

\* The request is completed before it has started.
LEMMA StartRetires ==
  ASSUME SpiInv, OnceInv, Live, cur.state = "INACTIVE", NEW q \in CurTypes, q.spb = cur.spb,
         NEW st \in Statuses, st # "OK", CompleteTransferRequest(q, st),
         bus' \in {"disabled", "off", "hold"},
         UNCHANGED <<dpc, dpcQueued, cancel, client, wdf, smp, gpio>>, PinTyped', pend' = {},
         io' \in [Requests -> {"idle", "go", "armed", "armedLocked", "failed", "cancelled"}],
         \A r \in Requests : io'[r] # "idle" => r = given /\ io'[r] = "cancelled" /\ q.ready = 0,
         gpio /\ ~gpioFailed' => ~gpioFailed /\ (lock.held => pin' = pin)
  PROVE  SpiInv'
<1>1. NoDpc /\ wdf = "plain" /\ cancel.pc = "idle" /\ ~lock.req
  BY WhileStarting
<1>2. dpc \in [Cpus -> DpcTypes] /\ RestTyped
  BY Typed DEF SpiInv
<1>3. RestTyped' /\ dpc' \in [Cpus -> DpcTypes] /\ NoDpc'
  BY <1>1, <1>2 DEF RestTyped, client, NoDpc
<1>4. \A c \in Cpus : dpc'[c].pc = "idle" /\ dpc'[c].k = 0 /\ ~Owns(c)'
  BY <1>3 DEF NoDpc, Owns, SpiInv, DpcInv
<1>5. /\ UNCHANGED <<client, wdf, cancel, smp, gpio>> /\ "assert" \notin pend' /\ "negate" \notin pend'
      /\ bus' # "on"
  OBVIOUS
<1> QED
  BY <1>1, <1>3, <1>4, <1>5, Retire

LEMMA GoStep ==
  ASSUME SpiInv, OnceInv, NEW r \in Requests, GoLocked(r) \/ GoDirect(r) \/ GoGpio(r)
  PROVE  SpiInv'
<1>1. /\ io[r] = "go" /\ UNCHANGED <<dpc, dpcQueued, cancel, client>>
  BY DEF GoLocked, GoDirect, GoGpio
<1>2. Live /\ cur.state = "INACTIVE" /\ pend = {} /\ r = given /\ \A s \in Requests : s # r => io[s] = "idle"
  BY <1>1 DEF SpiInv, RoleInv, StartInv
<1>3. bus # "on" /\ wdf = "plain" /\ ~lock.req /\ cancel.pc = "idle" /\ NoDpc
  BY <1>2, WhileStarting
<1>4. cur \in CurTypes /\ RestTyped /\ PinTyped
  BY Typed DEF SpiInv
<1>5. ASSUME NEW x \in {"idle", "armed", "armedLocked", "cancelled"}, io' = [io EXCEPT ![r] = x]
      PROVE  /\ io' \in [Requests -> {"idle", "go", "armed", "armedLocked", "failed", "cancelled"}]
             /\ \A s \in Requests : io'[s] = IF s = r THEN x ELSE "idle"
  BY <1>2, <1>4, <1>5 DEF RestTyped
<1>6. ASSUME NEW line \in {"off", bus}, NEW x \in {"armed", "armedLocked"}, EnableSucceeds(line),
             io' = [io EXCEPT ![r] = x], UNCHANGED chipSelect, gpio => lock.held
      PROVE  SpiInv'
  <2>1. line \in {"disabled", "off", "hold"} /\ (line = "hold" => bus = "hold")
    BY <1>3, <1>4, <1>6 DEF RestTyped
  <2>2. PinTyped' /\ UNCHANGED <<smp, gpio>> /\ pend' = {}
    BY <1>1, <1>2, <1>4, <1>6 DEF PinTyped, chipSelect, client
  <2>3. gpio /\ ~gpioFailed' => pin'
    BY <1>3, <1>6 DEF SpiInv, PinInv, chipSelect
  <2>4. /\ io' \in [Requests -> {"idle", "go", "armed", "armedLocked", "failed", "cancelled"}]
        /\ \A s \in Requests : io'[s] = IF s = r THEN x ELSE "idle"
    BY <1>5, <1>6
  <2>5. \A s \in Requests : io'[s] # "idle" => s = given /\ io'[s] \in {"armed", "armedLocked"}
    BY <1>2, <2>4
  <2>6. UNCHANGED <<dpc, dpcQueued, cancel, client, smp, gpio>>
    BY <1>1, <2>2
  <2> QED
    BY <1>2, <1>6, <2>1, <2>2, <2>3, <2>4, <2>5, <2>6, StartEnables
<1>7. ASSUME NEW q \in CurTypes, q.spb = cur.spb, NEW st \in Statuses, st # "OK",
             CompleteTransferRequest(q, st), bus' \in {"disabled", "off"}, wdf' = wdf,
             NEW x \in {"idle", "cancelled"}, x = "idle" \/ q.ready = 0, io' = [io EXCEPT ![r] = x],
             UNCHANGED <<smp, gpio, pin, pend>>, gpioFailed' \in BOOLEAN, gpioFailed => gpioFailed'
      PROVE  SpiInv'
  <2>1. /\ io' \in [Requests -> {"idle", "go", "armed", "armedLocked", "failed", "cancelled"}]
        /\ \A s \in Requests : io'[s] # "idle" => s = given /\ io'[s] = "cancelled" /\ q.ready = 0
    BY <1>2, <1>5, <1>7
  <2>2. PinTyped' /\ pend' = {}
    BY <1>1, <1>2, <1>4, <1>7 DEF PinTyped, client
  <2>3. UNCHANGED <<dpc, dpcQueued, cancel, client, wdf, smp, gpio>>
    BY <1>1, <1>7
  <2>4. gpio /\ ~gpioFailed' => ~gpioFailed /\ (lock.held => pin' = pin)
    BY <1>7
  <2>5. bus' \in {"disabled", "off", "hold"}
    BY <1>7
  <2> QED
    BY <1>2, <1>7, <2>1, <2>2, <2>3, <2>4, <2>5, StartRetires
<1>8. ASSUME EnableFails, NEW x \in {"idle", "cancelled"}, io' = [io EXCEPT ![r] = x],
             UNCHANGED chipSelect
      PROVE  SpiInv'
  <2>1. CompleteTransferRequest(Aborted(cur), "CANCELLED") /\ bus' = "disabled" /\ wdf' = wdf
    BY <1>8 DEF EnableFails
  <2>2. Aborted(cur) \in CurTypes /\ Aborted(cur).spb = cur.spb /\ Aborted(cur).ready = 0
    BY <1>4, StateFields
  <2>3. /\ UNCHANGED <<smp, gpio, pin, pend>> /\ gpioFailed' \in BOOLEAN /\ (gpioFailed => gpioFailed')
        /\ "CANCELLED" \in Statuses /\ "CANCELLED" # "OK"
    BY <1>4, <1>8 DEF chipSelect, PinTyped, Statuses
  <2> QED
    BY <1>7, <1>8, <2>1, <2>2, <2>3
<1>9. CASE GoLocked(r)
  <2>1. lock.held /\ UNCHANGED chipSelect
    BY <1>9 DEF GoLocked
  <2>2. CASE EnableSucceeds(bus) /\ io' = [io EXCEPT ![r] = "armedLocked"]
    BY <1>6, <2>1, <2>2
  <2>3. CASE EnableFails /\ io' = [io EXCEPT ![r] = "idle"]
    BY <1>8, <2>1, <2>3
  <2> QED
    BY <1>9, <2>2, <2>3 DEF GoLocked
<1>10. CASE GoDirect(r)
  <2>1. ~gpio /\ UNCHANGED chipSelect
    BY <1>10 DEF GoDirect
  <2>2. CASE EnableSucceeds("off") /\ io' = [io EXCEPT ![r] = "armed"]
    BY <1>6, <2>1, <2>2
  <2>3. CASE EnableFails /\ io' = [io EXCEPT ![r] = "cancelled"]
    BY <1>8, <2>1, <2>3
  <2> QED
    BY <1>10, <2>2, <2>3 DEF GoDirect
<1>11. CASE GoGpio(r)
  <2>1. /\ ~lock.held /\ gpio /\ io' = [io EXCEPT ![r] = "idle"] /\ bus' = "off" /\ wdf' = wdf
    BY <1>11 DEF GoGpio
  <2>2. CASE RefuseGpio /\ CompleteTransferRequest(cur, "ERROR")
    <3>1. /\ UNCHANGED <<smp, gpio, pin, pend>> /\ gpioFailed' \in BOOLEAN /\ (gpioFailed => gpioFailed')
          /\ "ERROR" \in Statuses /\ "ERROR" # "OK"
      BY <2>2 DEF RefuseGpio, Statuses
    <3> QED
      BY <1>4, <1>7, <2>1, <2>2, <3>1
  <2>3. CASE SendGpio("assert") /\ UNCHANGED <<cur, answers>>
    <3>1. pend' = {"assert"} /\ UNCHANGED <<smp, gpio, pin, gpioFailed>>
      BY <1>2, <2>3 DEF SendGpio
    <3>2. /\ io' \in [Requests -> {"idle", "go", "armed", "armedLocked", "failed", "cancelled"}]
          /\ \A s \in Requests : io'[s] = "idle"
      BY <1>5, <2>1
    <3>3. SameData(cur', cur)
      BY <2>3 DEF SameData
    <3>4. TypeOK'
      BY <1>1, <1>4, <2>1, <2>3, <3>1, <3>2, Typed, TypedNext
         DEF SpiInv, RestTyped, PinTyped, AnswersTyped, client
    <3>5. StartInv'
      BY <1>1, <1>2, <1>3, <2>1, <2>3, <3>1, <3>2, WhileStarting DEF StartInv, Live, NoDpc
    <3>6. OwnerInv'
      BY <1>1, <1>2, <1>3, <2>1, <2>3 DEF SpiInv, RoleInv, OwnerInv, Live, Owns, client, NoDpc
    <3>7. NegateInv'
      BY <3>1 DEF NegateInv
    <3>8. DataInv'
      <4>1. /\ cur.bad = 0 /\ cur.count # 0 /\ cur.type \in Types
            /\ cur.type # "SEQUENCE" => SingleData
            /\ cur.type = "SEQUENCE" => SequenceData /\ FillData
        BY <1>2, WhileStarting
      <4>2. cur.type # "SEQUENCE" => SingleData'
        BY <2>1, <2>3, <3>3, <4>1, KeepData DEF SingleData
      <4>3. cur.type = "SEQUENCE" => SequenceData'
        BY <2>1, <2>3, <3>3, <4>1, KeepData
      <4>4. cur.type = "SEQUENCE" => FillData'
        BY <1>1, <2>3, <3>3, <4>1, KeepData
      <4> QED
        BY <1>2, <2>3, <4>1, <4>2, <4>3, <4>4 DEF DataInv, Live
    <3>9. DpcInv'
      BY <1>1, <1>2, <1>3, <2>1, <2>3 DEF SpiInv, DpcInv, NoDpc, Live
    <3>10. PinInv' /\ SuccessMeansDone'
      BY <1>1, <1>2, <1>3, <2>3, <3>1 DEF SpiInv, PinInv, SuccessMeansDone, Live, client
    <3> QED
      BY <3>4, <3>5, <3>6, <3>7, <3>8, <3>9, <3>10 DEF SpiInv, RoleInv
  <2> QED
    BY <1>11, <2>2, <2>3 DEF GoGpio
<1> QED
  BY <1>9, <1>10, <1>11

\* Threads that start a request, and what they find.
LEMMA StartingFacts ==
  ASSUME SpiInv, NEW r \in Requests, io[r] \in {"armed", "armedLocked", "failed", "cancelled"}
  PROVE  /\ r = given /\ NoDpc /\ bus # "on" /\ "assert" \notin pend /\ ~lock.req
         /\ \A s \in Requests : s # r => io[s] = "idle"
         /\ \A c \in Cpus : dpc[c].pc = "idle" /\ dpc[c].k = 0 /\ ~Owns(c)
         /\ "negate" \in pend => gpio /\ ~lock.held /\ bus \in {"disabled", "off"}
<1>1. /\ r = given /\ NoDpc /\ bus # "on" /\ "assert" \notin pend
      /\ \A s \in Requests : s # r => io[s] = "idle"
  BY DEF SpiInv, RoleInv, StartInv
<1>2. ~lock.req
  BY DEF SpiInv, RoleInv, OwnerInv, Idle
<1>3. \A c \in Cpus : dpc[c].pc = "idle" /\ dpc[c].k = 0 /\ ~Owns(c)
  BY <1>1 DEF SpiInv, DpcInv, NoDpc, Owns
<1>4. "negate" \in pend => gpio /\ ~lock.held /\ bus \in {"disabled", "off"}
  BY <1>2 DEF SpiInv, RoleInv, NegateInv
<1> QED
  BY <1>1, <1>2, <1>3, <1>4

LEMMA StartSafeStep ==
  ASSUME SpiInv, OnceInv, NEW r \in Requests, StartTransferSafe(r)
  PROVE  SpiInv'
<1>0. PICK x : x = IF cur.ready = 0 /\ io[r] = "armed" THEN "failed" ELSE "idle"
  OBVIOUS
<1>1. /\ io[r] \in {"armed", "armedLocked"} /\ io' = [io EXCEPT ![r] = x] /\ bus' = Started
      /\ UNCHANGED <<cur, answers>>
      /\ UNCHANGED <<dpc, dpcQueued, cancel, client, wdf>> /\ UNCHANGED <<smp, gpio, pin, pend, gpioFailed>>
  BY <1>0 DEF StartTransferSafe, chipSelect
<1>2. /\ r = given /\ NoDpc /\ bus # "on" /\ "assert" \notin pend
      /\ \A s \in Requests : s # r => io[s] = "idle"
      /\ IF Live THEN cur.state = "CANCELED" \/ (cur.state = "CANCELABLE" /\ Untouched)
                 ELSE cur.ready = 0
  BY <1>1 DEF SpiInv, RoleInv, StartInv
<1>3. cur \in CurTypes /\ dpc \in [Cpus -> DpcTypes] /\ RestTyped /\ PinTyped /\ AnswersTyped
  BY Typed DEF SpiInv
<1>4. /\ io' \in [Requests -> {"idle", "go", "armed", "armedLocked", "failed", "cancelled"}]
      /\ \A s \in Requests : io'[s] = IF s = r THEN x ELSE "idle"
      /\ x \in {"idle", "failed"} /\ (x = "failed" => cur.ready = 0)
  BY <1>0, <1>1, <1>2, <1>3 DEF RestTyped
<1>5. ~lock.req
  BY <1>1, StartingFacts
<1>6. NoDpc' /\ \A c \in Cpus : dpc[c].pc = "idle" /\ dpc'[c].pc = "idle" /\ dpc'[c].k = 0 /\ ~Owns(c)'
  BY <1>1, <1>2, StartingFacts DEF NoDpc, Owns
<1>7. x = "failed" => /\ bus' # "on"
                      /\ IF Live THEN cur.state = "CANCELED" ELSE cur.ready = 0
  BY <1>1, <1>2, <1>4 DEF Started, Untouched
<1>9. ASSUME bus' \in {bus, "on"},
             bus' = "on" => Live /\ cur.state = "CANCELABLE" /\ Untouched
      PROVE  SpiInv'
  <2>0. SameData(cur', cur)
    BY <1>1 DEF SameData
  <2>1. TypeOK'
    BY <1>1, <1>3, <1>4, <1>9, TypedNext DEF RestTyped, PinTyped, AnswersTyped, client
  <2>2. StartInv'
    BY <1>1, <1>2, <1>4, <1>6, <1>7, <1>9 DEF SpiInv, RoleInv, StartInv, Live, NoDpc, client
  <2>3. OwnerInv'
    BY <1>1, <1>4, <1>5, <1>6, <1>9 DEF SpiInv, RoleInv, OwnerInv, Live, client
  <2>4. NegateInv'
    BY <1>1, <1>5, <1>9 DEF SpiInv, RoleInv, NegateInv, Live, AllMoved, client
  <2>5. DataInv'
    <3>1. CASE bus' = bus
      BY <1>1, <1>6, <1>9, <2>0, <3>1, KeepDataInv DEF SpiInv
    <3>2. CASE bus' = "on"
      <4>1. /\ cur.bad = 0 /\ cur.count # 0 /\ cur.state # "CANCELED"
            /\ cur.type # "SEQUENCE" => SingleData
            /\ cur.type = "SEQUENCE" => SequenceData /\ FillData
        BY <1>1, <1>9, <3>2 DEF SpiInv, DataInv, Dropped, Untouched
      <4>2. cur.type # "SEQUENCE" => SingleData'
        BY <1>1, <1>9, <2>0, <3>2, <4>1, KeepData DEF Untouched
      <4>3. cur.type = "SEQUENCE" => SequenceData'
        BY <1>1, <1>9, <2>0, <3>2, <4>1, KeepData DEF Untouched
      <4>4. cur.type = "SEQUENCE" => FillData'
        BY <1>1, <1>9, <2>0, <4>1, KeepData
      <4> QED
        BY <1>1, <1>9, <3>2, <4>1, <4>2, <4>3, <4>4 DEF DataInv, Live
    <3> QED
      BY <1>9, <3>1, <3>2
  <2>6. DpcInv'
    BY <1>6 DEF DpcInv, NoDpc
  <2>7. PinInv' /\ SuccessMeansDone'
    BY <1>1, <1>9 DEF SpiInv, PinInv, SuccessMeansDone, Live, client
  <2> QED
    BY <2>1, <2>2, <2>3, <2>4, <2>5, <2>6, <2>7 DEF SpiInv, RoleInv
<1>10. CASE bus' # bus
  <2>1. bus' = "on" /\ cur.ready # 0
    BY <1>1, <1>10 DEF Started
  <2>2. Live /\ cur.state = "CANCELABLE" /\ Untouched
    BY <1>2, <2>1 DEF SpiInv, DataInv, Dropped
  <2> QED
    BY <1>9, <2>1, <2>2
<1>11. CASE bus' = bus
  BY <1>2, <1>9, <1>11
<1> QED
  BY <1>10, <1>11

LEMMA FailedStep ==
  ASSUME SpiInv, OnceInv, NEW r \in Requests, CompleteFailed(r)
  PROVE  SpiInv'
<1>1. PICK st \in {"ERROR", "CANCELLED"} : CompleteTransferRequest(cur, st)
  BY DEF CompleteFailed
<1>2. /\ io[r] \in {"failed", "cancelled"} /\ io' = [io EXCEPT ![r] = "idle"] /\ bus' = bus
      /\ UNCHANGED <<dpc, dpcQueued, cancel, client, wdf>> /\ UNCHANGED <<smp, gpio, pin, pend, gpioFailed>>
  BY DEF CompleteFailed, chipSelect
<1>3. /\ bus # "on" /\ "assert" \notin pend /\ ~lock.req /\ NoDpc
      /\ \A s \in Requests : s # r => io[s] = "idle"
      /\ \A c \in Cpus : dpc[c].pc = "idle" /\ dpc[c].k = 0 /\ ~Owns(c)
      /\ "negate" \in pend => gpio /\ ~lock.held /\ bus \in {"disabled", "off"}
  BY <1>2, StartingFacts
<1>4. cur \in CurTypes /\ dpc \in [Cpus -> DpcTypes] /\ RestTyped /\ PinTyped
  BY Typed DEF SpiInv
<1>5. cancel.pc # "run" /\ wdf # "marked"
  BY <1>2 DEF SpiInv, RoleInv, StartInv, OwnerInv
<1>6. /\ io' \in [Requests -> {"idle", "go", "armed", "armedLocked", "failed", "cancelled"}]
      /\ \A s \in Requests : io'[s] = "idle"
  BY <1>2, <1>3, <1>4 DEF RestTyped
<1>7. RestTyped' /\ PinTyped' /\ dpc' \in [Cpus -> DpcTypes]
  BY <1>2, <1>4, <1>6 DEF RestTyped, PinTyped, client
<1>8. /\ st \in Statuses /\ st # "OK" /\ UNCHANGED <<client, wdf, cancel, smp, gpio>>
      /\ bus' # "on" /\ "assert" \notin pend' /\ NoDpc'
      /\ "negate" \in pend' => gpio /\ ~lock.held /\ bus' \in {"disabled", "off"}
      /\ \A c \in Cpus : dpc'[c].pc = "idle" /\ dpc'[c].k = 0 /\ ~Owns(c)'
  BY <1>1, <1>2, <1>3 DEF Statuses, NoDpc, Owns
<1>9. gpio /\ ~gpioFailed' => ~gpioFailed /\ (lock.held => pin' = pin) /\ (~Live /\ pin' => pin)
  BY <1>2
<1> QED
  BY <1>1, <1>3, <1>4, <1>5, <1>6, <1>7, <1>8, <1>9, Retire

-----------------------------------------------------------------------------
\* The client

\* Nothing of an earlier request is left when the queue hands over the next one.
LEMMA WhenDelivered ==
  ASSUME SpiInv, OnceInv, "overtake" \notin Lifted, CanDeliver
  PROVE  /\ ~Live /\ NoDpc /\ (\A r \in Requests : io[r] = "idle") /\ cancel.pc = "idle"
         /\ pend = {} /\ ~lock.req /\ wdf # "marked" /\ bus # "on"
         /\ \A c \in Cpus : dpc[c].pc = "idle" /\ dpc[c].k = 0
<1>1. /\ NoDpc /\ (\A r \in Requests : io[r] = "idle") /\ cancel.pc = "idle" /\ pend = {} /\ ~lock.req
      /\ \A r \in 1..given : answers[r] # <<>>
  BY DEF CanDeliver, Quiet, NoDpc
<1>2. ~Live
  <2> SUFFICES ASSUME Live PROVE FALSE
    OBVIOUS
  <2>1. cur.spb = given /\ answers[given] = <<>> /\ given \in Nat /\ given # 0
    BY Typed, Bounds DEF SpiInv, RoleInv, OwnerInv, OnceInv, OwnedInv, Live, RestTyped
  <2> QED
    BY <1>1, <2>1
<1>3. wdf # "marked" /\ bus # "on"
  BY <1>2 DEF SpiInv, RoleInv, OwnerInv, DataInv
<1>4. \A c \in Cpus : dpc[c].pc = "idle" /\ dpc[c].k = 0
  BY <1>1 DEF NoDpc, SpiInv, DpcInv
<1> QED
  BY <1>1, <1>2, <1>3, <1>4

LEMMA LockStep ==
  ASSUME SpiInv, OnceInv, "overtake" \notin Lifted, ControllerLock \/ ControllerUnlock
  PROVE  SpiInv'
<1> USE DEF threads
<1>1. /\ ~Live /\ NoDpc /\ (\A r \in Requests : io[r] = "idle") /\ cancel.pc = "idle"
      /\ pend = {} /\ ~lock.req /\ wdf # "marked"
      /\ \A c \in Cpus : dpc[c].pc = "idle" /\ dpc[c].k = 0
  BY WhenDelivered DEF ControllerLock, ControllerUnlock
<1>2. /\ bus' \in {"disabled", "off"} /\ UNCHANGED <<threads, cur, want, wdf, given, answers>>
      /\ gpio' = gpio /\ UNCHANGED <<smp, pin>>
      /\ \/ gpio /\ pend' = {IF lock.held THEN "negate" ELSE "assert"} /\ gpioFailed' = gpioFailed
         \/ gpio /\ pend' = {} /\ gpioFailed' = TRUE
         \/ ~gpio /\ pend' = {} /\ gpioFailed' = gpioFailed
      /\ locks' = locks \/ (locks < MaxLocks /\ locks' = locks + 1)
  <2>1. CASE ControllerLock
    BY <1>1, <2>1 DEF ControllerLock, SendGpio, RefuseGpio, chipSelect
  <2>2. CASE ControllerUnlock
    BY <1>1, <2>2 DEF ControllerUnlock, SendGpio, RefuseGpio, chipSelect
  <2> QED
    BY <2>1, <2>2
<1>3. cur \in CurTypes /\ dpc \in [Cpus -> DpcTypes] /\ RestTyped /\ PinTyped /\ AnswersTyped
  BY Typed DEF SpiInv
<1>4. /\ lock'.held \in BOOLEAN /\ lock'.req = gpio /\ lock' \in [held : BOOLEAN, req : BOOLEAN]
      /\ lock'.held <=> ~lock.held
  <2>1. CASE ControllerLock
    <3>1. ~lock.held /\ lock' = [held |-> TRUE, req |-> gpio]
      BY <2>1 DEF ControllerLock
    <3> QED
      BY <1>3, <3>1 DEF PinTyped
  <2>2. CASE ControllerUnlock
    <3>1. lock.held /\ lock' = [held |-> FALSE, req |-> gpio]
      BY <2>2 DEF ControllerUnlock
    <3> QED
      BY <1>3, <3>1 DEF PinTyped
  <2> QED
    BY <2>1, <2>2
<1>5. RestTyped' /\ PinTyped'
  <2>1. RestTyped'
    BY <1>2, <1>3 DEF RestTyped
  <2>2. locks' \in 0..MaxLocks
    BY <1>2, <1>3, Bounds DEF PinTyped
  <2>3. pend' \subseteq {"assert", "negate"} /\ gpioFailed' \in BOOLEAN
    BY <1>2, <1>3 DEF PinTyped
  <2> QED
    BY <1>2, <1>3, <1>4, <2>1, <2>2, <2>3 DEF PinTyped
<1>6. TypeOK'
  BY <1>2, <1>3, <1>5, TypedNext DEF AnswersTyped
<1>7. NoDpc' /\ Idle'
  BY <1>1, <1>2 DEF NoDpc, Idle, Live
<1>8. StartInv'
  BY <1>1, <1>2, <1>4 DEF StartInv, Live
<1>9. OwnerInv'
  BY <1>1, <1>2, <1>7 DEF OwnerInv, Live, Owns
<1>10. NegateInv'
  BY <1>1, <1>2, <1>4 DEF NegateInv, Live
<1>11. DataInv' /\ DpcInv'
  BY <1>1, <1>2, <1>7 DEF DataInv, DpcInv, Live
<1>12. PinInv' /\ SuccessMeansDone'
  BY <1>1, <1>2, <1>4 DEF SpiInv, PinInv, SuccessMeansDone, Live
<1> QED
  BY <1>6, <1>8, <1>9, <1>10, <1>11, <1>12 DEF SpiInv, RoleInv

\* External: the client cancels; the cancel routine is called when there is one.
LEMMA ClientCancelStep ==
  ASSUME SpiInv, ClientCancel
  PROVE  SpiInv'
<1> USE DEF chipSelect
<1>1. /\ given > 0 /\ want' = TRUE
      /\ UNCHANGED <<cur, bus, io, dpc, dpcQueued, lock, locks, given, answers>>
      /\ UNCHANGED <<smp, gpio, pin, pend, gpioFailed>>
      /\ IF wdf = "marked" THEN wdf' = "called" /\ cancel' = [pc |-> "run", req |-> given]
                           ELSE UNCHANGED <<wdf, cancel>>
  BY DEF ClientCancel
<1>2. cur \in CurTypes /\ dpc \in [Cpus -> DpcTypes] /\ RestTyped /\ PinTyped /\ AnswersTyped
  BY Typed DEF SpiInv
<1>3. wdf = "marked" => /\ Live /\ cur.state = "CANCELABLE" /\ cancel.pc = "idle" /\ ~lock.req
                        /\ cancel'.pc = "run"
  BY <1>1 DEF SpiInv, RoleInv, OwnerInv
<1>4. RestTyped' /\ PinTyped' /\ AnswersTyped'
  BY <1>1, <1>2 DEF RestTyped, PinTyped, AnswersTyped
<1>5. TypeOK'
  BY <1>1, <1>2, <1>4, TypedNext
<1>6. StartInv'
  BY <1>1, <1>3 DEF SpiInv, RoleInv, StartInv, Live, NoDpc, Untouched
<1>7. OwnerInv'
  BY <1>1, <1>3 DEF SpiInv, RoleInv, OwnerInv, Live, NoDpc, Idle, Owns
<1>8. NegateInv' /\ DpcInv' /\ PinInv' /\ SuccessMeansDone'
  <2>1. NegateInv'
    BY <1>1 DEF SpiInv, RoleInv, NegateInv, Live, AllMoved
  <2>2. DpcInv'
    BY <1>1 DEF SpiInv, DpcInv, Live, NoDpc, AllMoved
  <2>3. PinInv' /\ SuccessMeansDone'
    BY <1>1 DEF SpiInv, PinInv, Live, SuccessMeansDone
  <2> QED
    BY <2>1, <2>2, <2>3
<1>9. DataInv'
  <2>1. (SingleData => SingleData') /\ (SequenceData => SequenceData') /\ (FillData => FillData')
    <3>1. SingleData => SingleData'
      BY <1>1 DEF SingleData
    <3>2. SequenceData => SequenceData'
      BY <1>1 DEF SequenceData, Place, Active
    <3>3. FillData => FillData'
      BY <1>1 DEF FillData
    <3> QED
      BY <3>1, <3>2, <3>3
  <2>2. Dropped => Dropped'
    BY <1>1, <1>3 DEF Dropped
  <2> QED
    BY <1>1, <2>1, <2>2 DEF SpiInv, DataInv, Live
<1> QED
  BY <1>5, <1>6, <1>7, <1>8, <1>9 DEF SpiInv, RoleInv

\* The section of ECSPIEvtRequestCancel under DeviceLock, which takes the
\* request or leaves it to the completion of the negation.
LEMMA CancelStep ==
  ASSUME SpiInv, OnceInv, Cancel
  PROVE  SpiInv'
<1> DEFINE q == [Aborted(cur) EXCEPT !.state = "CANCELED"]
           Take == cur' = [q EXCEPT !.spb = 0] /\ cancel' = [pc |-> "complete", req |-> cur.spb]
           Leave == cur' = q /\ cancel' = [cancel EXCEPT !.pc = "idle"]
<1>1. cancel.pc = "run" /\ bus' = "disabled" /\ UNCHANGED <<io, dpc, dpcQueued, client, wdf, answers>>
  BY DEF Cancel
<1>2. /\ Live /\ cur.state = "CANCELABLE" /\ wdf = "called" /\ cur.spb = given /\ cur.type \in Types
      /\ ~lock.req /\ \A c \in Cpus : ~Owns(c)
  BY <1>1 DEF SpiInv, RoleInv, OwnerInv
<1>3. \A r \in Requests : io[r] # "go"
  BY <1>2 DEF SpiInv, RoleInv, StartInv
<1>4. cur \in CurTypes /\ dpc \in [Cpus -> DpcTypes] /\ RestTyped /\ PinTyped /\ AnswersTyped
  BY Typed DEF SpiInv
<1>5. pend = {}
  <2>1. "assert" \notin pend
    BY <1>2 DEF SpiInv, RoleInv, StartInv
  <2>2. "negate" \notin pend
    BY <1>2 DEF SpiInv, RoleInv, NegateInv
  <2> QED
    BY <1>4, <2>1, <2>2 DEF PinTyped
<1>6. /\ UNCHANGED <<smp, gpio, pin>>
      /\ \/ Take /\ pend' = {} /\ gpioFailed' \in {gpioFailed, TRUE}
         \/ Leave /\ pend' = {"negate"} /\ gpio /\ ~lock.held /\ gpioFailed' = gpioFailed
  BY <1>2, <1>5 DEF Cancel, chipSelect, RefuseGpio, SendGpio, Live
<1>7. /\ IsRequest(cur') /\ SameData(cur', cur) /\ cur'.ready = 0 /\ cur'.idle = cur.idle
      /\ cur'.type = cur.type /\ cur'.state = "CANCELED"
      /\ Take => cur'.spb = 0
      /\ Leave => cur'.spb = cur.spb
  <2>1. IsRequest(cur)
    BY <1>4, RequestRecord
  <2>2. CASE Take
    <3>1. cur' = [cur EXCEPT !.ready = 0, !.state = "CANCELED", !.spb = 0]
      BY <2>2 DEF Aborted
    <3>2. IsRequest(cur')
      BY <2>1, <3>1 DEF IsRequest
    <3>3. /\ SameData(cur', cur) /\ cur'.ready = 0 /\ cur'.idle = cur.idle
          /\ cur'.type = cur.type /\ cur'.state = "CANCELED" /\ cur'.spb = 0
      BY <2>1, <3>1, <3>2 DEF IsRequest, SameData
    <3>4. ~Leave
      BY <1>2, <3>3, <2>1 DEF IsRequest, Aborted, Live
    <3> QED
      BY <3>2, <3>3, <3>4
  <2>3. CASE Leave
    <3>1. cur' = [cur EXCEPT !.ready = 0, !.state = "CANCELED"]
      BY <2>3 DEF Aborted
    <3>2. IsRequest(cur')
      BY <2>1, <3>1 DEF IsRequest
    <3>3. /\ SameData(cur', cur) /\ cur'.ready = 0 /\ cur'.idle = cur.idle
          /\ cur'.type = cur.type /\ cur'.state = "CANCELED" /\ cur'.spb = cur.spb
      BY <2>1, <3>1, <3>2 DEF IsRequest, SameData
    <3>4. ~Take
      <4>1. Take => cur' = [cur EXCEPT !.ready = 0, !.state = "CANCELED", !.spb = 0]
        BY DEF Aborted
      <4>2. Take => cur'.spb = 0
        BY <2>1, <4>1 DEF IsRequest
      <4> QED
        BY <1>2, <3>3, <4>2 DEF Live
    <3> QED
      BY <3>2, <3>3, <3>4
  <2> QED
    BY <1>6, <2>2, <2>3
<1>8. /\ Take => cancel'.pc = "complete" /\ cancel'.req = given
      /\ Leave => cancel'.pc = "idle"
      /\ cancel' \in [pc : {"idle", "run", "complete"}, req : 0..MaxRequests]
  <2>1. cur.spb \in 0..MaxRequests
    BY <1>4, Fields
  <2>2. CASE Take
    BY <1>2, <2>1, <2>2
  <2>3. CASE Leave
    BY <1>4, <2>3 DEF RestTyped
  <2> QED
    BY <1>6, <2>2, <2>3
<1> HIDE DEF q, Take, Leave
<1>9. cur'.spb \in 0..MaxRequests
  <2>1. cur.spb \in 0..MaxRequests /\ 0 \in 0..MaxRequests
    BY <1>4, Fields, Bounds
  <2> QED
    BY <1>6, <1>7, <2>1
<1>10. cur' \in CurTypes
  BY <1>4, <1>7, <1>9, Fields, Bounds, RequestTyped DEF SameData
<1>11. TypeOK'
  <2>1. RestTyped'
    BY <1>1, <1>4, <1>8 DEF RestTyped, client
  <2>2. pend' \subseteq {"assert", "negate"} /\ gpioFailed' \in BOOLEAN
    BY <1>4, <1>6 DEF PinTyped
  <2>3. PinTyped'
    BY <1>1, <1>4, <1>6, <2>2 DEF PinTyped, client
  <2> QED
    BY <1>1, <1>4, <1>10, <2>1, <2>3, TypedNext DEF AnswersTyped
<1>12. StartInv'
  BY <1>1, <1>2, <1>3, <1>6, <1>7 DEF SpiInv, RoleInv, StartInv, Live, NoDpc, client
<1>13. OwnerInv'
  BY <1>1, <1>2, <1>6, <1>7, <1>8 DEF OwnerInv, Live, Owns, client
<1>14. NegateInv'
  BY <1>1, <1>6, <1>7 DEF NegateInv, Live, client
<1>15. DataInv'
  BY <1>1, <1>2, <1>7 DEF SpiInv, DataInv, Live, Dropped, SameData
<1>16. DpcInv'
  BY <1>1, <1>2, <1>6, <1>7 DEF SpiInv, DpcInv, Live, NoDpc, Owns
<1>17. PinInv' /\ SuccessMeansDone'
  <2>1. answers[given] = <<>>
    BY <1>2 DEF OnceInv, OwnedInv, Live
  <2> QED
    BY <1>1, <1>2, <1>6, <1>7, <2>1 DEF SpiInv, PinInv, SuccessMeansDone, Live, client
<1> QED
  BY <1>11, <1>12, <1>13, <1>14, <1>15, <1>16, <1>17 DEF SpiInv, RoleInv

\* ... and what follows it: the request that was taken is completed.
LEMMA CancelCompleteStep ==
  ASSUME SpiInv, OnceInv, CancelComplete
  PROVE  SpiInv'
<1>1. /\ cancel.pc = "complete" /\ cancel' = [cancel EXCEPT !.pc = "idle"]
      /\ cur' = [cur EXCEPT !.type = "INVALID", !.state = "INACTIVE"]
      /\ Answer(cancel.req, "CANCELLED", cur)
      /\ UNCHANGED <<bus, io, dpc, dpcQueued, client, wdf>>
      /\ UNCHANGED <<smp, gpio, pin, pend, gpioFailed>>
  BY DEF CancelComplete, chipSelect
<1>2. /\ ~Live /\ cancel.req = given /\ cur.ready = 0 /\ ~lock.req /\ wdf # "marked"
      /\ \A c \in Cpus : ~Owns(c)
  BY <1>1 DEF SpiInv, RoleInv, OwnerInv, Idle
<1>3. cur \in CurTypes /\ dpc \in [Cpus -> DpcTypes] /\ RestTyped /\ PinTyped /\ AnswersTyped
  BY Typed DEF SpiInv
<1>4. given \in Requests /\ answers[given] = <<>>
  BY <1>1, <1>2, <1>3, Bounds DEF OnceInv, TakenInv, RestTyped, Requests
<1>5. /\ AnswersTyped' /\ SuccessMeansDone'
      /\ \A i \in DOMAIN answers'[given] : answers'[given][i].st = "CANCELLED"
  <2>1. "CANCELLED" \in Statuses /\ "CANCELLED" # "OK"
    BY DEF Statuses
  <2> QED
    BY <1>1, <1>2, <1>4, <2>1, Answered DEF SpiInv
<1>6. cur' \in CurTypes /\ cur'.spb = 0 /\ cur'.ready = 0
  <2>1. IsRequest(cur)
    BY <1>3, RequestRecord
  <2>2. IsRequest(cur')
    BY <1>1, <2>1 DEF IsRequest
  <2>3. /\ cur'.spb = cur.spb /\ cur'.type = "INVALID" /\ cur'.state = "INACTIVE"
        /\ cur'.ready = cur.ready /\ cur'.idle = cur.idle /\ SameData(cur', cur)
    BY <1>1, <2>1, <2>2 DEF IsRequest, SameData
  <2> QED
    BY <1>2, <1>3, <2>2, <2>3, Fields, RequestTyped DEF SameData, Live
<1>7. cancel'.pc = "idle" /\ cancel' \in [pc : {"idle", "run", "complete"}, req : 0..MaxRequests]
  BY <1>1, <1>3 DEF RestTyped
<1>8. TypeOK'
  <2>1. RestTyped' /\ PinTyped'
    BY <1>1, <1>3, <1>7 DEF RestTyped, PinTyped, client
  <2> QED
    BY <1>1, <1>3, <1>5, <1>6, <2>1, TypedNext
<1>9. StartInv'
  BY <1>1, <1>2, <1>6 DEF SpiInv, RoleInv, StartInv, Live, NoDpc, client
<1>10. OwnerInv'
  BY <1>1, <1>2, <1>6, <1>7 DEF OwnerInv, Live, Owns, client
<1>11. NegateInv'
  BY <1>1, <1>6 DEF SpiInv, RoleInv, NegateInv, Live, client
<1>12. DataInv'
  BY <1>1, <1>2, <1>6 DEF SpiInv, DataInv, Live
<1>13. DpcInv'
  BY <1>1, <1>2, <1>6 DEF SpiInv, DpcInv, Live, NoDpc, Owns
<1>14. PinInv'
  BY <1>1, <1>2, <1>5, <1>6 DEF SpiInv, PinInv, Live, client
<1> QED
  BY <1>5, <1>8, <1>9, <1>10, <1>11, <1>12, <1>13, <1>14 DEF SpiInv, RoleInv

-----------------------------------------------------------------------------
\* The completion routines of the GPIO writes

\* The writes of a lock request and of a transfer request never meet.
LEMMA Written ==
  ASSUME SpiInv, NEW write \in {"assert", "negate"}, NEW ok \in BOOLEAN, GpioWritten(write, ok)
  PROVE  /\ pend = {write} /\ pend' = {} /\ UNCHANGED <<smp, gpio>>
         /\ ok => (pin' <=> write = "assert") /\ (gpioFailed' <=> gpioFailed)
         /\ ~ok => pin' = pin /\ gpioFailed'
         /\ pin' \in BOOLEAN /\ gpioFailed' \in BOOLEAN
<1>1. /\ write \in pend /\ pend' = pend \ {write} /\ UNCHANGED <<smp, gpio>>
      /\ pin' = (IF ok THEN write = "assert" ELSE pin) /\ gpioFailed' = (gpioFailed \/ ~ok)
  BY DEF GpioWritten
<1>2. pend \subseteq {"assert"} \/ pend \subseteq {"negate"}
  BY DEF SpiInv, RoleInv, NegateInv
<1>3. pin \in BOOLEAN /\ gpioFailed \in BOOLEAN
  BY Typed DEF SpiInv, PinTyped
<1>4. pend = {write} /\ pend' = {}
  BY <1>1, <1>2
<1>5. CASE ok
  BY <1>1, <1>3, <1>4, <1>5
<1>6. CASE ~ok
  BY <1>1, <1>3, <1>4, <1>6
<1> QED
  BY <1>5, <1>6

LEMMA LockAnsweredStep ==
  ASSUME SpiInv, NEW write \in {"assert", "negate"}, NEW ok \in BOOLEAN, LockAnswered(write, ok)
  PROVE  SpiInv'
<1> USE DEF threads
<1>1. /\ lock.req /\ lock' = [lock EXCEPT !.req = FALSE] /\ GpioWritten(write, ok)
      /\ UNCHANGED <<threads, cur, bus, want, wdf, locks, given, answers>>
  BY DEF LockAnswered
<1>2. /\ pend = {write} /\ pend' = {} /\ UNCHANGED <<smp, gpio>>
      /\ ok => (pin' <=> write = "assert") /\ (gpioFailed' <=> gpioFailed)
      /\ ~ok => pin' = pin /\ gpioFailed'
      /\ pin' \in BOOLEAN /\ gpioFailed' \in BOOLEAN
  BY <1>1, Written
<1>3. cur \in CurTypes /\ dpc \in [Cpus -> DpcTypes] /\ RestTyped /\ PinTyped /\ AnswersTyped
  BY Typed DEF SpiInv
<1>4. Idle
  BY <1>1 DEF SpiInv, RoleInv, OwnerInv
<1>5. ~lock'.req /\ lock'.held = lock.held /\ lock' \in [held : BOOLEAN, req : BOOLEAN]
  BY <1>1, <1>3 DEF PinTyped
<1>6. TypeOK'
  <2>1. RestTyped' /\ PinTyped'
    BY <1>1, <1>2, <1>3, <1>5 DEF RestTyped, PinTyped
  <2> QED
    BY <1>1, <1>3, <2>1, TypedNext DEF AnswersTyped
<1>7. StartInv'
  BY <1>1, <1>2, <1>4 DEF StartInv, Idle, Live
<1>8. OwnerInv'
  BY <1>1, <1>4, <1>5 DEF SpiInv, RoleInv, OwnerInv, Idle, Live, Owns, NoDpc
<1>9. NegateInv'
  BY <1>2 DEF NegateInv
<1>10. DataInv' /\ DpcInv'
  <2>1. DataInv'
    BY <1>1, <1>4 DEF DataInv, Idle, Live
  <2>2. DpcInv'
    BY <1>1, <1>4 DEF SpiInv, DpcInv, Idle, NoDpc, Live
  <2> QED
    BY <2>1, <2>2
<1>11. PinInv'
  <2> SUFFICES ASSUME gpio', ~gpioFailed'
               PROVE  PinInv'
    BY DEF PinInv
  <2>1. ok /\ gpio /\ ~gpioFailed
    BY <1>2
  <2>2. pend = {IF lock.held THEN "assert" ELSE "negate"}
    BY <1>1, <2>1 DEF SpiInv, PinInv
  <2>3. lock.held <=> write = "assert"
    BY <1>2, <2>2
  <2>4. lock.held <=> pin'
    BY <1>2, <2>1, <2>3
  <2> QED
    BY <1>1, <1>4, <1>5, <2>4 DEF PinInv, Idle, Live
<1>12. SuccessMeansDone'
  BY <1>1 DEF SpiInv, SuccessMeansDone
<1> QED
  BY <1>6, <1>7, <1>8, <1>9, <1>10, <1>11, <1>12 DEF SpiInv, RoleInv

LEMMA AssertDoneStep ==
  ASSUME SpiInv, OnceInv, NEW ok \in BOOLEAN, AssertDone(ok)
  PROVE  SpiInv'
<1>1. GpioWritten("assert", ok) /\ ~lock.req /\ UNCHANGED <<dpc, dpcQueued, cancel, client>>
  BY DEF AssertDone
<1>2. /\ pend = {"assert"} /\ pend' = {} /\ UNCHANGED <<smp, gpio>>
      /\ ok => pin' /\ (gpioFailed' <=> gpioFailed)
      /\ ~ok => gpioFailed'
      /\ pin' \in BOOLEAN /\ gpioFailed' \in BOOLEAN
  BY <1>1, Written
<1>3. Live /\ cur.state = "INACTIVE" /\ \A r \in Requests : io[r] = "idle"
  BY <1>1, <1>2 DEF SpiInv, RoleInv, StartInv
<1>4. bus # "on"
  BY <1>3, WhileStarting
<1>5. cur \in CurTypes /\ RestTyped /\ PinTyped
  BY Typed DEF SpiInv
<1>6. bus \in {"disabled", "off", "hold"} /\ PinTyped' /\ UNCHANGED <<dpc, dpcQueued, cancel, client, smp, gpio>>
  BY <1>1, <1>2, <1>4, <1>5 DEF RestTyped, PinTyped, client
<1>7. gpio /\ ~gpioFailed' => ~gpioFailed /\ ok /\ pin' /\ (lock.held => pin' = pin)
  <2>1. gpio /\ ~gpioFailed' => ~gpioFailed /\ ok /\ pin'
    BY <1>2
  <2>2. gpio /\ ~gpioFailed /\ lock.held => pin
    BY <1>1 DEF SpiInv, PinInv
  <2>3. pin \in BOOLEAN
    BY <1>5 DEF PinTyped
  <2> QED
    BY <1>2, <2>1, <2>2, <2>3
<1>8. ASSUME NEW q \in CurTypes, q.spb = cur.spb, NEW st \in Statuses, st # "OK",
             CompleteTransferRequest(q, st), bus' \in {"disabled", "off", "hold"}, UNCHANGED <<io, wdf>>
      PROVE  SpiInv'
  <2>1. /\ io' \in [Requests -> {"idle", "go", "armed", "armedLocked", "failed", "cancelled"}]
        /\ \A r \in Requests : io'[r] = "idle"
    BY <1>3, <1>5, <1>8 DEF RestTyped
  <2>2. UNCHANGED <<dpc, dpcQueued, cancel, client, wdf, smp, gpio>>
    BY <1>6, <1>8
  <2> QED
    BY <1>2, <1>3, <1>6, <1>7, <1>8, <2>1, <2>2, StartRetires
<1>9. CASE CompleteTransferRequest(cur, "ERROR") /\ UNCHANGED <<bus, io, wdf>>
  <2>1. "ERROR" \in Statuses /\ "ERROR" # "OK" /\ bus' \in {"disabled", "off", "hold"}
    BY <1>6, <1>9 DEF Statuses
  <2> QED
    BY <1>5, <1>8, <1>9, <2>1
<1>10. CASE EnableSucceeds(bus) /\ io' = [io EXCEPT ![cur.spb] = "armed"]
  <2>1. cur.spb = given /\ cur.spb \in Requests
    BY <1>3, <1>5, Fields, EcspiAssumption DEF SpiInv, RoleInv, OwnerInv, Live, Requests
  <2>2. /\ io' \in [Requests -> {"idle", "go", "armed", "armedLocked", "failed", "cancelled"}]
        /\ \A r \in Requests : io'[r] # "idle" => r = given /\ io'[r] \in {"armed", "armedLocked"}
    BY <1>3, <1>5, <1>10, <2>1 DEF RestTyped
  <2> QED
    BY <1>2, <1>3, <1>6, <1>7, <1>10, <2>2, StartEnables
<1>11. CASE EnableFails /\ UNCHANGED io
  <2>1. CompleteTransferRequest(Aborted(cur), "CANCELLED") /\ bus' = "disabled" /\ wdf' = wdf
    BY <1>11 DEF EnableFails
  <2>2. Aborted(cur) \in CurTypes /\ Aborted(cur).spb = cur.spb
    BY <1>5, StateFields
  <2>3. "CANCELLED" \in Statuses /\ "CANCELLED" # "OK" /\ bus' \in {"disabled", "off", "hold"}
    BY <2>1 DEF Statuses
  <2> QED
    BY <1>8, <1>11, <2>1, <2>2, <2>3
<1> QED
  BY <1>9, <1>10, <1>11 DEF AssertDone

LEMMA NegateDoneStep ==
  ASSUME SpiInv, OnceInv, NEW ok \in BOOLEAN, NegateDone(ok)
  PROVE  SpiInv'
<1> DEFINE st == IF cur.state = "CANCELED" THEN "CANCELLED" ELSE IF ok THEN "OK" ELSE "ERROR"
<1>1. /\ GpioWritten("negate", ok) /\ ~lock.req /\ CompleteTransferRequest(cur, st)
      /\ UNCHANGED <<bus, io, dpc, dpcQueued, cancel, client, wdf>>
  BY DEF NegateDone, threads
<1>2. st \in Statuses /\ (st = "OK" => ok /\ cur.state # "CANCELED")
  BY DEF Statuses
<1> HIDE DEF st
<1>3. /\ pend = {"negate"} /\ pend' = {} /\ UNCHANGED <<smp, gpio>>
      /\ ok => ~pin' /\ (gpioFailed' <=> gpioFailed)
      /\ ~ok => gpioFailed'
      /\ pin' \in BOOLEAN /\ gpioFailed' \in BOOLEAN
  BY <1>1, Written
<1>4. /\ gpio /\ ~lock.held /\ bus \in {"disabled", "off"}
      /\ Live => \/ cur.state = "CANCELED"
                 \/ cur.state = "NOT_CANCELABLE" /\ AllMoved(cur) /\ (cur.type = "SEQUENCE" => cur.left = 0)
  BY <1>1, <1>3 DEF SpiInv, RoleInv, NegateInv
<1>5. cur \in CurTypes /\ dpc \in [Cpus -> DpcTypes] /\ RestTyped /\ PinTyped
  BY Typed DEF SpiInv
<1>6. cancel.pc # "run" /\ wdf # "marked" /\ \A c \in Cpus : ~Owns(c)
  BY <1>3, <1>4 DEF SpiInv, RoleInv, OwnerInv
<1>7. \A r \in Requests : io'[r] # "idle" =>
         r = given /\ io'[r] # "go" /\ NoDpc' /\ cur.ready = 0
  <2> SUFFICES ASSUME NEW r \in Requests, io[r] # "idle"
               PROVE  r = given /\ io[r] # "go" /\ NoDpc /\ cur.ready = 0
    BY <1>1 DEF NoDpc
  <2>1. /\ r = given /\ NoDpc
        /\ io[r] \in {"armed", "armedLocked", "failed", "cancelled"}
    BY <1>3, <1>5 DEF SpiInv, RoleInv, StartInv, RestTyped
  <2>2. Live => cur.state = "CANCELED"
    BY <1>4, <2>1 DEF SpiInv, RoleInv, StartInv
  <2>3. cur.ready = 0
    BY <2>1, <2>2 DEF SpiInv, RoleInv, StartInv, DataInv, Dropped
  <2> QED
    BY <2>1, <2>3
<1>8. ASSUME NEW c \in Cpus, dpc[c].pc \in {"kick", "start"}
      PROVE  cur.ready = 0
  <2>1. CASE ~Live
    BY <1>8, <2>1 DEF SpiInv, DpcInv
  <2>2. CASE Live
    <3>1. cur.type = "SEQUENCE"
      BY <1>8, <2>2 DEF SpiInv, DpcInv
    <3>2. CASE Dropped
      BY <3>2 DEF Dropped
    <3>3. CASE ~Dropped
      <4>1. SequenceData /\ cur.left = 0
        BY <1>4, <2>2, <3>1, <3>3 DEF SpiInv, DataInv
      <4> QED
        BY <1>5, <4>1, Fields, Bounds DEF SequenceData
    <3> QED
      BY <3>2, <3>3
  <2> QED
    BY <2>1, <2>2
<1>9. /\ \A c \in Cpus : ~Owns(c)' /\ (dpc'[c].pc \in {"kick", "start"} => cur.ready = 0)
      /\ \A c \in Cpus : dpc'[c].pc \in {"idle", "run", "poll", "late"} => dpc'[c].k = 0
  BY <1>1, <1>6, <1>8 DEF Owns, SpiInv, DpcInv
<1>10. dpc' \in [Cpus -> DpcTypes] /\ RestTyped' /\ PinTyped'
  BY <1>1, <1>3, <1>5 DEF RestTyped, PinTyped, client
<1>11. gpio /\ ~gpioFailed' => /\ ~gpioFailed
                               /\ lock.held => pin' = pin
                               /\ Live /\ st = "OK" /\ ~lock.held => ~pin'
                               /\ ~Live /\ pin' => pin
  BY <1>3, <1>4
<1>12. Live /\ st = "OK" => AllMoved(cur)
  BY <1>2, <1>4
<1>13. /\ UNCHANGED <<client, wdf, cancel, smp, gpio>> /\ bus' # "on" /\ bus' # "hold"
       /\ "assert" \notin pend' /\ "negate" \notin pend'
  BY <1>1, <1>3, <1>4
<1> QED
  BY <1>1, <1>2, <1>5, <1>6, <1>7, <1>9, <1>10, <1>11, <1>12, <1>13, Retire

-----------------------------------------------------------------------------
\* A new request

\* ECSPIpSpbInitiateIo: nothing is left of the last request, and the new one
\* either is refused or has its first transfers prepared.
LEMMA InitiateIoStep ==
  ASSUME SpiInv, OnceInv, Lifted \subseteq {"outrun"},
         NEW type \in Types, NEW count \in 0..MaxTransfers, NEW bursts \in 1..MaxBursts,
         NEW reads \in BOOLEAN, NEW bad \in 0..MaxTransfers,
         InitiateIo(type, count, bursts, reads, bad)
  PROVE  SpiInv'
<1> DEFINE r == given + 1
           n == IF count < Ring THEN count ELSE Ring
           q == [ZeroRequest EXCEPT !.spb = r, !.type = type, !.count = count,
                                    !.left = count, !.bursts = bursts, !.reads = reads,
                                    !.bad = bad]
           valid == /\ count # 0
                    /\ type = "FULL_DUPLEX" => count = 2
                    /\ bad = 0 \/ bad > n
<1>1. /\ given < MaxRequests /\ CanDeliver /\ ClientSends(type, count, bursts, reads, bad)
      /\ given' = r /\ want' = FALSE /\ wdf' = "plain"
      /\ valid => /\ cur' = FirstPrepared(q, n) /\ io' = [io EXCEPT ![r] = "go"]
                  /\ UNCHANGED answers
      /\ ~valid => CompleteTransferRequest(q, "ERROR") /\ UNCHANGED io
      /\ UNCHANGED <<bus, dpc, dpcQueued, cancel, lock, locks>>
      /\ UNCHANGED <<smp, gpio, pin, pend, gpioFailed>>
  BY DEF InitiateIo, chipSelect
<1>2. /\ ~Live /\ NoDpc /\ (\A s \in Requests : io[s] = "idle") /\ cancel.pc = "idle"
      /\ pend = {} /\ ~lock.req /\ bus # "on"
      /\ \A c \in Cpus : dpc[c].pc = "idle" /\ dpc[c].k = 0
  BY <1>1, WhenDelivered
<1>3. cur \in CurTypes /\ dpc \in [Cpus -> DpcTypes] /\ RestTyped /\ PinTyped /\ AnswersTyped
  BY Typed DEF SpiInv
<1>4. r \in Requests /\ r # 0 /\ r > given /\ r \in 0..MaxRequests /\ r > 0
  BY <1>1, <1>3, Bounds DEF RestTyped, Requests
<1>5. answers[r] = <<>>
  BY <1>4 DEF OnceInv, AnswersInv
<1>6. /\ IsRequest(q) /\ q.spb = r /\ q.type = type /\ q.state = "INACTIVE" /\ q.count = count
      /\ q.left = count /\ q.next = 0 /\ q.idle = 0 /\ q.ready = 0 /\ q.in = 0 /\ q.out = 0
      /\ q.moved = 0 /\ q.bursts = bursts /\ q.reads = reads /\ q.bad = bad
      /\ q.xfer = [s \in Slots |-> NoTransfer]
  <2> DEFINE x == [s \in Slots |-> NoTransfer]
             z == [spb |-> 0, type |-> "INVALID", state |-> "INACTIVE", count |-> 0,
                   left |-> 0, next |-> 0, idle |-> 0, ready |-> 0, in |-> 0, out |-> 0,
                   moved |-> 0, bursts |-> 1, reads |-> FALSE, bad |-> 0, xfer |-> x]
  <2>1. q = [z EXCEPT !.spb = r, !.type = type, !.count = count, !.left = count,
                      !.bursts = bursts, !.reads = reads, !.bad = bad]
    BY DEF ZeroRequest
  <2> HIDE DEF r, q, x
  <2>2. q = [spb |-> r, type |-> type, state |-> "INACTIVE", count |-> count,
             left |-> count, next |-> 0, idle |-> 0, ready |-> 0, in |-> 0, out |-> 0,
             moved |-> 0, bursts |-> bursts, reads |-> reads, bad |-> bad, xfer |-> x]
    BY <2>1
  <2> HIDE DEF z
  <2>3. /\ q.spb = r /\ q.type = type /\ q.state = "INACTIVE" /\ q.count = count
        /\ q.left = count /\ q.next = 0 /\ q.idle = 0 /\ q.ready = 0 /\ q.in = 0 /\ q.out = 0
        /\ q.moved = 0 /\ q.bursts = bursts /\ q.reads = reads /\ q.bad = bad /\ q.xfer = x
    BY <2>2
  <2>4. IsRequest(q)
    BY <2>2, <2>3 DEF IsRequest
  <2> QED
    BY <2>3, <2>4 DEF x
<1>7. n \in 0..Ring /\ n <= count /\ (count # 0 => n # 0) /\ n \in 0..MaxTransfers /\ n % Ring \in Slots
  BY Bounds DEF Slots
<1> HIDE DEF q, n, r
<1>8. 0 \in Slots /\ 0 \in Moves
  BY Bounds, ProductBound DEF Slots, Moves
<1>9. NoTransfer \in Transfer
  BY Bounds DEF NoTransfer, Transfer
<1>10. q \in CurTypes
  BY <1>4, <1>6, <1>8, <1>9, Bounds, RequestTyped
<1>11. NoDpc' /\ \A c \in Cpus : dpc'[c].pc = "idle" /\ dpc'[c].k = 0 /\ ~Owns(c)'
  BY <1>1, <1>2 DEF NoDpc, Owns
<1>12. PinTyped'
  BY <1>1, <1>3 DEF PinTyped
<1>13. CASE ~valid
  <2>1. CompleteTransferRequest(q, "ERROR") /\ io' = io
    BY <1>1, <1>13
  <2>2. /\ cur' \in CurTypes /\ cur'.spb = 0 /\ AnswersTyped' /\ SuccessMeansDone'
        /\ \A i \in DOMAIN answers'[r] : answers'[r][i].st = "ERROR"
    <3>1. "ERROR" \in Statuses /\ "ERROR" # "OK"
      BY DEF Statuses
    <3>2. TypeOK /\ SuccessMeansDone
      BY DEF SpiInv
    <3> HIDE DEF valid
    <3> QED
      BY <1>4, <1>5, <1>6, <1>10, <2>1, <3>1, <3>2, Completes
  <2>3. RestTyped'
    BY <1>1, <1>3, <1>4, <2>1 DEF RestTyped
  <2>4. TypeOK'
    BY <1>1, <1>3, <1>12, <2>2, <2>3, TypedNext
  <2>5. StartInv'
    BY <1>1, <1>2, <2>1, <2>2 DEF StartInv, Live
  <2>6. OwnerInv'
    BY <1>1, <1>2, <1>11, <2>2 DEF OwnerInv, Live
  <2>7. NegateInv' /\ DataInv'
    BY <1>1, <1>2, <2>2 DEF NegateInv, DataInv, Live
  <2>8. DpcInv'
    BY <1>11, <2>2 DEF DpcInv, Live
  <2>9. PinInv'
    BY <1>1, <1>2, <2>2 DEF SpiInv, PinInv, Live
  <2> QED
    BY <2>2, <2>4, <2>5, <2>6, <2>7, <2>8, <2>9 DEF SpiInv, RoleInv
<1>14. CASE valid
  <2>1. cur' = FirstPrepared(q, n) /\ io' = [io EXCEPT ![r] = "go"] /\ answers' = answers
    BY <1>1, <1>14
  <2>2. /\ type \in {"READ", "WRITE"} => count = 1
        /\ type = "FULL_DUPLEX" => count = 2
        /\ type = "SEQUENCE" => ~reads
        /\ bad = 0 /\ count # 0 /\ n # 0
    <3>1. "split" \notin Lifted /\ "late" \notin Lifted
      OBVIOUS
    <3>2. /\ type \in {"READ", "WRITE"} => count = 1
          /\ type = "SEQUENCE" => ~reads
          /\ bad <= count /\ bad <= Ring
      BY <1>1, <3>1 DEF ClientSends
    <3>3. bad = 0
      BY <1>14, <3>2, Bounds DEF n
    <3> QED
      BY <1>7, <1>14, <3>2, <3>3
  <2> DEFINE slot(s) == IF s < n THEN [idx |-> s, todo |-> bursts] ELSE NoTransfer
  <2>3. /\ IsRequest(cur') /\ cur'.spb = r /\ cur'.type = type /\ cur'.state = "INACTIVE"
        /\ cur'.count = count /\ cur'.left = count /\ cur'.next = n /\ cur'.idle = 0
        /\ cur'.ready = n /\ cur'.in = n % Ring /\ cur'.out = 0 /\ cur'.moved = 0
        /\ cur'.bursts = bursts /\ cur'.reads = reads /\ cur'.bad = bad
        /\ cur'.xfer = [s \in Slots |-> slot(s)]
    <3>1. cur' = [q EXCEPT !.ready = n, !.in = n % Ring, !.next = n,
                           !.xfer = [s \in Slots |-> IF s < n THEN [idx |-> s, todo |-> q.bursts]
                                                              ELSE NoTransfer]]
      BY <2>1 DEF FirstPrepared
    <3>2. [s \in Slots |-> IF s < n THEN [idx |-> s, todo |-> q.bursts] ELSE NoTransfer]
             = [s \in Slots |-> slot(s)]
      BY <1>6
    <3> DEFINE x == [s \in Slots |-> slot(s)]
    <3>3. cur' = [q EXCEPT !.ready = n, !.in = n % Ring, !.next = n, !.xfer = x]
      BY <3>1, <3>2
    <3> HIDE DEF x, slot
    <3>4. IsRequest(cur')
      BY <1>6, <3>3 DEF IsRequest
    <3>5. /\ cur'.spb = r /\ cur'.type = type /\ cur'.state = "INACTIVE"
          /\ cur'.count = count /\ cur'.left = count /\ cur'.next = n /\ cur'.idle = 0
          /\ cur'.ready = n /\ cur'.in = n % Ring /\ cur'.out = 0 /\ cur'.moved = 0
          /\ cur'.bursts = bursts /\ cur'.reads = reads /\ cur'.bad = bad /\ cur'.xfer = x
      BY <1>6, <3>3, <3>4 DEF IsRequest
    <3> QED
      BY <3>4, <3>5 DEF x
  <2>4. \A s \in Slots : s < n => [idx |-> s, todo |-> bursts] \in Transfer
    BY <1>7, Bounds DEF Slots, Transfer
  <2>5. cur'.xfer \in [Slots -> Transfer]
    BY <1>9, <2>3, <2>4
  <2>6. \A s \in Slots : s < n => cur'.xfer[s].idx = s /\ cur'.xfer[s].todo = bursts
    BY <2>3
  <2> HIDE DEF slot
  <2>7. cur' \in CurTypes
    BY <1>4, <1>7, <1>8, <2>3, <2>5, Bounds, RequestTyped
  <2>8. /\ io' \in [Requests -> {"idle", "go", "armed", "armedLocked", "failed", "cancelled"}]
        /\ \A s \in Requests : io'[s] = IF s = r THEN "go" ELSE "idle"
    BY <1>2, <1>3, <2>1 DEF RestTyped
  <2>9. TypeOK'
    <3>1. RestTyped'
      BY <1>1, <1>3, <1>4, <2>8 DEF RestTyped
    <3> QED
      BY <1>1, <1>3, <1>12, <2>1, <2>7, <3>1, TypedNext DEF AnswersTyped
  <2>10. StartInv'
    BY <1>1, <1>2, <1>4, <1>11, <2>2, <2>3, <2>8 DEF StartInv, Live
  <2>11. OwnerInv'
    BY <1>1, <1>2, <1>11, <2>3 DEF OwnerInv, Live
  <2>12. NegateInv'
    BY <1>1, <1>2 DEF NegateInv
  <2>13. type # "SEQUENCE" => SingleData'
    <3> SUFFICES ASSUME type # "SEQUENCE"
                 PROVE  SingleData'
      OBVIOUS
    <3>1. type \in {"READ", "WRITE", "FULL_DUPLEX"}
      BY DEF Types
    <3>2. n = IF type = "FULL_DUPLEX" THEN 2 ELSE 1
      BY <2>2, <3>1, Bounds DEF n
    <3>3. count = n
      BY <2>2, <3>1, <3>2
    <3>4. cur'.xfer[0].idx = 0 /\ cur'.xfer[0].todo = bursts
      BY <1>8, <2>6, <3>2
    <3>5. bursts \in Nat /\ bursts # 0
      BY Bounds
    <3>6. type = "FULL_DUPLEX" => cur'.xfer[1].todo = bursts
      BY <2>6, <3>2, Bounds DEF Slots
    <3> QED
      BY <2>2, <2>3, <3>2, <3>3, <3>4, <3>5, <3>6 DEF SingleData
  <2>14. type = "SEQUENCE" => SequenceData'
    <3> SUFFICES ASSUME type = "SEQUENCE"
                 PROVE  SequenceData'
      OBVIOUS
    <3>1. \A s \in Slots : Place(s)' = s
      BY <2>3, Bounds DEF Place, Slots
    <3>2. \A s \in Slots : Place(s)' < cur'.ready =>
              /\ cur'.xfer[s].idx = cur'.count - cur'.left + Place(s)'
              /\ cur'.xfer[s].todo \in 1..cur'.bursts
              /\ Place(s)' # 0 => cur'.xfer[s].todo = cur'.bursts
      <4> SUFFICES ASSUME NEW s \in Slots, s < n
                   PROVE  /\ cur'.xfer[s].idx = cur'.count - cur'.left + s
                          /\ cur'.xfer[s].todo \in 1..cur'.bursts
                          /\ cur'.xfer[s].todo = cur'.bursts
        BY <2>3, <3>1
      <4>1. cur'.xfer[s].idx = s /\ cur'.xfer[s].todo = bursts
        BY <2>6
      <4>2. s = cur'.count - cur'.left + s /\ bursts \in 1..bursts
        BY <2>3, Bounds DEF Slots
      <4> QED
        BY <2>3, <4>1, <4>2
    <3>3. Active'.todo = bursts
      <4>1. 0 < n
        BY <1>7, <2>2, Bounds
      <4> QED
        BY <1>8, <2>3, <2>6, <4>1 DEF Active
    <3>4. cur'.moved = (cur'.count - cur'.left) * cur'.bursts
                        + IF cur'.ready = 0 THEN 0 ELSE cur'.bursts - Active'.todo
      <4>1. (cur'.count - cur'.left) = 0 /\ cur'.bursts - Active'.todo = 0 /\ cur'.bursts \in Int
        BY <2>3, <3>3, Bounds
      <4>2. (cur'.count - cur'.left) * cur'.bursts = 0
        BY <4>1
      <4> QED
        BY <2>2, <2>3, <4>1, <4>2
    <3>5. cur'.count - cur'.left >= 0 /\ cur'.next <= cur'.count
          /\ cur'.count - cur'.left + cur'.ready <= cur'.count
      BY <1>7, <2>3, Bounds
    <3>6. ~cur'.reads /\ cur'.ready # 0
      BY <2>2, <2>3
    <3> QED
      BY <3>2, <3>4, <3>5, <3>6 DEF SequenceData
  <2>15. FillData'
    <3>1. n % Ring = (0 + n) % Ring /\ n = count - count + n
      BY <1>7, Bounds
    <3> QED
      BY <1>11, <2>3, <3>1 DEF FillData
  <2>16. DataInv'
    BY <1>4, <2>2, <2>3, <2>13, <2>14, <2>15 DEF DataInv, Live
  <2>17. DpcInv'
    BY <1>11 DEF DpcInv
  <2>18. PinInv' /\ SuccessMeansDone'
    BY <1>1, <1>2, <1>5, <2>1, <2>3 DEF SpiInv, PinInv, SuccessMeansDone, Live
  <2> QED
    BY <2>9, <2>10, <2>11, <2>12, <2>16, <2>17, <2>18 DEF SpiInv, RoleInv
<1> QED
  BY <1>13, <1>14

-----------------------------------------------------------------------------
\* The invariant holds

LEMMA InitSpi == Init => SpiInv
<1> SUFFICES ASSUME Init PROVE SpiInv
  OBVIOUS
<1> DEFINE x == [s \in Slots |-> NoTransfer]
<1>1. /\ bus = "disabled" /\ io = [r \in Requests |-> "idle"] /\ dpc = [c \in Cpus |-> IdleDpc]
      /\ dpcQueued = FALSE /\ cancel = [pc |-> "idle", req |-> 0] /\ want = FALSE /\ wdf = "plain"
      /\ smp \in BOOLEAN /\ gpio \in BOOLEAN /\ pin = FALSE /\ pend = {} /\ gpioFailed = FALSE
      /\ lock = [held |-> FALSE, req |-> FALSE] /\ locks = 0 /\ given = 0
      /\ answers = [r \in Requests |-> <<>>]
  BY DEF Init
<1>2. cur = [spb |-> 0, type |-> "INVALID", state |-> "INACTIVE", count |-> 0,
             left |-> 0, next |-> 0, idle |-> 0, ready |-> 0, in |-> 0, out |-> 0,
             moved |-> 0, bursts |-> 1, reads |-> FALSE, bad |-> 0, xfer |-> x]
  BY DEF Init, ZeroRequest
<1>3. x \in [Slots -> Transfer] /\ 0 \in Slots /\ 0 \in Moves
  BY Bounds, ProductBound DEF NoTransfer, Transfer, Slots, Moves
<1> HIDE DEF x
<1>4. /\ cur.spb = 0 /\ cur.type = "INVALID" /\ cur.state = "INACTIVE" /\ cur.count = 0
      /\ cur.left = 0 /\ cur.next = 0 /\ cur.idle = 0 /\ cur.ready = 0 /\ cur.in = 0 /\ cur.out = 0
      /\ cur.moved = 0 /\ cur.bursts = 1 /\ cur.reads = FALSE /\ cur.bad = 0 /\ cur.xfer = x
  BY <1>2
<1>5. IsRequest(cur)
  BY <1>2, <1>4 DEF IsRequest
<1>6. cur \in CurTypes
  <2>1. /\ 0 \in 0..MaxRequests /\ 0 \in 0..MaxTransfers /\ 0 \in 0..Ring /\ 1 \in 1..MaxBursts
        /\ FALSE \in BOOLEAN
    BY Bounds
  <2> QED
    BY <1>3, <1>4, <1>5, <2>1, RequestTyped
<1>7. IdleDpc \in DpcTypes /\ IdleDpc.pc = "idle" /\ IdleDpc.k = 0
  BY Bounds DEF IdleDpc, DpcTypes
<1>8. dpc \in [Cpus -> DpcTypes] /\ \A c \in Cpus : dpc[c].pc = "idle" /\ dpc[c].k = 0
  BY <1>1, <1>7
<1>9. RestTyped /\ PinTyped /\ AnswersTyped
  <2>0. 0 \in 0..MaxRequests /\ 0 \in 0..MaxLocks
    BY Bounds
  <2>1. RestTyped
    BY <1>1, <2>0 DEF RestTyped
  <2>2. PinTyped
    BY <1>1, <2>0 DEF PinTyped
  <2>3. AnswersTyped
    BY <1>1 DEF AnswersTyped
  <2> QED
    BY <2>1, <2>2, <2>3
<1>10. TypeOK
  BY <1>6, <1>8, <1>9, Typed
<1>11. RoleInv
  BY <1>1, <1>4, <1>8 DEF RoleInv, StartInv, OwnerInv, NegateInv, Live, Owns
<1>12. DataInv /\ DpcInv
  BY <1>1, <1>4, <1>8 DEF DataInv, DpcInv, NoDpc, Live
<1>13. PinInv /\ SuccessMeansDone
  BY <1>1, <1>4 DEF PinInv, SuccessMeansDone, Live
<1> QED
  BY <1>10, <1>11, <1>12, <1>13 DEF SpiInv

LEMMA StutterSpi ==
  ASSUME SpiInv, UNCHANGED vars
  PROVE  SpiInv'
<1> USE DEF vars
<1>1. TypeOK'
  BY DEF SpiInv, TypeOK
<1>2. StartInv' /\ OwnerInv' /\ NegateInv'
  <2>1. StartInv'
    BY DEF SpiInv, RoleInv, StartInv, Live, NoDpc, Untouched
  <2>2. OwnerInv'
    BY DEF SpiInv, RoleInv, OwnerInv, Live, NoDpc, Idle, Owns
  <2>3. NegateInv'
    BY DEF SpiInv, RoleInv, NegateInv, Live, AllMoved
  <2> QED
    BY <2>1, <2>2, <2>3
<1>3. DataInv'
  <2>1. \A c \in Cpus : IF dpc[c].pc = "fill" THEN dpc'[c] = dpc[c] ELSE dpc'[c].pc # "fill"
    OBVIOUS
  <2> QED
    BY <2>1, KeepDataInv DEF SpiInv, SameData
<1>4. DpcInv'
  BY DEF SpiInv, DpcInv, Live, NoDpc, AllMoved
<1>5. PinInv' /\ SuccessMeansDone'
  BY DEF SpiInv, PinInv, SuccessMeansDone, Live
<1> QED
  BY <1>1, <1>2, <1>3, <1>4, <1>5 DEF SpiInv, RoleInv

LEMMA SpiPreserved ==
  ASSUME Lifted \subseteq {"outrun"}, SpiInv, OnceInv, [Next]_vars
  PROVE  SpiInv'
<1>1. ASSUME Deliver PROVE SpiInv'
  <2>1. "overtake" \notin Lifted
    OBVIOUS
  <2> QED
    BY <1>1, <2>1, InitiateIoStep, LockStep DEF Deliver
<1>2. ASSUME NEW r \in Requests, Dispatch(r) PROVE SpiInv'
  BY <1>2, GoStep, StartSafeStep, FailedStep DEF Dispatch
<1>3. ASSUME Isr PROVE SpiInv'
  BY <1>3, SingleStep, FullDuplexStep, BurstStep, TransferStep DEF Isr
<1>4. ASSUME NEW c \in Cpus, DpcBegin(c) \/ Dpc(c) PROVE SpiInv'
  BY <1>4, BeginStep, ReadDelayedStep, NextBurstStep, DisableCancelStep, TimeOutStep, OwnStep, PrepareStep,
     PreparedStep, EnableCancelStep, TestIdleStep, StartStep, FinishStep DEF Dpc
<1>5. ASSUME Gpio PROVE SpiInv'
  BY <1>5, LockAnsweredStep, AssertDoneStep, NegateDoneStep DEF Gpio
<1> QED
  BY <1>1, <1>2, <1>3, <1>4, <1>5, ClientCancelStep, CancelStep, CancelCompleteStep, StutterSpi
     DEF Next

\* Both invariants hold, whether or not the bus may outrun a refilling DPC.
LEMMA SpiHolds == Lifted \subseteq {"outrun"} => (Spec => [](SpiInv /\ OnceInv))
<1> SUFFICES ASSUME Lifted \subseteq {"outrun"}
             PROVE  Spec => [](SpiInv /\ OnceInv)
  OBVIOUS
<1>1. Init => SpiInv /\ OnceInv
  BY InitSpi, InitOnce
<1>2. SpiInv /\ OnceInv /\ [Next]_vars => SpiInv' /\ OnceInv'
  BY SpiPreserved, OncePreserved
<1> QED
  BY <1>1, <1>2, PTL DEF Spec

\* A request that ECSPISpbCompleteTransferRequest reports as successful has
\* moved all the data of all its transfers, as long as the next request does not
\* overtake code of the last one, every invalid transfer of a sequence is among
\* the first Ring ones, and a sequence has no reads of several bursts.
THEOREM SuccessIsDone == Lifted \subseteq {"outrun"} /\ Spec => []SuccessMeansDone
<1>1. SpiInv => SuccessMeansDone
  BY DEF SpiInv
<1> QED
  BY <1>1, SpiHolds, PTL

\* Under the same assumptions the ISR only ever works on the request that the
\* driver holds, and on its transfers in the order in which the client gave them:
\* no DPC refills a slot that the bus has yet to finish, and no abort, cancel
\* or completion leaves the bus running.
THEOREM OwnTransfersOnly == Lifted \subseteq {"outrun"} /\ Spec => []OnlyOwnTransfers
<1>1. ASSUME SpiInv, bus \in {"on", "hold"}, Live
      PROVE  Active.idx = cur.count - cur.left /\ Active.todo > 0
  <2>1. cur \in CurTypes
    BY <1>1, Typed DEF SpiInv
  <2>2. CASE cur.type = "SEQUENCE"
    <3>1. SequenceData /\ cur.ready # 0
      BY <1>1, <2>2 DEF SpiInv, DataInv, Dropped, SequenceData
    <3>2. Active.idx = cur.count - cur.left /\ Active.todo \in 1..MaxBursts
      BY <2>1, <3>1, ActiveSequence
    <3> QED
      BY <3>2, Bounds
  <2>3. CASE cur.type # "SEQUENCE"
    <3>1. SingleData
      BY <1>1, <2>3 DEF SpiInv, DataInv, Dropped
    <3>2. 0 \in Slots /\ cur.xfer[0] \in Transfer
      BY <2>1, Bounds, Fields DEF Slots
    <3>3. cur.xfer[0].todo \in Nat
      BY <3>2, Bounds DEF Transfer
    <3> QED
      BY <1>1, <3>1, <3>3 DEF SingleData, Active
  <2> QED
    BY <2>2, <2>3
<1>2. SpiInv => OnlyOwnTransfers
  <2>1. SpiInv => TypeOK
    BY DEF SpiInv
  <2>2. SpiInv => NoLateIo
    BY DEF SpiInv, DataInv, NoLateIo, Live
  <2>3. SpiInv => TransfersInOrder
    BY <1>1 DEF TransfersInOrder, Live
  <2> QED
    BY <2>1, <2>2, <2>3 DEF OnlyOwnTransfers
<1> QED
  BY <1>2, SpiHolds, PTL

\* Under the same assumptions, and as long as the GPIO driver performs the
\* writes, the chip select is asserted whenever data moves, through cancels,
\* aborts and locks, and negated again once an unlocked request has succeeded.
THEOREM ChipSelectSound == Lifted \subseteq {"outrun"} /\ Spec => []ChipSelectFrames
<1>1. SpiInv => SelectedWhileMoving
  <2> SUFFICES ASSUME SpiInv, bus = "on", gpio, ~gpioFailed
               PROVE  pin
    BY DEF SelectedWhileMoving
  <2>1. Live /\ cur.state # "INACTIVE" /\ pend = {}
    BY WhileMoving
  <2> QED
    BY <2>1 DEF SpiInv, PinInv
<1>2. SpiInv => DeselectedAfterSuccess
  BY DEF SpiInv, PinInv, DeselectedAfterSuccess
<1>3. SpiInv => ChipSelectFrames
  BY <1>1, <1>2 DEF ChipSelectFrames
<1> QED
  BY <1>3, SpiHolds, PTL

=============================================================================
