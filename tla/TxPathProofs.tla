---------------------------- MODULE TxPathProofs ----------------------------
(***************************************************************************)
(* Proofs about TxPath, for every set of frames, NBLs and calls, every size *)
(* of the ring and every way the state machine stops and starts the MAC,   *)
(* unless a theorem says otherwise.                                        *)
(***************************************************************************)
EXTENDS TxPath, RingLemmas, SequenceTheorems, FiniteSetTheorems

USE ShapeAssumption

-----------------------------------------------------------------------------
(* The calls of MpSendNetBufferLists. *)

SendPcs == {"idle", "alloc", "queue", "count", "discard", "kick", "done"}
CallState == [pc : SendPcs, nbl : Nat, nb : Nat, bd : BOOLEAN, queued : BOOLEAN]

\* A call that works on a frame works on one of its own chain.
AtFrame(c, call) ==
    /\ call.nbl \in 1..Len(Chain[c])
    /\ call.nb \in 1..Len(NBsOf[Chain[c][call.nbl]])
    /\ call.pc = "idle" => call.nbl = 1

CallsTyped ==
    /\ send \in [Calls -> CallState]
    /\ \A c \in Calls : AtFrame(c, send[c])

\* The chains and the NBLs are non-empty sequences.
LEMMA Shapes ==
    /\ \A c \in Calls : Chain[c] \in Seq(Nbls) /\ Len(Chain[c]) \in Nat \ {0}
    /\ \A l \in Nbls : NBsOf[l] \in Seq(Frames) /\ Len(NBsOf[l]) \in Nat \ {0}
<1>1. ASSUME NEW c \in Calls PROVE Chain[c] \in Seq(Nbls) /\ Len(Chain[c]) \in Nat \ {0}
  BY EmptySeq
<1>2. ASSUME NEW l \in Nbls PROVE NBsOf[l] \in Seq(Frames) /\ Len(NBsOf[l]) \in Nat \ {0}
  BY EmptySeq
<1> QED
  BY <1>1, <1>2

\* The NBL and the frame a call works on are an NBL and a frame.
LEMMA Current ==
    ASSUME CallsTyped, NEW c \in Calls
    PROVE  CurrentNBL(c) \in Nbls /\ CurrentNB(c) \in Frames
  BY Shapes, ElementOfSeq DEF CallsTyped, CallState, AtFrame, CurrentNBL, CurrentNB

\* What AfterNBL does to a call.
LEMMA AfterNBLTyped ==
    ASSUME CallsTyped, NEW c \in Calls, NEW queued \in BOOLEAN
    PROVE  /\ AfterNBL(c, queued) \in CallState
           /\ AtFrame(c, AfterNBL(c, queued))
           /\ IF send[c].nbl = Len(Chain[c])
              THEN AfterNBL(c, queued).pc \in {"kick", "done"}
              ELSE AfterNBL(c, queued).pc = "alloc" /\ AfterNBL(c, queued).nbl = send[c].nbl + 1
<1>1. send[c] \in CallState /\ AtFrame(c, send[c])
  BY DEF CallsTyped
<1>2. CASE send[c].nbl = Len(Chain[c])
  <2>1. AfterNBL(c, queued) = [pc |-> IF queued THEN "kick" ELSE "done", nbl |-> send[c].nbl,
                               nb |-> 1, bd |-> FALSE, queued |-> queued]
    BY <1>1, <1>2 DEF AfterNBL, CallState
  <2>2. 1 \in 1..Len(NBsOf[Chain[c][send[c].nbl]])
    BY Current, Shapes DEF CurrentNBL
  <2> QED
    BY <1>1, <1>2, <2>1, <2>2 DEF CallState, SendPcs, AtFrame
<1>3. CASE send[c].nbl # Len(Chain[c])
  <2>1. send[c].nbl + 1 \in 1..Len(Chain[c])
    BY <1>1, <1>3, Shapes DEF AtFrame
  <2>2. Chain[c][send[c].nbl + 1] \in Nbls
    BY <2>1, Shapes, ElementOfSeq
  <2>3. 1 \in 1..Len(NBsOf[Chain[c][send[c].nbl + 1]])
    BY <2>2, Shapes
  <2>4. AfterNBL(c, queued) = [pc |-> "alloc", nbl |-> send[c].nbl + 1,
                               nb |-> 1, bd |-> FALSE, queued |-> queued]
    BY <1>1, <1>3 DEF AfterNBL, CallState
  <2> QED
    BY <1>1, <1>3, <2>1, <2>3, <2>4 DEF CallState, SendPcs, AtFrame
<1> QED
  BY <1>2, <1>3

\* A step of one call that leaves it at a frame of its chain keeps CallsTyped.
LEMMA OneCallMoves ==
    ASSUME CallsTyped, NEW c \in Calls, NEW call \in CallState, AtFrame(c, call),
           send' = [send EXCEPT ![c] = call]
    PROVE  CallsTyped' /\ send'[c] = call /\ \A e \in Calls \ {c} : send'[e] = send[e]
  BY DEF CallsTyped, AtFrame

\* Every step of MpSendNetBufferLists keeps its place in the chain.
LEMMA CallsPreserved == CallsTyped /\ [Next]_vars => CallsTyped'
<1> SUFFICES ASSUME CallsTyped, [Next]_vars PROVE CallsTyped'
  OBVIOUS
<1>1. ASSUME UNCHANGED send PROVE CallsTyped'
  BY <1>1 DEF CallsTyped, AtFrame
<1>2. ASSUME NEW c \in Calls, MpSendNetBufferLists(c) PROVE CallsTyped'
  <2>0. send[c] \in CallState /\ AtFrame(c, send[c])
    BY DEF CallsTyped
  <2>1. ASSUME NEW p \in SendPcs \ {"idle"}, NEW b \in BOOLEAN,
               send' = [send EXCEPT ![c] = [send[c] EXCEPT !.pc = p, !.bd = b]]
        PROVE  CallsTyped'
    <3> DEFINE call == [send[c] EXCEPT !.pc = p, !.bd = b]
    <3>1. call \in CallState /\ AtFrame(c, call)
      BY <2>0 DEF CallState, AtFrame
    <3> QED
      BY <2>1, <3>1, OneCallMoves
  <2>2. ASSUME NEW p \in SendPcs \ {"idle"}, send' = [send EXCEPT ![c].pc = p]
        PROVE  CallsTyped'
    <3> DEFINE call == [send[c] EXCEPT !.pc = p]
    <3>1. call \in CallState /\ AtFrame(c, call)
      BY <2>0 DEF CallState, AtFrame
    <3>2. send' = [send EXCEPT ![c] = call]
      BY <2>2
    <3> QED
      BY <3>1, <3>2, OneCallMoves
  <2>3. CASE SendCheckStatus(c) \/ SendQueue(c) \/ SendKick(c)
    BY <2>2, <2>3 DEF SendCheckStatus, SendQueue, SendKick, SendPcs
  <2>4. CASE SendAllocBD(c)
    <3>1. PICK p \in {"queue", "discard"}, b \in BOOLEAN :
             send' = [send EXCEPT ![c].pc = p, ![c].bd = b]
      BY <2>4 DEF SendAllocBD
    <3>2. send' = [send EXCEPT ![c] = [send[c] EXCEPT !.pc = p, !.bd = b]]
      BY <2>0, <3>1 DEF CallsTyped, CallState
    <3> QED
      BY <2>1, <3>2 DEF SendPcs
  <2>5. CASE SendCount(c)
    <3>1. CASE send[c].nb < Len(NBsOf[CurrentNBL(c)])
      <4> DEFINE call == [send[c] EXCEPT !.nb = send[c].nb + 1, !.pc = "alloc"]
      <4>1. call \in CallState /\ AtFrame(c, call)
        <5>0. ASSUME NEW n \in Nat
              PROVE  LET r == [send[c] EXCEPT !.nb = n, !.pc = "alloc"]
                     IN  r \in CallState /\ r.pc = "alloc" /\ r.nbl = send[c].nbl /\ r.nb = n
          BY <2>0 DEF CallState, SendPcs
        <5>1. /\ call \in CallState /\ call.pc = "alloc"
              /\ call.nbl = send[c].nbl /\ call.nb = send[c].nb + 1
          <6>1. send[c].nb + 1 \in Nat
            BY <2>0 DEF CallState
          <6> QED
            BY <5>0, <6>1, Zenon
        <5>2. send[c].nb + 1 \in 1..Len(NBsOf[Chain[c][send[c].nbl]])
          BY <2>0, <3>1, Shapes, Current DEF AtFrame, CurrentNBL
        <5> QED
          BY <2>0, <5>1, <5>2 DEF AtFrame
      <4>2. send' = [send EXCEPT ![c] = call]
        BY <2>5, <3>1 DEF SendCount
      <4> QED
        BY <4>1, <4>2, OneCallMoves
    <3>2. CASE ~(send[c].nb < Len(NBsOf[CurrentNBL(c)]))
      <4>1. send' = [send EXCEPT ![c] = AfterNBL(c, TRUE)]
        BY <2>5, <3>2 DEF SendCount
      <4> QED
        BY <4>1, AfterNBLTyped, OneCallMoves
    <3> QED
      BY <3>1, <3>2
  <2>6. CASE SendDiscard(c)
    <3>1. send' = [send EXCEPT ![c] = AfterNBL(c, send[c].queued)] /\ send[c].queued \in BOOLEAN
      BY <2>0, <2>6 DEF SendDiscard, CallState
    <3> QED
      BY <3>1, AfterNBLTyped, OneCallMoves
  <2> QED
    BY <1>2, <2>3, <2>4, <2>5, <2>6 DEF MpSendNetBufferLists
<1>3. CASE MacSends \/ EnetIsr \/ EnetDpc \/ Sm \/ MpCancelSendNetBufferLists \/ CancelUnwinds
  BY <1>1, <1>3 DEF MacSends, EnetIsr, EnetDpc, EnetDpcReadEvents, MpHandleTxInterrupt, DpcUnwinds,
     DpcKicks, EnetDpcEnables, Sm, SmStop, EnetStop, SmStart, SmStartUp, EnetStart, MpTxCancelAll,
     SmUnwinds, MpCancelSendNetBufferLists, CancelUnwinds
<1>4. CASE UNCHANGED vars
  BY <1>1, <1>4 DEF vars
<1> QED
  BY <1>2, <1>3, <1>4 DEF Next

\* Every call is at a frame of its own chain.
LEMMA CallsCorrect == Spec => []CallsTyped
<1>1. Init => CallsTyped
  <2> SUFFICES ASSUME Init PROVE CallsTyped
    OBVIOUS
  <2>1. ASSUME NEW c \in Calls
        PROVE  Chain[c][1] \in Nbls /\ 1 \in 1..Len(Chain[c]) /\ 1 \in 1..Len(NBsOf[Chain[c][1]])
    BY Shapes, ElementOfSeq
  <2> QED
    BY <2>1 DEF Init, CallsTyped, CallState, SendPcs, AtFrame
<1> QED
  BY <1>1, CallsPreserved, PTL DEF Spec

-----------------------------------------------------------------------------
(* No NBL of one frame is completed twice. *)

\* NDIS sends each NBL once, and each has one frame.
OneFrameNbls ==
    /\ \A l \in Nbls : Len(NBsOf[l]) = 1
    /\ \A c, e \in Calls : \A i \in 1..Len(Chain[c]), j \in 1..Len(Chain[e]) :
          Chain[c][i] = Chain[e][j] => c = e /\ i = j

\* The call has not allocated the frame of the i-th NBL of its chain yet, and may.
Unbegun(c, i) ==
    \/ send[c].pc = "idle"
    \/ /\ send[c].pc \notin {"kick", "done"}
       /\ send[c].nbl < i \/ (send[c].nbl = i /\ send[c].pc = "alloc")

\* An NBL counts a frame, or it is completed, or neither; however often its frame
\* is unwound, the counter reaches one only once.
OnceInv ==
    /\ NB_Counter \in [Nbls -> Int] /\ completed \in [Nbls -> Nat]
    /\ \A l \in Nbls : completed[l] <= 1 /\ NB_Counter[l] + completed[l] <= 1
    /\ \A c \in Calls : \A i \in 1..Len(Chain[c]) :
          Unbegun(c, i) => completed[Chain[c][i]] = 0 /\ NB_Counter[Chain[c][i]] <= 0

\* An NBL's counter drops, and the NBL is completed if it was one: OnceInv is kept,
\* whether or not the frame was counted.
LEMMA CounterDrops ==
    ASSUME OnceInv, NEW l,
           NB_Counter' = [NB_Counter EXCEPT ![l] = @ - 1],
           completed' = [completed EXCEPT ![l] = @ + (IF NB_Counter[l] = 1 THEN 1 ELSE 0)],
           \A c \in Calls : \A i \in 1..Len(Chain[c]) : Unbegun(c, i)' => Unbegun(c, i)
    PROVE  OnceInv'
<1>2. \A c \in Calls : \A i \in 1..Len(Chain[c]) : Chain[c][i] \in Nbls
  BY Shapes, ElementOfSeq
<1>3. NB_Counter' \in [Nbls -> Int] /\ completed' \in [Nbls -> Nat]
  <2> DEFINE n == IF NB_Counter[l] = 1 THEN 1 ELSE 0
  <2>1. n \in Nat
    OBVIOUS
  <2>2. completed' = [completed EXCEPT ![l] = @ + n]
    OBVIOUS
  <2> HIDE DEF n
  <2>3. ASSUME l \in Nbls PROVE completed[l] + n \in Nat /\ NB_Counter[l] - 1 \in Int
    BY <2>1, <2>3 DEF OnceInv
  <2>4. NB_Counter \in [Nbls -> Int] /\ completed \in [Nbls -> Nat]
    BY DEF OnceInv
  <2>5. [completed EXCEPT ![l] = completed[l] + n] \in [Nbls -> Nat]
    BY <2>3, <2>4, ExceptTyped
  <2>6. [NB_Counter EXCEPT ![l] = NB_Counter[l] - 1] \in [Nbls -> Int]
    BY <2>3, <2>4, ExceptTyped
  <2> QED
    BY <2>2, <2>5, <2>6
<1>4. ASSUME NEW m \in Nbls
      PROVE  /\ completed'[m] <= 1 /\ NB_Counter'[m] + completed'[m] <= 1
             /\ completed[m] = 0 /\ NB_Counter[m] <= 0 => completed'[m] = 0 /\ NB_Counter'[m] <= 0
  <2>0. /\ NB_Counter[m] \in Int /\ completed[m] \in Nat
        /\ completed[m] <= 1 /\ NB_Counter[m] + completed[m] <= 1
    BY DEF OnceInv
  <2>1. CASE m = l
    <3>1. /\ NB_Counter'[m] = NB_Counter[m] - 1
          /\ completed'[m] = completed[m] + (IF NB_Counter[m] = 1 THEN 1 ELSE 0)
      BY <2>1 DEF OnceInv
    <3> QED
      BY <2>0, <3>1
  <2>2. CASE m # l
    BY <2>0, <2>2 DEF OnceInv
  <2> QED
    BY <2>1, <2>2
<1> QED
  BY <1>2, <1>3, <1>4 DEF OnceInv

\* Unwinding a frame keeps OnceInv, whether or not it was unwound before.
LEMMA UnwindOnce ==
    ASSUME OnceInv, UNCHANGED send, NEW f, MpTxUnwindNetBuffer(f)
    PROVE  OnceInv'
<1>1. \A c \in Calls : \A i \in 1..Len(Chain[c]) : Unbegun(c, i)' => Unbegun(c, i)
  BY DEF Unbegun
<1> QED
  BY <1>1, CounterDrops DEF MpTxUnwindNetBuffer

\* A step of a call that does not touch the counters and begins no NBL.
LEMMA CountersUntouched ==
    ASSUME OnceInv, UNCHANGED <<NB_Counter, completed>>,
           \A c \in Calls : \A i \in 1..Len(Chain[c]) : Unbegun(c, i)' => Unbegun(c, i)
    PROVE  OnceInv'
  BY DEF OnceInv

\* The frame of the i-th NBL of another call, or another NBL of this one, is begun
\* by no step of this call but one that passes it.
LEMMA OneCallBegins ==
    ASSUME CallsTyped, NEW c \in Calls, NEW call \in CallState, AtFrame(c, call),
           send' = [send EXCEPT ![c] = call],
           \/ send[c].pc \in {"queue", "count", "discard"}
           \/ call.pc \in {"kick", "done"},
           \/ call.pc \in {"kick", "done"}
           \/ call.pc # "alloc" /\ call.pc # "idle" /\ call.nbl = send[c].nbl
           \/ call.pc = "alloc" /\ call.nbl = send[c].nbl + 1
    PROVE  \A e \in Calls : \A i \in 1..Len(Chain[e]) : Unbegun(e, i)' => Unbegun(e, i)
<1>1. send'[c] = call /\ \A e \in Calls \ {c} : send'[e] = send[e]
  BY OneCallMoves
<1>2. send[c].nbl \in Nat /\ call.nbl \in Nat
  BY DEF CallsTyped, CallState
<1> SUFFICES ASSUME NEW e \in Calls, NEW i \in 1..Len(Chain[e]), Unbegun(e, i)'
             PROVE  Unbegun(e, i)
  OBVIOUS
<1>3. CASE e # c
  BY <1>1, <1>3 DEF Unbegun
<1>4. CASE e = c
  <2>1. i \in Int
    BY Shapes
  <2> QED
    BY <1>1, <1>2, <1>4, <2>1 DEF Unbegun
<1> QED
  BY <1>3, <1>4

\* Every step of MpSendNetBufferLists keeps OnceInv.
LEMMA CallOnce ==
    ASSUME OneFrameNbls, CallsTyped, OnceInv, NEW c \in Calls, MpSendNetBufferLists(c)
    PROVE  OnceInv'
<1>0. /\ send[c] \in CallState /\ AtFrame(c, send[c]) /\ send \in [Calls -> CallState]
      /\ NB_Counter \in [Nbls -> Int] /\ completed \in [Nbls -> Nat]
  BY DEF CallsTyped, OnceInv
<1>1. \A e \in Calls : \A i \in 1..Len(Chain[e]) : Chain[e][i] \in Nbls /\ i \in Int
  BY Shapes, ElementOfSeq
<1>2. CurrentNBL(c) \in Nbls /\ CurrentNBL(c) = Chain[c][send[c].nbl] /\ send[c].nbl \in Nat
  BY <1>0, Current DEF CurrentNBL, CallState
<1>3. CASE SendCheckStatus(c) /\ NdisStatus = "SUCCESS"
  <2>1. send' = [send EXCEPT ![c].pc = "alloc"] /\ send[c].pc = "idle" /\ NB_Counter' = NB_Counter
    BY <1>3 DEF SendCheckStatus
  <2>2. completed' = completed
    <3>1. \A l \in Nbls : completed[l] + 0 = completed[l]
      BY <1>0
    <3>2. completed' = [l \in Nbls |-> completed[l] + 0]
      BY <1>3 DEF SendCheckStatus
    <3> QED
      BY <1>0, <3>1, <3>2
  <2>3. \A e \in Calls : \A i \in 1..Len(Chain[e]) : Unbegun(e, i)' => Unbegun(e, i)
    BY <1>0, <2>1 DEF Unbegun
  <2> QED
    BY <2>1, <2>2, <2>3, CountersUntouched
<1>4. CASE SendCheckStatus(c) /\ NdisStatus # "SUCCESS"
  <2>1. /\ send' = [send EXCEPT ![c].pc = "done"] /\ send[c].pc = "idle" /\ NB_Counter' = NB_Counter
        /\ completed' = [l \in Nbls |-> completed[l] + (IF l \in Range(Chain[c]) THEN 1 ELSE 0)]
    BY <1>4 DEF SendCheckStatus
  <2>2. ASSUME NEW l \in Range(Chain[c]) PROVE l \in Nbls /\ completed[l] = 0 /\ NB_Counter[l] <= 0
    <3>1. PICK i \in 1..Len(Chain[c]) : l = Chain[c][i]
      BY Shapes, LenProperties DEF Range
    <3> QED
      BY <1>1, <2>1, <3>1 DEF OnceInv, Unbegun
  <2>3. ASSUME NEW l \in Nbls
        PROVE  completed'[l] \in Nat /\ completed'[l] <= 1 /\ NB_Counter'[l] + completed'[l] <= 1
    <3>1. CASE l \in Range(Chain[c])
      BY <1>0, <2>1, <2>2, <3>1
    <3>2. CASE l \notin Range(Chain[c])
      BY <1>0, <2>1, <3>2 DEF OnceInv
    <3> QED
      BY <3>1, <3>2
  <2>4. ASSUME NEW e \in Calls, NEW i \in 1..Len(Chain[e]), Unbegun(e, i)'
        PROVE  completed'[Chain[e][i]] = 0 /\ NB_Counter'[Chain[e][i]] <= 0
    <3>1. e # c /\ Unbegun(e, i)
      BY <1>0, <2>1, <2>4 DEF Unbegun
    <3>2. Chain[e][i] \notin Range(Chain[c])
      BY <3>1, Shapes, LenProperties DEF OneFrameNbls, Range
    <3>3. /\ Chain[e][i] \in Nbls
          /\ completed[Chain[e][i]] = 0 /\ NB_Counter[Chain[e][i]] <= 0
      BY <1>1, <3>1, Zenon DEF OnceInv
    <3>4. \A l \in Nbls \ Range(Chain[c]) : completed'[l] = completed[l] + 0
      BY <2>1
    <3>5. completed'[Chain[e][i]] = completed[Chain[e][i]] + 0
      BY <3>2, <3>3, <3>4
    <3> QED
      BY <2>1, <3>3, <3>5
  <2>5. completed' \in [Nbls -> Nat]
    BY <1>0, <2>1
  <2> QED
    BY <1>0, <2>1, <2>3, <2>4, <2>5 DEF OnceInv
<1>5. CASE SendAllocBD(c)
  <2>1. PICK p \in {"queue", "discard"}, b \in BOOLEAN :
           send' = [send EXCEPT ![c].pc = p, ![c].bd = b]
    BY <1>5 DEF SendAllocBD
  <2>2. /\ send[c].pc = "alloc" /\ completed' = completed
        /\ NB_Counter' = [NB_Counter EXCEPT ![CurrentNBL(c)] = @ + 1]
    BY <1>5 DEF SendAllocBD
  <2>3. /\ send'[c].pc = p /\ send'[c].nbl = send[c].nbl
        /\ \A e \in Calls \ {c} : send'[e] = send[e]
    BY <1>0, <2>1 DEF CallState
  <2>4. completed[CurrentNBL(c)] = 0 /\ NB_Counter[CurrentNBL(c)] <= 0
    <3>1. send[c].nbl \in 1..Len(Chain[c]) /\ Unbegun(c, send[c].nbl)
      BY <1>0, <2>2 DEF AtFrame, Unbegun
    <3> QED
      BY <1>2, <3>1, Zenon DEF OnceInv
  <2>5. ASSUME NEW l \in Nbls PROVE completed[l] <= 1 /\ NB_Counter'[l] + completed[l] <= 1
    <3>1. CASE l = CurrentNBL(c)
      BY <1>0, <2>2, <2>4, <3>1
    <3>2. CASE l # CurrentNBL(c)
      BY <1>0, <2>2, <3>2 DEF OnceInv
    <3> QED
      BY <3>1, <3>2
  <2>6. ASSUME NEW e \in Calls, NEW i \in 1..Len(Chain[e]), Unbegun(e, i)'
        PROVE  completed[Chain[e][i]] = 0 /\ NB_Counter'[Chain[e][i]] <= 0
    <3>1. Unbegun(e, i) /\ (e # c \/ i # send[c].nbl)
      <4>1. CASE e = c
        BY <1>1, <1>2, <2>2, <2>3, <2>6, <4>1 DEF Unbegun
      <4>2. CASE e # c
        BY <2>3, <2>6, <4>2 DEF Unbegun
      <4> QED
        BY <4>1, <4>2
    <3>2. Chain[e][i] # CurrentNBL(c)
      BY <1>0, <1>2, <3>1, SMTT(30) DEF OneFrameNbls, AtFrame
    <3>3. /\ Chain[e][i] \in Nbls
          /\ completed[Chain[e][i]] = 0 /\ NB_Counter[Chain[e][i]] <= 0
      BY <1>1, <3>1, Zenon DEF OnceInv
    <3> QED
      BY <1>0, <2>2, <3>2, <3>3
  <2>7. NB_Counter' \in [Nbls -> Int]
    BY <1>0, <1>2, <2>2, SMTT(30)
  <2> QED
    BY <1>0, <2>2, <2>5, <2>6, <2>7 DEF OnceInv
<1>6. CASE SendQueue(c) \/ SendKick(c)
  <2>1. PICK p \in {"count", "discard", "done"} : send' = [send EXCEPT ![c].pc = p]
    BY <1>6 DEF SendQueue, SendKick
  <2>2. (send[c].pc = "queue" /\ p # "done") \/ (send[c].pc = "kick" /\ p = "done")
    BY <1>0, <1>6, <2>1 DEF SendQueue, SendKick, CallState
  <2> DEFINE call == [send[c] EXCEPT !.pc = p]
  <2>3. /\ call \in CallState /\ AtFrame(c, call) /\ call.pc = p /\ call.nbl = send[c].nbl
        /\ send' = [send EXCEPT ![c] = call]
    BY <1>0, <2>1 DEF CallState, SendPcs, AtFrame
  <2>4. \A e \in Calls : \A i \in 1..Len(Chain[e]) : Unbegun(e, i)' => Unbegun(e, i)
    <3> HIDE DEF call
    <3> QED
      BY <2>2, <2>3, OneCallBegins
  <2>5. UNCHANGED <<NB_Counter, completed>>
    BY <1>6 DEF SendQueue, SendKick, countVars
  <2> QED
    BY <2>4, <2>5, CountersUntouched
<1>7. ASSUME NEW queued \in BOOLEAN, send[c].pc \in {"count", "discard"},
             send' = [send EXCEPT ![c] = AfterNBL(c, queued)]
      PROVE  \A e \in Calls : \A i \in 1..Len(Chain[e]) : Unbegun(e, i)' => Unbegun(e, i)
  <2> DEFINE call == AfterNBL(c, queued)
  <2>1. /\ call \in CallState /\ AtFrame(c, call)
        /\ call.pc \in {"kick", "done"} \/ (call.pc = "alloc" /\ call.nbl = send[c].nbl + 1)
    BY AfterNBLTyped
  <2> HIDE DEF call
  <2>2. send' = [send EXCEPT ![c] = call]
    BY <1>7 DEF call
  <2> QED
    BY <1>7, <2>1, <2>2, OneCallBegins
<1>8. CASE SendCount(c)
  <2>1. ~(send[c].nb < Len(NBsOf[CurrentNBL(c)]))
    <3>1. Len(NBsOf[CurrentNBL(c)]) = 1
      BY <1>2 DEF OneFrameNbls
    <3>2. send[c].nb \in 1..Len(NBsOf[CurrentNBL(c)])
      BY <1>0, <1>2 DEF AtFrame
    <3> QED
      BY <3>1, <3>2
  <2>2. send' = [send EXCEPT ![c] = AfterNBL(c, TRUE)] /\ send[c].pc = "count"
    BY <1>8, <2>1 DEF SendCount
  <2>3. \A e \in Calls : \A i \in 1..Len(Chain[e]) : Unbegun(e, i)' => Unbegun(e, i)
    BY <1>7, <2>2
  <2> QED
    BY <1>8, <2>3, CountersUntouched DEF SendCount
<1>9. CASE SendDiscard(c)
  <2>1. /\ send' = [send EXCEPT ![c] = AfterNBL(c, send[c].queued)]
        /\ send[c].queued \in BOOLEAN /\ send[c].pc = "discard"
    BY <1>0, <1>9 DEF SendDiscard, CallState
  <2>2. \A e \in Calls : \A i \in 1..Len(Chain[e]) : Unbegun(e, i)' => Unbegun(e, i)
    BY <1>7, <2>1
  <2> DEFINE l == CurrentNBL(c)
  <2>3. /\ NB_Counter' = [NB_Counter EXCEPT ![l] = @ - 1]
        /\ completed' = [completed EXCEPT ![l] = @ + (IF NB_Counter[l] = 1 THEN 1 ELSE 0)]
    BY <1>9 DEF SendDiscard
  <2> HIDE DEF l
  <2> QED
    BY <2>2, <2>3, CounterDrops
<1> QED
  BY <1>3, <1>4, <1>5, <1>6, <1>8, <1>9 DEF MpSendNetBufferLists

\* Every step keeps OnceInv.
LEMMA OncePreserved ==
    ASSUME OneFrameNbls, CallsTyped, OnceInv, [Next]_vars
    PROVE  OnceInv'
<1>1. ASSUME NEW c \in Calls, MpSendNetBufferLists(c) PROVE OnceInv'
  BY <1>1, CallOnce
<1>2. ASSUME UNCHANGED <<send, NB_Counter, completed>> PROVE OnceInv'
  BY <1>2, CountersUntouched DEF Unbegun
<1>3. CASE DpcUnwinds \/ SmUnwinds \/ CancelUnwinds
  BY <1>3, UnwindOnce DEF DpcUnwinds, SmUnwinds, CancelUnwinds
<1>4. CASE MacSends \/ EnetIsr \/ EnetDpcReadEvents \/ MpHandleTxInterrupt \/ DpcKicks \/ EnetDpcEnables
  BY <1>2, <1>4 DEF MacSends, EnetIsr, EnetDpcReadEvents, MpHandleTxInterrupt, DpcKicks,
     EnetDpcEnables, countVars
<1>5. CASE SmStop \/ SmStart \/ SmStartUp \/ MpTxCancelAll \/ MpCancelSendNetBufferLists
  BY <1>2, <1>5 DEF SmStop, EnetStop, SmStart, SmStartUp, EnetStart, MpTxCancelAll,
     MpCancelSendNetBufferLists, countVars
<1>6. CASE UNCHANGED vars
  BY <1>2, <1>6 DEF vars, countVars
<1> QED
  BY <1>1, <1>3, <1>4, <1>5, <1>6 DEF Next, EnetDpc, Sm

\* However the MAC is stopped and started, and however often the DPC and the
\* cancellations unwind one frame, NDIS gets no NBL of one frame back twice.
THEOREM NblsCompletedAtMostOnce == OneFrameNbls => (Spec => []CompletedAtMostOnce)
<1> SUFFICES ASSUME OneFrameNbls PROVE Spec => []CompletedAtMostOnce
  OBVIOUS
<1>1. Init => OnceInv
  <2> SUFFICES ASSUME Init PROVE OnceInv
    OBVIOUS
  <2>1. \A c \in Calls : \A i \in 1..Len(Chain[c]) : Chain[c][i] \in Nbls
    BY Shapes, ElementOfSeq
  <2> QED
    BY <2>1 DEF Init, OnceInv
<1>2. CallsTyped /\ OnceInv /\ [Next]_vars => OnceInv'
  BY OncePreserved
<1>3. OnceInv => CompletedAtMostOnce
  BY DEF OnceInv, CompletedAtMostOnce
<1> QED
  BY <1>1, <1>2, <1>3, CallsCorrect, PTL DEF Spec

-----------------------------------------------------------------------------
(* Queues and ring indices. *)

\* s has the frames at the positions I of q, each once.
Picks(s, q, I) ==
    \E p \in Bijection(1..Cardinality(I), I) : \A k \in 1..Cardinality(I) : s[k] = q[p[k]]

\* FramesAt takes each of the positions it is given once.
LEMMA FramesAtProperties ==
    ASSUME NEW q \in Seq(Frames), NEW I, I \subseteq 1..Len(q)
    PROVE  /\ FramesAt(q, I) \in Seq(Frames)
           /\ IsFiniteSet(I) /\ Len(FramesAt(q, I)) = Cardinality(I)
           /\ Picks(FramesAt(q, I), q, I)
<1> DEFINE n == Cardinality(I)
           p == ByRank(I)
<1>1. I \subseteq 0..Len(q) /\ Len(q) \in Nat
  BY LenProperties
<1>2. IsFiniteSet(I) /\ n \in Nat /\ p \in Bijection(1..n, I)
  BY <1>1, InOrderOfRank
<1>3. FramesAt(q, I) = [k \in 1..n |-> q[p[k]]]
  BY DEF FramesAt, ByRank
<1>4. p \in [1..n -> I]
  BY <1>2 DEF Bijection, Injection
<1> HIDE DEF p
<1>5. \A k \in 1..n : q[p[k]] \in Frames
  BY <1>4, ElementOfSeq
<1>6. FramesAt(q, I) \in [1..n -> Frames]
  BY <1>3, <1>5
<1>7. FramesAt(q, I) \in Seq(Frames) /\ Len(FramesAt(q, I)) = n
  BY <1>2, <1>6, SMTT(30)
<1>8. \A k \in 1..n : FramesAt(q, I)[k] = q[p[k]]
  BY <1>3
<1> QED
  BY <1>2, <1>7, <1>8 DEF Picks

\* The slot m places after p, and the number of places from p to i.
LEMMA SlotPlus ==
    ASSUME NEW p \in Slots, NEW m \in 0..Ring
    PROVE  /\ (p + m) % Ring = IF p + m < Ring THEN p + m ELSE p + m - Ring
           /\ (p + m) % Ring \in Slots
  BY PlacesAfter DEF Slots

LEMMA SlotMinus ==
    ASSUME NEW i \in Slots, NEW p \in Slots
    PROVE  /\ (i - p) % Ring = IF i >= p THEN i - p ELSE i - p + Ring
           /\ (i - p) % Ring \in Slots
  BY PlacesBetween DEF Slots

\* The descriptors MpHandleTxInterrupt takes back are at most the ring, each has a
\* frame and none is ready.
LEMMA ReclaimableProperties ==
    ASSUME Tx_EnetFreeBDIdx \in Slots, Tx_EnetPendingBDIdx \in Slots
    PROVE  /\ Reclaimable \in 0..Ring
           /\ \A k \in 0..Reclaimable - 1 :
                 LET i == (Tx_EnetPendingBDIdx + k) % Ring IN pMpBD[i] # NULL /\ ~R[i]
<1> DEFINE dist == IF Tx_EnetPendingBDIdx = Tx_EnetFreeBDIdx
                   THEN Ring ELSE (Tx_EnetFreeBDIdx - Tx_EnetPendingBDIdx) % Ring
           done(k) == LET i == (Tx_EnetPendingBDIdx + k) % Ring IN pMpBD[i] # NULL /\ ~R[i]
           T == {n \in 0..dist : \A k \in 0..n - 1 : done(k)}
<1>1. dist \in 0..Ring
  BY SlotMinus DEF Slots
<1>2. Reclaimable = Max(T)
  BY DEF Reclaimable
<1> HIDE DEF dist, done
<1>3. T \subseteq 0..dist /\ 0 \in T
  BY <1>1
<1>4. Max(T) \in T
  <2> HIDE DEF T
  <2>1. dist \in Nat /\ T # {}
    BY <1>1, <1>3
  <2> QED
    BY <1>3, <2>1, MaxOfBounded
<1>5. Reclaimable \in 0..dist /\ \A k \in 0..Reclaimable - 1 : done(k)
  BY <1>2, <1>4
<1>6. Reclaimable \in 0..Ring
  BY <1>1, <1>5
<1> QED
  BY <1>5, <1>6 DEF done

-----------------------------------------------------------------------------
(* No frame is given to a stopped MAC. *)

\* The queue of frames to send and the indices of the ring are of their types,
\* whatever stops and starts the MAC.
IndicesTyped ==
    /\ Tx_qMpOwnedBDs \in Seq(Frames)
    /\ Tx_EnetFreeBDIdx \in Slots /\ Tx_EnetPendingBDIdx \in Slots
    /\ Tx_EnetFreeBDCount \in Nat

\* MpSendNextNB moves n frames, none for an adapter whose status is not SUCCESS.
LEMMA SendNextNB ==
    ASSUME IndicesTyped, MpSendNextNB
    PROVE  \E n \in 0..Len(Tx_qMpOwnedBDs) :
              /\ n <= Tx_EnetFreeBDCount
              /\ NdisStatus # "SUCCESS" => n = 0
              /\ Tx_qMpOwnedBDs' = SubSeq(Tx_qMpOwnedBDs, n + 1, Len(Tx_qMpOwnedBDs))
              /\ Tx_qDmaOwnedBDs' = Tx_qDmaOwnedBDs \o SubSeq(Tx_qMpOwnedBDs, 1, n)
              /\ pMpBD' = [i \in Slots |-> IF (i - Tx_EnetFreeBDIdx) % Ring < n
                                           THEN Tx_qMpOwnedBDs[((i - Tx_EnetFreeBDIdx) % Ring) + 1]
                                           ELSE pMpBD[i]]
              /\ R' = [i \in Slots |-> (i - Tx_EnetFreeBDIdx) % Ring < n \/ R[i]]
              /\ Tx_EnetFreeBDIdx' = (Tx_EnetFreeBDIdx + n) % Ring
              /\ Tx_EnetFreeBDCount' = Tx_EnetFreeBDCount - n
              /\ UNCHANGED Tx_EnetPendingBDIdx
<1> DEFINE n == IF NdisStatus = "SUCCESS"
                THEN Min({Len(Tx_qMpOwnedBDs), Tx_EnetFreeBDCount}) ELSE 0
<1>1. Len(Tx_qMpOwnedBDs) \in Nat /\ Tx_EnetFreeBDCount \in Nat
  BY LenProperties DEF IndicesTyped
<1>2. n \in 0..Len(Tx_qMpOwnedBDs) /\ n <= Tx_EnetFreeBDCount /\ (NdisStatus # "SUCCESS" => n = 0)
  <2>1. \A a, b \in Nat : Min({a, b}) = IF a <= b THEN a ELSE b
    BY MinOfTwo
  <2>2. Min({Len(Tx_qMpOwnedBDs), Tx_EnetFreeBDCount})
          = IF Len(Tx_qMpOwnedBDs) <= Tx_EnetFreeBDCount
            THEN Len(Tx_qMpOwnedBDs) ELSE Tx_EnetFreeBDCount
    BY <1>1, <2>1, Zenon
  <2> QED
    BY <1>1, <2>2
<1>3. /\ Tx_qMpOwnedBDs' = SubSeq(Tx_qMpOwnedBDs, n + 1, Len(Tx_qMpOwnedBDs))
      /\ Tx_qDmaOwnedBDs' = Tx_qDmaOwnedBDs \o SubSeq(Tx_qMpOwnedBDs, 1, n)
      /\ pMpBD' = [i \in Slots |-> IF (i - Tx_EnetFreeBDIdx) % Ring < n
                                   THEN Tx_qMpOwnedBDs[((i - Tx_EnetFreeBDIdx) % Ring) + 1]
                                   ELSE pMpBD[i]]
      /\ R' = [i \in Slots |-> (i - Tx_EnetFreeBDIdx) % Ring < n \/ R[i]]
      /\ Tx_EnetFreeBDIdx' = (Tx_EnetFreeBDIdx + n) % Ring
      /\ Tx_EnetFreeBDCount' = Tx_EnetFreeBDCount - n
      /\ UNCHANGED Tx_EnetPendingBDIdx
  BY DEF MpSendNextNB
<1> HIDE DEF n
<1> QED
  BY <1>2, <1>3

\* Every step keeps the types of the indices.
LEMMA IndicesPreserved == CallsTyped /\ IndicesTyped /\ [Next]_vars => IndicesTyped'
<1> SUFFICES ASSUME CallsTyped, IndicesTyped, [Next]_vars PROVE IndicesTyped'
  OBVIOUS
<1> USE DEF queueVars, ringVars
<1>1. ASSUME UNCHANGED <<Tx_qMpOwnedBDs, ringVars>> PROVE IndicesTyped'
  BY <1>1 DEF IndicesTyped
<1>2. ASSUME MpSendNextNB PROVE IndicesTyped'
  <2>1. PICK n \in 0..Len(Tx_qMpOwnedBDs) :
           /\ n <= Tx_EnetFreeBDCount
           /\ Tx_qMpOwnedBDs' = SubSeq(Tx_qMpOwnedBDs, n + 1, Len(Tx_qMpOwnedBDs))
           /\ Tx_EnetFreeBDIdx' = (Tx_EnetFreeBDIdx + n) % Ring
           /\ Tx_EnetFreeBDCount' = Tx_EnetFreeBDCount - n
           /\ UNCHANGED Tx_EnetPendingBDIdx
    BY <1>2, SendNextNB
  <2>2. Tx_EnetFreeBDIdx \in Int /\ Tx_EnetFreeBDIdx + n \in Int /\ n \in Nat
    BY LenProperties DEF IndicesTyped, Slots
  <2>3. Tx_EnetFreeBDIdx' \in Slots
    BY <2>1, <2>2 DEF Slots
  <2>4. Tx_qMpOwnedBDs' \in Seq(Frames)
    BY <2>1 DEF IndicesTyped
  <2>5. Tx_EnetFreeBDCount' \in Nat
    BY <2>1, <2>2 DEF IndicesTyped
  <2> QED
    BY <2>1, <2>3, <2>4, <2>5 DEF IndicesTyped
<1>3. ASSUME NEW c \in Calls, MpSendNetBufferLists(c) PROVE IndicesTyped'
  <2>1. CASE SendQueue(c)
    <3>1. CurrentNB(c) \in Frames
      BY Current
    <3>2. Tx_qMpOwnedBDs' \in Seq(Frames)
      <4>1. Tx_qMpOwnedBDs' = Append(Tx_qMpOwnedBDs, CurrentNB(c)) \/ UNCHANGED Tx_qMpOwnedBDs
        BY <2>1 DEF SendQueue
      <4>2. Append(Tx_qMpOwnedBDs, CurrentNB(c)) \in Seq(Frames)
        BY <3>1, AppendProperties DEF IndicesTyped
      <4> QED
        BY <4>1, <4>2 DEF IndicesTyped
    <3>3. UNCHANGED <<Tx_EnetFreeBDIdx, Tx_EnetPendingBDIdx, Tx_EnetFreeBDCount>>
      BY <2>1 DEF SendQueue
    <3> QED
      BY <3>2, <3>3 DEF IndicesTyped
  <2>2. CASE SendKick(c)
    BY <1>2, <2>2 DEF SendKick
  <2>3. CASE SendCheckStatus(c) \/ SendAllocBD(c) \/ SendCount(c) \/ SendDiscard(c)
    BY <1>1, <2>3 DEF SendCheckStatus, SendAllocBD, SendCount, SendDiscard
  <2> QED
    BY <1>3, <2>1, <2>2, <2>3 DEF MpSendNetBufferLists
<1>4. CASE MpHandleTxInterrupt
  <2> DEFINE n == Reclaimable
  <2>1. n \in 0..Ring
    BY ReclaimableProperties DEF IndicesTyped
  <2>2. /\ Tx_EnetPendingBDIdx' = (Tx_EnetPendingBDIdx + n) % Ring
        /\ Tx_EnetFreeBDCount' = Tx_EnetFreeBDCount + n
        /\ UNCHANGED <<Tx_qMpOwnedBDs, Tx_EnetFreeBDIdx>>
    BY <1>4 DEF MpHandleTxInterrupt
  <2> HIDE DEF n
  <2> QED
    BY <2>1, <2>2, SlotPlus DEF IndicesTyped
<1>5. CASE DpcKicks
  BY <1>2, <1>5 DEF DpcKicks
<1>6. CASE SmStart \/ SmStartUp
  BY <1>6 DEF SmStart, SmStartUp, EnetStart, MpTxInit, IndicesTyped, Slots
<1>7. CASE MpTxCancelAll
  BY <1>7, EmptySeq DEF MpTxCancelAll, IndicesTyped
<1>8. CASE MpCancelSendNetBufferLists
  <2>1. DOMAIN Tx_qMpOwnedBDs \ Matching \subseteq 1..Len(Tx_qMpOwnedBDs)
    BY LenProperties DEF IndicesTyped
  <2>2. Tx_qMpOwnedBDs' \in Seq(Frames)
    BY <1>8, <2>1, FramesAtProperties DEF MpCancelSendNetBufferLists, IndicesTyped
  <2> QED
    BY <1>8, <2>2 DEF MpCancelSendNetBufferLists, IndicesTyped
<1>9. CASE \/ MacSends \/ EnetIsr \/ EnetDpcReadEvents \/ DpcUnwinds \/ EnetDpcEnables
           \/ SmStop \/ SmUnwinds \/ CancelUnwinds
  BY <1>1, <1>9 DEF MacSends, EnetIsr, EnetDpcReadEvents, DpcUnwinds, EnetDpcEnables, SmStop,
     EnetStop, SmUnwinds, CancelUnwinds, IndicesTyped
<1>10. CASE UNCHANGED vars
  BY <1>1, <1>10 DEF vars
<1> QED
  BY <1>3, <1>4, <1>5, <1>6, <1>7, <1>8, <1>9, <1>10 DEF Next, EnetDpc, Sm

LEMMA IndicesCorrect == Spec => []IndicesTyped
<1>1. Init => IndicesTyped
  BY EmptySeq DEF Init, IndicesTyped, Slots
<1> QED
  BY <1>1, IndicesPreserved, CallsCorrect, PTL DEF Spec

\* Away from "up" the status of the adapter is not SUCCESS, and once MpTxCancelAll
\* has emptied the ring's queue it stays empty.
StoppedInv ==
    /\ sm # "up" => NdisStatus # "SUCCESS"
    /\ sm \in {"unwind", "down"} => Tx_qDmaOwnedBDs = <<>>

LEMMA StoppedPreserved == IndicesTyped /\ StoppedInv /\ [Next]_vars => StoppedInv'
<1> SUFFICES ASSUME IndicesTyped, StoppedInv, [Next]_vars PROVE StoppedInv'
  OBVIOUS
<1> USE DEF queueVars, smVars
<1>1. ASSUME UNCHANGED <<sm, NdisStatus, Tx_qDmaOwnedBDs>> PROVE StoppedInv'
  BY <1>1 DEF StoppedInv
<1>2. ASSUME MpSendNextNB, UNCHANGED smVars PROVE StoppedInv'
  <2>1. PICK n \in 0..Len(Tx_qMpOwnedBDs) :
           /\ NdisStatus # "SUCCESS" => n = 0
           /\ Tx_qDmaOwnedBDs' = Tx_qDmaOwnedBDs \o SubSeq(Tx_qMpOwnedBDs, 1, n)
    BY <1>2, SendNextNB
  <2>2. ASSUME sm \in {"unwind", "down"} PROVE Tx_qDmaOwnedBDs' = <<>>
    <3>1. n = 0 /\ Tx_qDmaOwnedBDs = <<>>
      BY <2>1, <2>2 DEF StoppedInv
    <3>2. SubSeq(Tx_qMpOwnedBDs, 1, 0) = <<>>
      BY SubSeqEmpty
    <3> QED
      BY <2>1, <3>1, <3>2
  <2> QED
    BY <1>2, <2>2 DEF StoppedInv
<1>3. ASSUME NEW c \in Calls, MpSendNetBufferLists(c) PROVE StoppedInv'
  BY <1>1, <1>2, <1>3 DEF MpSendNetBufferLists, SendCheckStatus, SendAllocBD, SendQueue, SendCount,
     SendDiscard, SendKick
<1>4. CASE MpHandleTxInterrupt
  <2> DEFINE n == Reclaimable
  <2>1. n \in 0..Ring
    BY ReclaimableProperties DEF IndicesTyped
  <2>2. /\ Tx_qDmaOwnedBDs' = SubSeq(Tx_qDmaOwnedBDs, n + 1, Len(Tx_qDmaOwnedBDs))
        /\ UNCHANGED <<sm, NdisStatus>>
    BY <1>4 DEF MpHandleTxInterrupt
  <2> HIDE DEF n
  <2>3. Tx_qDmaOwnedBDs = <<>> => Tx_qDmaOwnedBDs' = <<>>
    BY <2>1, <2>2, SubSeqEmpty
  <2> QED
    BY <2>2, <2>3 DEF StoppedInv
<1>5. CASE DpcKicks
  BY <1>2, <1>5 DEF DpcKicks
<1>6. CASE SmStop
  BY <1>6 DEF SmStop, EnetStop, StoppedInv
<1>7. CASE SmStart \/ SmStartUp
  BY <1>7 DEF SmStart, SmStartUp, EnetStart, StoppedInv
<1>8. CASE MpTxCancelAll
  BY <1>8 DEF MpTxCancelAll, StoppedInv
<1>9. CASE SmUnwinds
  BY <1>9 DEF SmUnwinds, StoppedInv
<1>10. CASE \/ MacSends \/ EnetIsr \/ EnetDpcReadEvents \/ DpcUnwinds \/ EnetDpcEnables
            \/ MpCancelSendNetBufferLists \/ CancelUnwinds
  BY <1>1, <1>10 DEF MacSends, EnetIsr, EnetDpcReadEvents, DpcUnwinds, EnetDpcEnables,
     MpCancelSendNetBufferLists, CancelUnwinds
<1>11. CASE UNCHANGED vars
  BY <1>1, <1>11 DEF vars
<1> QED
  BY <1>3, <1>4, <1>5, <1>6, <1>7, <1>8, <1>9, <1>10, <1>11 DEF Next, EnetDpc, Sm

\* However the MAC is stopped and whatever call or DPC was under way then, no frame
\* is handed to the MAC once MpTxCancelAll has passed.
THEOREM StoppedMacStaysIdle == Spec => []StoppedMacIdle
<1>1. Init => StoppedInv
  BY DEF Init, StoppedInv
<1>2. StoppedInv => StoppedMacIdle
  BY DEF StoppedInv, StoppedMacIdle
<1> QED
  BY <1>1, <1>2, StoppedPreserved, IndicesCorrect, PTL DEF Spec

-----------------------------------------------------------------------------
(* The invariant of an adapter that is stopped only when it is drained. *)

\* An assumption about NDIS and not a guard of the driver: the MAC is stopped only
\* by pauses, before which NDIS lets the protocols get all their sends back; no
\* reset, no lost link and no second start.  A run has finitely many calls.
DrainedStops == Stops \subseteq {"drained"} /\ IsFiniteSet(Calls)

\* NDIS sends each NBL once, and no two NBLs share a frame.
EachSentOnce ==
    /\ \A l, m \in Nbls : \A i \in 1..Len(NBsOf[l]), j \in 1..Len(NBsOf[m]) :
          NBsOf[l][i] = NBsOf[m][j] => l = m /\ i = j
    /\ \A c, e \in Calls : \A i \in 1..Len(Chain[c]), j \in 1..Len(Chain[e]) :
          Chain[c][i] = Chain[e][j] => c = e /\ i = j

\* Every variable but send is of its type, whatever stops the MAC.
ListsTyped ==
    /\ Tx_qDmaOwnedBDs \in Seq(Frames) /\ dpcList \in Seq(Frames) /\ idList \in Seq(Frames)
    /\ smList \in Seq(Frames) /\ (sm = "unwind" => smList # <<>>)
RingTyped == pMpBD \in [Slots -> Frames \cup {NULL}] /\ R \in [Slots -> BOOLEAN]
CountersTyped ==
    /\ Tx_PendingNBs \in Int /\ NB_Counter \in [Nbls -> Int]
    /\ freed \in [Frames -> Nat] /\ completed \in [Nbls -> Nat]
StateTyped ==
    /\ NdisStatus \in {"SUCCESS", "PAUSED", "MEDIA_DISCONNECTED"}
    /\ dpc \in {"idle", "queued", "tx", "unwind", "enable"}
    /\ sm \in {"up", "cancel", "unwind", "down"}
    /\ mac \in Slots /\ txf \in BOOLEAN /\ eimr \in BOOLEAN
    /\ stops \in 0..MaxStops
TxTyped == IndicesTyped /\ ListsTyped /\ RingTyped /\ CountersTyped /\ StateTyped

\* The ring carries the frames of Tx_qDmaOwnedBDs from Tx_EnetPendingBDIdx on, and
\* no other descriptor has a frame or is ready, whether the MAC runs or not.
RingInv ==
    /\ Len(Tx_qDmaOwnedBDs) = Ring - Tx_EnetFreeBDCount
    /\ Tx_EnetFreeBDIdx = (Tx_EnetPendingBDIdx + Len(Tx_qDmaOwnedBDs)) % Ring
    /\ \A i \in Slots :
          LET k == (i - Tx_EnetPendingBDIdx) % Ring IN
          IF k < Len(Tx_qDmaOwnedBDs)
          THEN pMpBD[i] = Tx_qDmaOwnedBDs[k + 1]
          ELSE pMpBD[i] = NULL /\ ~R[i]

\* A stopped MAC has nothing: the driver holds no frame, and no call is about to
\* queue one.
StopInv ==
    /\ sm # "unwind" /\ smList = <<>>
    /\ IF sm = "up" THEN NdisStatus = "SUCCESS"
       ELSE /\ NdisStatus = "PAUSED" /\ Tx_PendingNBs = 0
            /\ Tx_qMpOwnedBDs = <<>> /\ Tx_qDmaOwnedBDs = <<>> /\ dpcList = <<>> /\ idList = <<>>
            /\ \A c \in Calls : send[c].pc \in {"idle", "done"}

\* Only the part of the DPC that unwinds has frames to unwind.
DpcInv == dpc # "unwind" => dpcList = <<>>

\* The frames the driver has, and the calls that have not counted theirs yet.
HeldCount == Len(Tx_qMpOwnedBDs) + Len(Tx_qDmaOwnedBDs) + Len(dpcList) + Len(idList)
Uncounted == {c \in Calls : send[c].pc = "count"}
CountInv == Tx_PendingNBs = HeldCount - Cardinality(Uncounted)

DrainedInv == RingInv /\ StopInv /\ DpcInv /\ CountInv

\* Four lists have no frame twice, and no two of them share one.
Separate(a, b, x, y) ==
    /\ IsInjective(a) /\ IsInjective(b) /\ IsInjective(x) /\ IsInjective(y)
    /\ Range(a) \cap Range(b) = {} /\ Range(a) \cap Range(x) = {} /\ Range(a) \cap Range(y) = {}
    /\ Range(b) \cap Range(x) = {} /\ Range(b) \cap Range(y) = {} /\ Range(x) \cap Range(y) = {}
Together(a, b, x, y) == Range(a) \cup Range(b) \cup Range(x) \cup Range(y)
Held == Together(Tx_qMpOwnedBDs, Tx_qDmaOwnedBDs, dpcList, idList)

\* The call has not queued, or discarded, the j-th frame of its i-th NBL yet.
ToCome(c, i, j) ==
    \/ send[c].pc = "idle"
    \/ /\ send[c].pc \notin {"kick", "done"}
       /\ \/ send[c].nbl < i
          \/ /\ send[c].nbl = i
             /\ send[c].nb < j \/ (send[c].nb = j /\ send[c].pc # "count")

\* Each frame the driver has is in one place and its MP_TX_BD not freed; the
\* frames a call has yet to queue are in no place and not freed either.
PlacesInv ==
    /\ Separate(Tx_qMpOwnedBDs, Tx_qDmaOwnedBDs, dpcList, idList)
    /\ \A f \in Frames : freed[f] <= 1 /\ (f \in Held => freed[f] = 0)
    /\ \A c \in Calls : \A i \in 1..Len(Chain[c]) : \A j \in 1..Len(NBsOf[Chain[c][i]]) :
          ToCome(c, i, j) => freed[NBsOf[Chain[c][i]][j]] = 0 /\ NBsOf[Chain[c][i]][j] \notin Held

\* The NBL of a frame that the driver has, or a call is working on, counts it;
\* one that no call has begun counts none.
LiveInv ==
    /\ \A f \in Held : NB_Counter[NblOf(f)] = 1
    /\ \A c \in Calls : send[c].pc \in {"queue", "discard"} => NB_Counter[CurrentNBL(c)] = 1
    /\ \A c \in Calls : \A i \in 1..Len(Chain[c]) : Unbegun(c, i) => NB_Counter[Chain[c][i]] = 0


-----------------------------------------------------------------------------
(* Frames that move from list to list. *)

\* What is left of a list after its first n frames.
LEMMA RestOfList ==
    ASSUME NEW q \in Seq(Frames), NEW n \in 0..Len(q)
    PROVE  SubSeq(q, n + 1, Len(q)) \in Seq(Frames) /\ Len(SubSeq(q, n + 1, Len(q))) = Len(q) - n
<1>0. Len(q) \in Nat /\ n \in Nat /\ n <= Len(q)
  BY LenProperties
<1>1. \A i \in n + 1..Len(q) : q[i] \in Frames
  BY <1>0, ElementOfSeq
<1>2. /\ SubSeq(q, n + 1, Len(q)) \in Seq(Frames)
      /\ Len(SubSeq(q, n + 1, Len(q))) = IF n + 1 <= Len(q) THEN Len(q) - (n + 1) + 1 ELSE 0
  BY <1>0, <1>1, SubSeqProperties
<1> QED
  BY <1>0, <1>2

\* Splitting a list without repetitions gives two that share no frame.
LEMMA SplitList ==
    ASSUME NEW q \in Seq(Frames), NEW n \in 0..Len(q)
    PROVE  /\ SubSeq(q, 1, n) \in Seq(Frames) /\ SubSeq(q, n + 1, Len(q)) \in Seq(Frames)
           /\ Len(SubSeq(q, 1, n)) = n /\ Len(SubSeq(q, n + 1, Len(q))) = Len(q) - n
           /\ Range(SubSeq(q, 1, n)) \cup Range(SubSeq(q, n + 1, Len(q))) = Range(q)
           /\ IsInjective(q) =>
                 /\ IsInjective(SubSeq(q, 1, n)) /\ IsInjective(SubSeq(q, n + 1, Len(q)))
                 /\ Range(SubSeq(q, 1, n)) \cap Range(SubSeq(q, n + 1, Len(q))) = {}
<1> DEFINE a == SubSeq(q, 1, n)
           b == SubSeq(q, n + 1, Len(q))
<1>0. Len(q) \in Nat /\ n \in Nat /\ n <= Len(q) /\ DOMAIN q = 1..Len(q)
  BY LenProperties
<1>1. /\ a \in Seq(Frames) /\ Len(a) = n /\ DOMAIN a = 1..n
      /\ \A i \in 1..n : a[i] = q[i]
  BY <1>0
<1>2. /\ b \in Seq(Frames) /\ Len(b) = Len(q) - n /\ DOMAIN b = 1..(Len(q) - n)
      /\ \A i \in 1..(Len(q) - n) : b[i] = q[n + i]
  <2>1. b \in Seq(Frames) /\ Len(b) = Len(q) - n
    BY RestOfList
  <2>2. DOMAIN b = 1..(Len(q) - n)
    BY <2>1, LenProperties
  <2>3. \A i \in 1..(Len(q) - n) : b[i] = q[n + i]
    BY <1>0
  <2> QED
    BY <2>1, <2>2, <2>3
<1> HIDE DEF a, b
<1>3. Range(a) \cup Range(b) = Range(q)
  <2>1. ASSUME NEW i \in 1..Len(q) PROVE q[i] \in Range(a) \cup Range(b)
    <3>1. CASE i <= n
      BY <1>0, <1>1, <3>1 DEF Range
    <3>2. CASE i > n
      <4>1. i - n \in 1..(Len(q) - n) /\ n + (i - n) = i
        BY <1>0, <3>2
      <4> QED
        BY <1>2, <4>1 DEF Range
    <3> QED
      BY <1>0, <3>1, <3>2
  <2>2. Range(a) \subseteq Range(q)
    BY <1>0, <1>1 DEF Range
  <2>3. Range(b) \subseteq Range(q)
    <3>1. \A i \in 1..(Len(q) - n) : n + i \in 1..Len(q)
      BY <1>0
    <3> QED
      BY <1>0, <1>2, <3>1 DEF Range
  <2>4. Range(q) \subseteq Range(a) \cup Range(b)
    BY <1>0, <2>1 DEF Range
  <2> QED
    BY <2>2, <2>3, <2>4
<1>4. ASSUME IsInjective(q)
      PROVE  IsInjective(a) /\ IsInjective(b) /\ Range(a) \cap Range(b) = {}
  <2>0. \A i, j \in 1..Len(q) : q[i] = q[j] => i = j
    BY <1>0, <1>4 DEF IsInjective
  <2>1. IsInjective(a)
    BY <1>0, <1>1, <2>0 DEF IsInjective
  <2>2. IsInjective(b)
    <3>1. \A i \in 1..(Len(q) - n) : n + i \in 1..Len(q)
      BY <1>0
    <3>2. ASSUME NEW i \in 1..(Len(q) - n), NEW j \in 1..(Len(q) - n), b[i] = b[j] PROVE i = j
      <4>1. n + i = n + j
        BY <1>2, <2>0, <3>1, <3>2
      <4> QED
        BY <1>0, <4>1
    <3> QED
      BY <1>2, <3>2 DEF IsInjective
  <2>3. Range(a) \cap Range(b) = {}
    <3> SUFFICES ASSUME NEW i \in 1..n, NEW j \in 1..(Len(q) - n), a[i] = b[j] PROVE FALSE
      BY <1>1, <1>2 DEF Range
    <3>1. i \in 1..Len(q) /\ n + j \in 1..Len(q) /\ i # n + j
      BY <1>0
    <3> QED
      BY <1>1, <1>2, <2>0, <3>1
  <2> QED
    BY <2>1, <2>2, <2>3
<1> QED
  BY <1>1, <1>2, <1>3, <1>4 DEF a, b

\* Joining two lists that share no frame gives one without repetitions.
LEMMA JoinLists ==
    ASSUME NEW a \in Seq(Frames), NEW b \in Seq(Frames)
    PROVE  /\ a \o b \in Seq(Frames) /\ Len(a \o b) = Len(a) + Len(b)
           /\ Range(a \o b) = Range(a) \cup Range(b)
           /\ IsInjective(a) /\ IsInjective(b) /\ Range(a) \cap Range(b) = {} => IsInjective(a \o b)
<1>1. /\ a \o b \in Seq(Frames) /\ Len(a \o b) = Len(a) + Len(b)
      /\ Range(a \o b) = Range(a) \cup Range(b)
  BY ConcatProperties, RangeConcatenation
<1>2. ASSUME IsInjective(a), IsInjective(b), Range(a) \cap Range(b) = {}
      PROVE  IsInjective(a \o b)
  <2> DEFINE s == a \o b
  <2>0. /\ Len(a) \in Nat /\ Len(b) \in Nat /\ DOMAIN a = 1..Len(a) /\ DOMAIN b = 1..Len(b)
        /\ DOMAIN s = 1..(Len(a) + Len(b))
    BY <1>1, LenProperties
  <2>1. \A i \in 1..Len(a) + Len(b) : s[i] = IF i <= Len(a) THEN a[i] ELSE b[i - Len(a)]
    BY ConcatProperties
  <2> HIDE DEF s
  <2>2. SUFFICES ASSUME NEW i \in 1..(Len(a) + Len(b)), NEW j \in 1..(Len(a) + Len(b)),
                        s[i] = s[j]
                 PROVE  i = j
    BY <2>0 DEF IsInjective, s
  <2>3. \A x \in 1..Len(a), y \in 1..Len(b) : a[x] # b[y]
    BY <1>2, <2>0 DEF Range
  <2>4. CASE i <= Len(a) /\ j <= Len(a)
    BY <1>2, <2>0, <2>1, <2>2, <2>4, SMTT(30) DEF IsInjective
  <2>5. CASE i <= Len(a) /\ ~(j <= Len(a))
    <3>1. j - Len(a) \in 1..Len(b) /\ i \in 1..Len(a)
      BY <2>0, <2>5
    <3> QED
      BY <2>1, <2>2, <2>3, <2>5, <3>1
  <2>6. CASE ~(i <= Len(a)) /\ j <= Len(a)
    <3>1. i - Len(a) \in 1..Len(b) /\ j \in 1..Len(a)
      BY <2>0, <2>6
    <3> QED
      BY <2>1, <2>2, <2>3, <2>6, <3>1
  <2>7. CASE ~(i <= Len(a)) /\ ~(j <= Len(a))
    <3>1. i - Len(a) \in 1..Len(b) /\ j - Len(a) \in 1..Len(b)
      BY <2>0, <2>7
    <3>2. b[i - Len(a)] = b[j - Len(a)]
      BY <2>1, <2>2, <2>7
    <3>3. i - Len(a) = j - Len(a)
      BY <1>2, <2>0, <3>1, <3>2 DEF IsInjective
    <3> QED
      BY <2>0, <3>3
  <2> QED
    BY <2>4, <2>5, <2>6, <2>7
<1> QED
  BY <1>1, <1>2

\* Taking the first frame off a list.
LEMMA TakeFirst ==
    ASSUME NEW q \in Seq(Frames), q # <<>>
    PROVE  /\ Head(q) \in Frames /\ Head(q) \in Range(q)
           /\ Tail(q) \in Seq(Frames) /\ Len(Tail(q)) = Len(q) - 1
           /\ IsInjective(q) => IsInjective(Tail(q)) /\ Range(Tail(q)) = Range(q) \ {Head(q)}
<1> DEFINE t == Tail(q)
<1>1. /\ Head(q) = q[1] /\ Head(q) \in Frames /\ t \in Seq(Frames)
      /\ Len(q) \in Nat \ {0} /\ Len(t) = Len(q) - 1
      /\ DOMAIN q = 1..Len(q) /\ DOMAIN t = 1..(Len(q) - 1)
      /\ \A i \in 1..(Len(q) - 1) : t[i] = q[i + 1]
  BY EmptySeq
<1> HIDE DEF t
<1>2. 1 \in 1..Len(q) /\ Head(q) \in Range(q)
  BY <1>1 DEF Range
<1>3. ASSUME IsInjective(q)
      PROVE  IsInjective(t) /\ Range(t) = Range(q) \ {Head(q)}
  <2>0. \A i, j \in 1..Len(q) : q[i] = q[j] => i = j
    BY <1>1, <1>3 DEF IsInjective
  <2>1. \A i \in 1..(Len(q) - 1) : i + 1 \in 1..Len(q) /\ i + 1 # 1
    BY <1>1
  <2>2. IsInjective(t)
    <3>1. ASSUME NEW i \in 1..(Len(q) - 1), NEW j \in 1..(Len(q) - 1), t[i] = t[j] PROVE i = j
      <4>1. i + 1 = j + 1
        BY <1>1, <2>0, <2>1, <3>1
      <4> QED
        BY <1>1, <4>1
    <3> QED
      BY <1>1, <3>1 DEF IsInjective
  <2>3. ASSUME NEW i \in 1..(Len(q) - 1) PROVE t[i] \in Range(q) \ {Head(q)}
    <3>1. i + 1 \in 1..Len(q) /\ i + 1 # 1 /\ t[i] = q[i + 1]
      BY <1>1, <2>1
    <3>2. q[i + 1] # q[1]
      BY <1>2, <2>0, <3>1
    <3> QED
      BY <1>1, <3>1, <3>2 DEF Range
  <2>4. ASSUME NEW i \in 1..Len(q), q[i] # Head(q) PROVE q[i] \in Range(t)
    <3>1. i - 1 \in 1..(Len(q) - 1) /\ (i - 1) + 1 = i
      BY <1>1, <2>4
    <3> QED
      BY <1>1, <3>1 DEF Range
  <2>5. Range(t) \subseteq Range(q) \ {Head(q)}
    <3> SUFFICES ASSUME NEW f \in Range(t) PROVE f \in Range(q) \ {Head(q)}
      OBVIOUS
    <3>1. PICK i \in 1..(Len(q) - 1) : f = t[i]
      BY <1>1 DEF Range
    <3> QED
      BY <2>3, <3>1
  <2>6. Range(q) \ {Head(q)} \subseteq Range(t)
    <3> SUFFICES ASSUME NEW f \in Range(q), f # Head(q) PROVE f \in Range(t)
      OBVIOUS
    <3>1. PICK i \in 1..Len(q) : f = q[i]
      BY <1>1 DEF Range
    <3> QED
      BY <2>4, <3>1
  <2> QED
    BY <2>2, <2>5, <2>6
<1> QED
  BY <1>1, <1>2, <1>3 DEF t

\* FramesAt of a list without repetitions has none, and has the frames it is asked for.
LEMMA FramesAtInjective ==
    ASSUME NEW q \in Seq(Frames), NEW I, I \subseteq 1..Len(q)
    PROVE  /\ Range(FramesAt(q, I)) = {q[i] : i \in I}
           /\ IsInjective(q) => IsInjective(FramesAt(q, I))
<1> DEFINE n == Cardinality(I)
           s == FramesAt(q, I)
<1>1. /\ n \in Nat /\ s \in Seq(Frames) /\ Len(s) = n
      /\ \E p \in Bijection(1..n, I) : \A k \in 1..n : s[k] = q[p[k]]
  <2>1. /\ FramesAt(q, I) \in Seq(Frames)
        /\ IsFiniteSet(I) /\ Len(FramesAt(q, I)) = Cardinality(I)
        /\ Picks(FramesAt(q, I), q, I)
    BY FramesAtProperties
  <2> QED
    BY <2>1, FS_CardinalityType DEF Picks
<1>2. PICK p \in Bijection(1..n, I) : \A k \in 1..n : s[k] = q[p[k]]
  BY <1>1
<1>3. DOMAIN s = 1..n /\ DOMAIN q = 1..Len(q)
  BY <1>1, LenProperties
<1> HIDE DEF n, s
<1>4. /\ p \in [1..n -> I] /\ \A i \in I : \E k \in 1..n : p[k] = i
      /\ \A j, k \in 1..n : p[j] = p[k] => j = k
  BY <1>2 DEF Bijection, Injection, Surjection, IsInjective
<1>5. Range(s) = {q[i] : i \in I}
  <2>1. \A k \in 1..n : s[k] \in {q[i] : i \in I}
    <3>1. \A k \in 1..n : p[k] \in I
      BY <1>4
    <3> QED
      BY <1>2, <3>1, Zenon
  <2>2. ASSUME NEW i \in I PROVE q[i] \in {s[k] : k \in 1..n}
    <3>1. PICK k \in 1..n : p[k] = i
      BY <1>4
    <3> QED
      BY <1>2, <3>1
  <2> QED
    BY <1>3, <2>1, <2>2, Zenon DEF Range
<1>6. ASSUME IsInjective(q) PROVE IsInjective(s)
  <2>1. \A i, j \in I : q[i] = q[j] => i = j
    BY <1>3, <1>6 DEF IsInjective
  <2>2. ASSUME NEW j \in 1..n, NEW k \in 1..n, s[j] = s[k] PROVE j = k
    <3>1. p[j] \in I /\ p[k] \in I /\ q[p[j]] = q[p[k]]
      BY <1>2, <1>4, <2>2
    <3> QED
      BY <1>4, <2>1, <3>1
  <2> QED
    BY <1>3, <2>2 DEF IsInjective
<1> QED
  BY <1>5, <1>6 DEF s

\* Dividing a list by the positions of its frames.
LEMMA DivideList ==
    ASSUME NEW q \in Seq(Frames), NEW I, I \subseteq DOMAIN q
    PROVE  LET a == FramesAt(q, DOMAIN q \ I)
               y == FramesAt(q, I)
           IN  /\ a \in Seq(Frames) /\ y \in Seq(Frames) /\ Len(a) + Len(y) = Len(q)
               /\ Range(a) \cup Range(y) = Range(q)
               /\ IsInjective(q) =>
                     IsInjective(a) /\ IsInjective(y) /\ Range(a) \cap Range(y) = {}
<1> DEFINE J == DOMAIN q \ I
           a == FramesAt(q, J)
           y == FramesAt(q, I)
<1>0. Len(q) \in Nat /\ DOMAIN q = 1..Len(q)
  BY LenProperties
<1>1. I \subseteq 1..Len(q) /\ J \subseteq 1..Len(q) /\ I \cup J = DOMAIN q /\ I \cap J = {}
  BY <1>0
<1> HIDE DEF J
<1>2. /\ a \in Seq(Frames) /\ Len(a) = Cardinality(J) /\ IsFiniteSet(J)
      /\ Range(a) = {q[i] : i \in J} /\ (IsInjective(q) => IsInjective(a))
  BY <1>1, FramesAtProperties, FramesAtInjective
<1>3. /\ y \in Seq(Frames) /\ Len(y) = Cardinality(I) /\ IsFiniteSet(I)
      /\ Range(y) = {q[i] : i \in I} /\ (IsInjective(q) => IsInjective(y))
  BY <1>1, FramesAtProperties, FramesAtInjective
<1> HIDE DEF a, y
<1>4. Len(a) + Len(y) = Len(q)
  <2>1. Cardinality(1..Len(q)) = Len(q)
    <3>1. Cardinality(1..Len(q)) = IF 1 > Len(q) THEN 0 ELSE Len(q) - 1 + 1
      BY <1>0, FS_Interval
    <3> HIDE DEF a, y
    <3> QED
      BY <1>0, <3>1
  <2>2. Cardinality(I \cup J) = Cardinality(I) + Cardinality(J) - Cardinality(I \cap J)
    BY <1>2, <1>3, FS_Union
  <2>3. Cardinality(I \cap J) = 0
    BY <1>1, FS_EmptySet
  <2>4. Cardinality(I) \in Nat /\ Cardinality(J) \in Nat
    BY <1>2, <1>3, FS_CardinalityType
  <2>5. Cardinality(I \cup J) = Len(q)
    BY <1>0, <1>1, <2>1, Zenon
  <2> QED
    BY <1>0, <1>2, <1>3, <2>2, <2>3, <2>4, <2>5
<1>5. Range(a) \cup Range(y) = Range(q)
  BY <1>1, <1>2, <1>3 DEF Range
<1>6. IsInjective(q) => Range(a) \cap Range(y) = {}
  BY <1>1, <1>2, <1>3 DEF IsInjective
<1> QED
  BY <1>2, <1>3, <1>4, <1>5, <1>6 DEF J, a, y

\* MpSendNextNB: the first n frames of the queue go to the ring.
LEMMA KickSeparate ==
    ASSUME NEW a \in Seq(Frames), NEW b \in Seq(Frames), NEW x, NEW y, NEW n \in 0..Len(a),
           Separate(a, b, x, y)
    PROVE  LET a1 == SubSeq(a, n + 1, Len(a))
               b1 == b \o SubSeq(a, 1, n)
           IN  Separate(a1, b1, x, y) /\ Together(a1, b1, x, y) = Together(a, b, x, y)
<1> DEFINE s == SubSeq(a, 1, n)
           r == SubSeq(a, n + 1, Len(a))
           d == b \o s
<1>1. /\ s \in Seq(Frames) /\ IsInjective(s) /\ IsInjective(r)
      /\ Range(s) \cap Range(r) = {} /\ Range(s) \cup Range(r) = Range(a)
  BY SplitList DEF Separate
<1> HIDE DEF s, r
<1>2. Range(d) = Range(b) \cup Range(s)
  BY <1>1, JoinLists
<1>3. Range(b) \cap Range(s) = {}
  BY <1>1 DEF Separate
<1>4. IsInjective(d)
  BY <1>1, <1>3, JoinLists DEF Separate
<1> HIDE DEF d
<1> QED
  BY <1>1, <1>2, <1>4, Zenon DEF Separate, Together, d, r, s

\* MpHandleTxInterrupt: the first n frames of the ring go to the empty list x.
LEMMA ReclaimSeparate ==
    ASSUME NEW a, NEW b \in Seq(Frames), NEW y, NEW n \in 0..Len(b),
           Separate(a, b, <<>>, y)
    PROVE  LET b1 == SubSeq(b, n + 1, Len(b))
               x1 == SubSeq(b, 1, n)
           IN  Separate(a, b1, x1, y) /\ Together(a, b1, x1, y) = Together(a, b, <<>>, y)
<1> DEFINE s == SubSeq(b, 1, n)
           r == SubSeq(b, n + 1, Len(b))
<1>1. /\ s \in Seq(Frames) /\ IsInjective(s) /\ IsInjective(r)
      /\ Range(s) \cap Range(r) = {} /\ Range(s) \cup Range(r) = Range(b)
  BY SplitList DEF Separate
<1> HIDE DEF s, r
<1>2. Range(<<>>) = {}
  BY EmptySeq DEF Range
<1>3. Separate(a, r, s, y)
  BY <1>1, Zenon DEF Separate
<1>4. Together(a, r, s, y) = Together(a, b, <<>>, y)
  BY <1>1, <1>2, Zenon DEF Together
<1> QED
  BY <1>3, <1>4 DEF r, s

\* MpCancelSendNetBufferLists: some frames of the queue go to the empty list y.
LEMMA CancelSeparate ==
    ASSUME NEW a \in Seq(Frames), NEW b, NEW x, NEW I, I \subseteq DOMAIN a,
           Separate(a, b, x, <<>>)
    PROVE  LET a1 == FramesAt(a, DOMAIN a \ I)
               y1 == FramesAt(a, I)
           IN  Separate(a1, b, x, y1) /\ Together(a1, b, x, y1) = Together(a, b, x, <<>>)
<1> DEFINE s == FramesAt(a, I)
           r == FramesAt(a, DOMAIN a \ I)
<1>1. /\ IsInjective(s) /\ IsInjective(r)
      /\ Range(s) \cap Range(r) = {} /\ Range(s) \cup Range(r) = Range(a)
  BY DivideList DEF Separate
<1> HIDE DEF s, r
<1>2. Range(<<>>) = {}
  BY EmptySeq DEF Range
<1>3. Separate(r, b, x, s)
  BY <1>1, Zenon DEF Separate
<1>4. Together(r, b, x, s) = Together(a, b, x, <<>>)
  BY <1>1, <1>2, Zenon DEF Together
<1> QED
  BY <1>3, <1>4 DEF r, s

\* MpProcessSGList: a frame that is in no list is queued.
LEMMA QueueSeparate ==
    ASSUME NEW a \in Seq(Frames), NEW b, NEW x, NEW y, NEW f \in Frames,
           Separate(a, b, x, y), f \notin Together(a, b, x, y)
    PROVE  /\ Separate(Append(a, f), b, x, y)
           /\ Together(Append(a, f), b, x, y) = Together(a, b, x, y) \cup {f}
<1> DEFINE s == <<f>>
           r == a \o s
<1>1. s \in Seq(Frames) /\ IsInjective(s) /\ Range(s) = {f}
  BY DEF IsInjective, Range
<1>2. r = Append(a, f)
  BY AppendIsConcat
<1> HIDE DEF s
<1>3. f \notin Range(a) /\ f \notin Range(b) /\ f \notin Range(x) /\ f \notin Range(y)
  BY DEF Together
<1>4. Range(r) = Range(a) \cup {f}
  BY <1>1, JoinLists
<1>5. IsInjective(r)
  BY <1>1, <1>3, JoinLists DEF Separate
<1> HIDE DEF r
<1>6. Separate(r, b, x, y)
  BY <1>3, <1>4, <1>5, Zenon DEF Separate
<1>7. Together(r, b, x, y) = Together(a, b, x, y) \cup {f}
  BY <1>4, Zenon DEF Together
<1> QED
  BY <1>2, <1>6, <1>7

\* DpcUnwinds and CancelUnwinds: a frame leaves its list and is in no other.
LEMMA UnwindSeparate ==
    ASSUME NEW a, NEW b, NEW x \in Seq(Frames), NEW y \in Seq(Frames), Separate(a, b, x, y)
    PROVE  /\ x # <<>> =>
                 /\ Separate(a, b, Tail(x), y)
                 /\ Together(a, b, Tail(x), y) = Together(a, b, x, y) \ {Head(x)}
                 /\ Head(x) \in Together(a, b, x, y)
           /\ y # <<>> =>
                 /\ Separate(a, b, x, Tail(y))
                 /\ Together(a, b, x, Tail(y)) = Together(a, b, x, y) \ {Head(y)}
                 /\ Head(y) \in Together(a, b, x, y)
<1>1. ASSUME x # <<>>
      PROVE  /\ Separate(a, b, Tail(x), y)
             /\ Together(a, b, Tail(x), y) = Together(a, b, x, y) \ {Head(x)}
             /\ Head(x) \in Together(a, b, x, y)
  <2>1. Head(x) \in Range(x) /\ IsInjective(Tail(x)) /\ Range(Tail(x)) = Range(x) \ {Head(x)}
    BY <1>1, TakeFirst DEF Separate
  <2>2. Separate(a, b, Tail(x), y)
    BY <2>1, Zenon DEF Separate
  <2>3. Head(x) \notin Range(a) /\ Head(x) \notin Range(b) /\ Head(x) \notin Range(y)
    BY <2>1, Zenon DEF Separate
  <2> QED
    BY <2>1, <2>2, <2>3, Zenon DEF Together
<1>2. ASSUME y # <<>>
      PROVE  /\ Separate(a, b, x, Tail(y))
             /\ Together(a, b, x, Tail(y)) = Together(a, b, x, y) \ {Head(y)}
             /\ Head(y) \in Together(a, b, x, y)
  <2>1. Head(y) \in Range(y) /\ IsInjective(Tail(y)) /\ Range(Tail(y)) = Range(y) \ {Head(y)}
    BY <1>2, TakeFirst DEF Separate
  <2>2. Separate(a, b, x, Tail(y))
    BY <2>1, Zenon DEF Separate
  <2>3. Head(y) \notin Range(a) /\ Head(y) \notin Range(b) /\ Head(y) \notin Range(x)
    BY <2>1, Zenon DEF Separate
  <2> QED
    BY <2>1, <2>2, <2>3, Zenon DEF Together
<1> QED
  BY <1>1, <1>2

-----------------------------------------------------------------------------
(* Types, whatever stops the MAC. *)

\* A step that keeps a unary fact about unchanged variables keeps StateTyped.
LEMMA StatePreserved == StateTyped /\ [Next]_vars => StateTyped'
<1> SUFFICES ASSUME StateTyped, [Next]_vars PROVE StateTyped'
  OBVIOUS
<1> USE DEF StateTyped, smVars, dpcVars, hwVars
<1>1. ASSUME UNCHANGED <<dpc, NdisStatus, sm, stops, mac, txf, eimr>> PROVE StateTyped'
  BY <1>1
<1>2. ASSUME NEW c \in Calls, MpSendNetBufferLists(c) PROVE StateTyped'
  BY <1>1, <1>2 DEF MpSendNetBufferLists, SendCheckStatus, SendAllocBD, SendQueue, SendCount,
     SendDiscard, SendKick
<1>3. CASE MacSends
  <2>1. mac' \in Slots
    BY <1>3 DEF MacSends, Slots
  <2> QED
    BY <1>3, <2>1 DEF MacSends
<1>4. CASE EnetIsr \/ EnetDpcReadEvents \/ MpHandleTxInterrupt \/ DpcUnwinds \/ DpcKicks \/ EnetDpcEnables
  BY <1>4 DEF EnetIsr, EnetDpcReadEvents, MpHandleTxInterrupt, DpcUnwinds, DpcKicks, EnetDpcEnables
<1>5. CASE SmStop
  <2>1. /\ sm' = "cancel" /\ stops < MaxStops /\ stops' = stops + 1
        /\ NdisStatus' \in {"PAUSED", "MEDIA_DISCONNECTED"}
        /\ eimr' = FALSE /\ txf' = FALSE /\ UNCHANGED <<dpc, mac>>
    BY <1>5 DEF SmStop, EnetStop
  <2>2. stops' \in 0..MaxStops
    BY <2>1
  <2> QED
    BY <2>1, <2>2, Zenon
<1>6. CASE SmStart \/ SmStartUp
  <2>1. /\ sm' = "up" /\ stops' \in 0..MaxStops /\ NdisStatus' = "SUCCESS"
        /\ eimr' = TRUE /\ txf' = FALSE /\ mac' = 0 /\ UNCHANGED dpc
    BY <1>6 DEF SmStart, SmStartUp, EnetStart
  <2>2. mac' \in Slots
    BY <2>1 DEF Slots
  <2> QED
    BY <2>1, <2>2, Zenon
<1>7. CASE MpTxCancelAll \/ SmUnwinds
  <2>1. /\ sm' \in {"cancel", "unwind", "down"}
        /\ UNCHANGED <<dpc, NdisStatus, stops, mac, txf, eimr>>
    BY <1>7 DEF MpTxCancelAll, SmUnwinds
  <2> QED
    BY <2>1
<1>8. CASE MpCancelSendNetBufferLists \/ CancelUnwinds
  BY <1>1, <1>8 DEF MpCancelSendNetBufferLists, CancelUnwinds
<1>9. CASE UNCHANGED vars
  BY <1>1, <1>9 DEF vars
<1> QED
  BY <1>2, <1>3, <1>4, <1>5, <1>6, <1>7, <1>8, <1>9 DEF Next, EnetDpc, Sm

\* Unwinding a frame keeps the types of the counters.
LEMMA UnwindTyped ==
    ASSUME CountersTyped, NEW f \in Frames, MpTxUnwindNetBuffer(f)
    PROVE  CountersTyped'
<1> DEFINE l == NblOf(f)
           n == IF NB_Counter[l] = 1 THEN 1 ELSE 0
<1>1. l \in Nbls
  BY OwnerAssumption, Zenon DEF NblOf
<1>2. /\ freed' = [freed EXCEPT ![f] = freed[f] + 1]
      /\ NB_Counter' = [NB_Counter EXCEPT ![l] = NB_Counter[l] - 1]
      /\ completed' = [completed EXCEPT ![l] = completed[l] + n]
      /\ Tx_PendingNBs' = Tx_PendingNBs - 1
  BY DEF MpTxUnwindNetBuffer
<1>3. n \in Nat
  OBVIOUS
<1> HIDE DEF l, n
<1>4. freed[f] + 1 \in Nat /\ NB_Counter[l] - 1 \in Int /\ completed[l] + n \in Nat
  BY <1>1, <1>3 DEF CountersTyped
<1>5. freed' \in [Frames -> Nat] /\ NB_Counter' \in [Nbls -> Int] /\ completed' \in [Nbls -> Nat]
  BY <1>2, <1>4 DEF CountersTyped
<1> QED
  BY <1>2, <1>5 DEF CountersTyped

\* A frame at the head of a list to unwind is a frame.
LEMMA HeadTyped ==
    ASSUME NEW q \in Seq(Frames), q # <<>>
    PROVE  Head(q) \in Frames
  OBVIOUS

LEMMA CountersPreserved ==
    ASSUME CallsTyped, ListsTyped, CountersTyped, [Next]_vars
    PROVE  CountersTyped'
<1> USE DEF countVars
<1>1. ASSUME UNCHANGED countVars PROVE CountersTyped'
  BY <1>1 DEF CountersTyped
<1>2. ASSUME NEW c \in Calls, SendCheckStatus(c) PROVE CountersTyped'
  <2> DEFINE n(l) == IF NdisStatus # "SUCCESS" /\ l \in Range(Chain[c]) THEN 1 ELSE 0
  <2>1. /\ completed' = [l \in Nbls |-> completed[l] + n(l)]
        /\ UNCHANGED <<Tx_PendingNBs, NB_Counter, freed>>
    BY <1>2 DEF SendCheckStatus
  <2>2. \A l \in Nbls : n(l) \in Nat
    OBVIOUS
  <2> HIDE DEF n
  <2>3. ASSUME NEW l \in Nbls PROVE completed[l] + n(l) \in Nat
    <3>1. completed[l] \in Nat /\ n(l) \in Nat
      BY <2>2 DEF CountersTyped
    <3> QED
      BY <3>1
  <2>4. completed' \in [Nbls -> Nat]
    BY <2>1, <2>3
  <2> QED
    BY <2>1, <2>4 DEF CountersTyped
<1>3. ASSUME NEW c \in Calls, SendAllocBD(c) PROVE CountersTyped'
  <2>1. NB_Counter' = [NB_Counter EXCEPT ![CurrentNBL(c)] = NB_Counter[CurrentNBL(c)] + 1]
    BY <1>3 DEF SendAllocBD
  <2>2. NB_Counter[CurrentNBL(c)] + 1 \in Int
    BY Current DEF CountersTyped
  <2>3. NB_Counter' \in [Nbls -> Int]
    BY <2>1, <2>2 DEF CountersTyped
  <2>4. UNCHANGED <<Tx_PendingNBs, freed, completed>>
    BY <1>3 DEF SendAllocBD
  <2> QED
    BY <2>3, <2>4 DEF CountersTyped
<1>4. ASSUME NEW c \in Calls, SendDiscard(c) PROVE CountersTyped'
  <2> DEFINE l == CurrentNBL(c)
             f == CurrentNB(c)
             n == IF NB_Counter[l] = 1 THEN 1 ELSE 0
  <2>1. /\ freed' = IF send[c].bd THEN [freed EXCEPT ![f] = freed[f] + 1] ELSE freed
        /\ NB_Counter' = [NB_Counter EXCEPT ![l] = NB_Counter[l] - 1]
        /\ completed' = [completed EXCEPT ![l] = completed[l] + n]
        /\ UNCHANGED Tx_PendingNBs
    BY <1>4 DEF SendDiscard
  <2>2. n \in Nat
    OBVIOUS
  <2>3. l \in Nbls /\ f \in Frames
    BY Current
  <2> HIDE DEF l, f, n
  <2>4. freed[f] + 1 \in Nat /\ NB_Counter[l] - 1 \in Int /\ completed[l] + n \in Nat
    <3>1. freed[f] \in Nat /\ NB_Counter[l] \in Int /\ completed[l] \in Nat
      BY <2>3 DEF CountersTyped
    <3> QED
      BY <2>2, <3>1, SMTT(30)
  <2>5. NB_Counter' \in [Nbls -> Int] /\ completed' \in [Nbls -> Nat]
    BY <2>1, <2>4 DEF CountersTyped
  <2>6. freed' \in [Frames -> Nat]
    BY <2>1, <2>4 DEF CountersTyped
  <2> QED
    BY <2>1, <2>5, <2>6 DEF CountersTyped
<1>5. ASSUME NEW c \in Calls, SendCount(c) PROVE CountersTyped'
  BY <1>5 DEF SendCount, CountersTyped
<1>6. ASSUME NEW c \in Calls, SendQueue(c) \/ SendKick(c) PROVE CountersTyped'
  BY <1>1, <1>6 DEF SendQueue, SendKick
<1>7. CASE DpcUnwinds
  <2>1. dpcList \in Seq(Frames) /\ dpcList # <<>> /\ MpTxUnwindNetBuffer(Head(dpcList))
    BY <1>7 DEF ListsTyped, DpcUnwinds
  <2> QED
    BY <2>1, HeadTyped, UnwindTyped
<1>8. CASE SmUnwinds
  <2>1. smList \in Seq(Frames) /\ smList # <<>> /\ MpTxUnwindNetBuffer(Head(smList))
    BY <1>8 DEF ListsTyped, SmUnwinds
  <2> QED
    BY <2>1, HeadTyped, UnwindTyped
<1>9. CASE CancelUnwinds
  <2>1. idList \in Seq(Frames) /\ idList # <<>> /\ MpTxUnwindNetBuffer(Head(idList))
    BY <1>9 DEF ListsTyped, CancelUnwinds
  <2> QED
    BY <2>1, HeadTyped, UnwindTyped
<1>10. CASE MacSends \/ EnetIsr \/ EnetDpcReadEvents \/ MpHandleTxInterrupt \/ DpcKicks \/ EnetDpcEnables
  BY <1>1, <1>10 DEF MacSends, EnetIsr, EnetDpcReadEvents, MpHandleTxInterrupt, DpcKicks, EnetDpcEnables
<1>11. CASE SmStop \/ SmStart \/ SmStartUp \/ MpTxCancelAll \/ MpCancelSendNetBufferLists
  BY <1>1, <1>11 DEF SmStop, EnetStop, SmStart, SmStartUp, EnetStart, MpTxCancelAll,
     MpCancelSendNetBufferLists
<1>12. CASE UNCHANGED vars
  BY <1>1, <1>12 DEF vars
<1> QED
  BY <1>2, <1>3, <1>4, <1>5, <1>6, <1>7, <1>8, <1>9, <1>10, <1>11, <1>12
  DEF Next, EnetDpc, Sm, MpSendNetBufferLists

\* The frames MpHandleTxInterrupt takes out of the ring are frames.
LEMMA ReclaimedTyped ==
    ASSUME IndicesTyped, RingTyped
    PROVE  [j \in 1..Reclaimable |-> pMpBD[(Tx_EnetPendingBDIdx + j - 1) % Ring]] \in Seq(Frames)
<1> DEFINE n == Reclaimable
           p == Tx_EnetPendingBDIdx
<1>1. /\ n \in 0..Ring /\ p \in Slots
      /\ \A k \in 0..n - 1 : pMpBD[(p + k) % Ring] # NULL
  BY ReclaimableProperties DEF IndicesTyped
<1> HIDE DEF n, p
<1>2. ASSUME NEW j \in 1..n PROVE pMpBD[(p + j - 1) % Ring] \in Frames
  <2>1. j - 1 \in 0..n - 1 /\ j - 1 \in 0..Ring /\ p + j - 1 = p + (j - 1)
    BY <1>1 DEF Slots
  <2>2. (p + (j - 1)) % Ring \in Slots
    BY <1>1, <2>1, SlotPlus
  <2>3. pMpBD[(p + (j - 1)) % Ring] # NULL
    BY <1>1, <2>1
  <2> QED
    BY <2>1, <2>2, <2>3 DEF RingTyped
<1>3. n \in Nat
  BY <1>1
<1> QED
  BY <1>2, <1>3, IsASeq DEF n, p

LEMMA RingTypesPreserved ==
    ASSUME IndicesTyped, RingTyped, StateTyped, [Next]_vars
    PROVE  RingTyped'
<1> USE DEF ringVars
<1>1. ASSUME UNCHANGED <<pMpBD, R>> PROVE RingTyped'
  BY <1>1 DEF RingTyped
<1>2. ASSUME MpSendNextNB PROVE RingTyped'
  <2>1. PICK n \in 0..Len(Tx_qMpOwnedBDs) :
           /\ pMpBD' = [i \in Slots |-> IF (i - Tx_EnetFreeBDIdx) % Ring < n
                                        THEN Tx_qMpOwnedBDs[((i - Tx_EnetFreeBDIdx) % Ring) + 1] ELSE pMpBD[i]]
           /\ R' = [i \in Slots |-> (i - Tx_EnetFreeBDIdx) % Ring < n \/ R[i]]
    BY <1>2, SendNextNB
  <2>2. R' \in [Slots -> BOOLEAN]
    BY <2>1, Zenon
  <2>3. ASSUME NEW i \in Slots, (i - Tx_EnetFreeBDIdx) % Ring < n
        PROVE  Tx_qMpOwnedBDs[((i - Tx_EnetFreeBDIdx) % Ring) + 1] \in Frames
    <3> DEFINE k == (i - Tx_EnetFreeBDIdx) % Ring
    <3>1. k \in Nat
      BY SlotMinus DEF IndicesTyped, Slots
    <3>2. Len(Tx_qMpOwnedBDs) \in Nat /\ k < n
      BY <2>3 DEF IndicesTyped
    <3> HIDE DEF k
    <3>3. k + 1 \in 1..Len(Tx_qMpOwnedBDs)
      BY <3>1, <3>2
    <3> QED
      BY <3>3, ElementOfSeq DEF IndicesTyped, k
  <2>4. pMpBD' \in [Slots -> Frames \cup {NULL}]
    BY <2>1, <2>3 DEF RingTyped
  <2> QED
    BY <2>2, <2>4 DEF RingTyped
<1>3. ASSUME NEW c \in Calls, MpSendNetBufferLists(c) PROVE RingTyped'
  BY <1>1, <1>2, <1>3 DEF MpSendNetBufferLists, SendCheckStatus, SendAllocBD, SendQueue, SendCount,
     SendDiscard, SendKick
<1>4. CASE MacSends
  <2>1. R' = [R EXCEPT ![mac] = FALSE] /\ UNCHANGED pMpBD
    BY <1>4 DEF MacSends
  <2>2. R' \in [Slots -> BOOLEAN]
    BY <2>1, Zenon DEF RingTyped
  <2> QED
    BY <2>1, <2>2 DEF RingTyped
<1>5. CASE MpHandleTxInterrupt
  <2>1. /\ \E n : pMpBD' = [i \in Slots |-> IF (i - Tx_EnetPendingBDIdx) % Ring < n THEN NULL ELSE pMpBD[i]]
        /\ UNCHANGED R
    BY <1>5 DEF MpHandleTxInterrupt
  <2> QED
    BY <2>1 DEF RingTyped
<1>6. CASE DpcKicks
  BY <1>2, <1>6 DEF DpcKicks
<1>7. CASE SmStart \/ SmStartUp
  BY <1>7, Zenon DEF SmStart, SmStartUp, EnetStart, MpTxInit, RingTyped
<1>8. CASE \/ EnetIsr \/ EnetDpcReadEvents \/ DpcUnwinds \/ EnetDpcEnables
           \/ SmStop \/ MpTxCancelAll \/ SmUnwinds \/ MpCancelSendNetBufferLists \/ CancelUnwinds
  BY <1>1, <1>8 DEF EnetIsr, EnetDpcReadEvents, DpcUnwinds, EnetDpcEnables, SmStop, EnetStop,
     MpTxCancelAll, SmUnwinds, MpCancelSendNetBufferLists, CancelUnwinds
<1>9. CASE UNCHANGED vars
  BY <1>1, <1>9 DEF vars
<1> QED
  BY <1>3, <1>4, <1>5, <1>6, <1>7, <1>8, <1>9 DEF Next, EnetDpc, Sm

LEMMA ListsPreserved ==
    ASSUME IndicesTyped, RingTyped, ListsTyped, [Next]_vars
    PROVE  ListsTyped'
<1> USE DEF queueVars, dpcVars, smVars
<1>0. /\ Tx_qMpOwnedBDs \in Seq(Frames) /\ Tx_qDmaOwnedBDs \in Seq(Frames)
      /\ dpcList \in Seq(Frames) /\ smList \in Seq(Frames) /\ idList \in Seq(Frames)
  BY DEF IndicesTyped, ListsTyped
<1>1. ASSUME UNCHANGED <<Tx_qDmaOwnedBDs, dpcList, smList, idList, sm>> PROVE ListsTyped'
  BY <1>1 DEF ListsTyped
<1>2. ASSUME MpSendNextNB, UNCHANGED <<dpcList, smList, idList, sm>> PROVE ListsTyped'
  <2>1. PICK n \in 0..Len(Tx_qMpOwnedBDs) :
           Tx_qDmaOwnedBDs' = Tx_qDmaOwnedBDs \o SubSeq(Tx_qMpOwnedBDs, 1, n)
    BY <1>2, SendNextNB
  <2>2. Tx_qDmaOwnedBDs' \in Seq(Frames)
    BY <1>0, <2>1, SplitList, JoinLists
  <2> QED
    BY <1>2, <2>2 DEF ListsTyped
<1>3. ASSUME NEW c \in Calls, MpSendNetBufferLists(c) PROVE ListsTyped'
  BY <1>1, <1>2, <1>3 DEF MpSendNetBufferLists, SendCheckStatus, SendAllocBD, SendQueue, SendCount,
     SendDiscard, SendKick
<1>4. CASE MpHandleTxInterrupt
  <2> DEFINE n == Reclaimable
  <2>1. n \in Nat
    BY ReclaimableProperties DEF IndicesTyped
  <2>2. /\ dpcList' = [j \in 1..n |-> pMpBD[(Tx_EnetPendingBDIdx + j - 1) % Ring]]
        /\ Tx_qDmaOwnedBDs' = SubSeq(Tx_qDmaOwnedBDs, n + 1, Len(Tx_qDmaOwnedBDs))
        /\ UNCHANGED <<smList, idList, sm>>
    BY <1>4 DEF MpHandleTxInterrupt
  <2>3. dpcList' \in Seq(Frames)
    BY <2>2, ReclaimedTyped
  <2> HIDE DEF n
  <2>4. Tx_qDmaOwnedBDs' \in Seq(Frames)
    BY <1>0, <2>1, <2>2
  <2> QED
    BY <2>2, <2>3, <2>4 DEF ListsTyped
<1>5. CASE DpcUnwinds
  BY <1>0, <1>5 DEF DpcUnwinds, ListsTyped
<1>6. CASE DpcKicks
  BY <1>2, <1>6 DEF DpcKicks
<1>7. CASE SmStop \/ SmStart \/ SmStartUp
  BY <1>7 DEF SmStop, EnetStop, SmStart, SmStartUp, EnetStart, ListsTyped
<1>8. CASE MpTxCancelAll
  <2>1. Tx_qDmaOwnedBDs \o Tx_qMpOwnedBDs \in Seq(Frames) /\ <<>> \in Seq(Frames)
    BY <1>0, JoinLists, EmptySeq
  <2> QED
    BY <1>0, <1>8, <2>1 DEF MpTxCancelAll, ListsTyped
<1>9. CASE SmUnwinds
  <2>1. /\ sm = "unwind" /\ smList # <<>> /\ smList' = Tail(smList)
        /\ sm' = "unwind" => Len(smList) > 1
        /\ UNCHANGED <<Tx_qDmaOwnedBDs, dpcList, idList>>
    BY <1>9 DEF SmUnwinds, ListsTyped
  <2>2. Tail(smList) \in Seq(Frames) /\ Len(Tail(smList)) = Len(smList) - 1 /\ Len(smList) \in Nat
    BY <1>0, <2>1, TakeFirst, LenProperties
  <2>3. ASSUME sm' = "unwind" PROVE smList' # <<>>
    <3>1. Len(smList) > 1 /\ Len(smList) \in Nat
      BY <2>1, <2>2, <2>3
    <3>2. Len(smList) - 1 # 0
      <4>1. \A n \in Nat : n > 1 => n - 1 # 0
        OBVIOUS
      <4> QED
        BY <3>1, <4>1, Zenon
    <3>3. Len(Tail(smList)) # 0
      BY <2>2, <3>2, Zenon
    <3> QED
      BY <2>1, <3>3, EmptySeq, Zenon
  <2> QED
    BY <2>1, <2>2, <2>3 DEF ListsTyped
<1>10. CASE MpCancelSendNetBufferLists
  <2>1. Matching \subseteq 1..Len(Tx_qMpOwnedBDs)
    BY <1>0, LenProperties DEF Matching
  <2>2. idList' \in Seq(Frames)
    BY <1>0, <1>10, <2>1, FramesAtProperties DEF MpCancelSendNetBufferLists
  <2> QED
    BY <1>10, <2>2 DEF MpCancelSendNetBufferLists, ListsTyped
<1>11. CASE CancelUnwinds
  BY <1>0, <1>11 DEF CancelUnwinds, ListsTyped
<1>12. CASE MacSends \/ EnetIsr \/ EnetDpcReadEvents \/ EnetDpcEnables
  BY <1>1, <1>12 DEF MacSends, EnetIsr, EnetDpcReadEvents, EnetDpcEnables
<1>13. CASE UNCHANGED vars
  BY <1>1, <1>13 DEF vars
<1> QED
  BY <1>3, <1>4, <1>5, <1>6, <1>7, <1>8, <1>9, <1>10, <1>11, <1>12, <1>13 DEF Next, EnetDpc, Sm

\* The types hold throughout, whatever stops the MAC.
LEMMA TypesCorrect == Spec => []TxTyped
<1>1. Init => TxTyped
  <2> SUFFICES ASSUME Init PROVE TxTyped
    OBVIOUS
  <2>1. 0 \in Slots /\ 0 \in 0..MaxStops
    BY DEF Slots
  <2>2. IndicesTyped /\ ListsTyped
    BY <2>1, EmptySeq DEF Init, IndicesTyped, ListsTyped
  <2>3. RingTyped
    BY DEF Init, RingTyped
  <2>4. CountersTyped
    BY DEF Init, CountersTyped
  <2>5. StateTyped
    BY <2>1, Zenon DEF Init, StateTyped
  <2> QED
    BY <2>2, <2>3, <2>4, <2>5 DEF TxTyped
<1>2. CallsTyped /\ TxTyped /\ [Next]_vars => TxTyped'
  BY IndicesPreserved, ListsPreserved, RingTypesPreserved, CountersPreserved, StatePreserved DEF TxTyped
<1> QED
  BY <1>1, <1>2, CallsCorrect, PTL DEF Spec

-----------------------------------------------------------------------------
(* The ring of an adapter that is stopped only when it is drained. *)

\* What RingInv says of one descriptor.
LEMMA RingSlot ==
    ASSUME RingInv, NEW i \in Slots
    PROVE  LET k == (i - Tx_EnetPendingBDIdx) % Ring IN
           IF k < Len(Tx_qDmaOwnedBDs)
           THEN pMpBD[i] = Tx_qDmaOwnedBDs[k + 1]
           ELSE pMpBD[i] = NULL /\ ~R[i]
  BY DEF RingInv

\* The ring holds no more frames than it has descriptors.
LEMMA RingFits ==
    ASSUME TxTyped, RingInv
    PROVE  Len(Tx_qDmaOwnedBDs) \in 0..Ring /\ Tx_EnetFreeBDCount \in 0..Ring
<1>1. Len(Tx_qDmaOwnedBDs) \in Nat /\ Tx_EnetFreeBDCount \in Nat
  BY LenProperties DEF TxTyped, ListsTyped, IndicesTyped
<1> QED
  BY <1>1 DEF RingInv

\* MpHandleTxInterrupt takes the oldest frames of Tx_qDmaOwnedBDs, in their order,
\* and stops at the first descriptor that is free or ready.
LEMMA ReclaimEffect ==
    ASSUME TxTyped, RingInv
    PROVE  /\ Reclaimable \in 0..Len(Tx_qDmaOwnedBDs)
           /\ [j \in 1..Reclaimable |-> pMpBD[(Tx_EnetPendingBDIdx + j - 1) % Ring]]
                 = SubSeq(Tx_qDmaOwnedBDs, 1, Reclaimable)
           /\ \A i \in Slots : (i - Tx_EnetPendingBDIdx) % Ring < Reclaimable => ~R[i]
<1> DEFINE n == Reclaimable
           p == Tx_EnetPendingBDIdx
           d == Tx_qDmaOwnedBDs
<1>0. /\ p \in Slots /\ d \in Seq(Frames) /\ Len(d) \in 0..Ring /\ NULL \notin Frames
      /\ Ring \in Nat \ {0} /\ Slots = 0..Ring - 1
  BY RingFits DEF TxTyped, IndicesTyped, ListsTyped, Slots
<1>1. /\ n \in 0..Ring
      /\ \A k \in 0..n - 1 : pMpBD[(p + k) % Ring] # NULL /\ ~R[(p + k) % Ring]
  BY ReclaimableProperties DEF TxTyped, IndicesTyped
<1>2. \A i \in Slots : LET k == (i - p) % Ring IN
         IF k < Len(d) THEN pMpBD[i] = d[k + 1] ELSE pMpBD[i] = NULL /\ ~R[i]
  BY RingSlot
<1> HIDE DEF n, p, d
<1>3. ASSUME NEW k \in 0..n - 1 PROVE k < Len(d) /\ pMpBD[(p + k) % Ring] = d[k + 1]
  <2> DEFINE i == (p + k) % Ring
  <2>1. k \in 0..Ring - 1 /\ k \in 0..Ring
    BY <1>1
  <2>2. i \in Slots /\ (i - p) % Ring = k
    BY <1>0, <2>1, SlotPlus, PlaceAt
  <2>3. pMpBD[i] # NULL
    BY <1>1
  <2> HIDE DEF i
  <2>4. IF k < Len(d) THEN pMpBD[i] = d[k + 1] ELSE pMpBD[i] = NULL
    BY <1>2, <2>2
  <2>5. k < Len(d) /\ pMpBD[i] = d[k + 1]
    BY <2>3, <2>4
  <2> QED
    BY <2>5 DEF i
<1>4. n \in 0..Len(d)
  <2>1. CASE n = 0
    BY <1>0, <2>1
  <2>2. CASE n # 0
    <3>1. n - 1 \in 0..n - 1
      BY <1>1, <2>2
    <3>2. n - 1 < Len(d)
      BY <1>3, <3>1
    <3> QED
      BY <1>0, <1>1, <3>2
  <2> QED
    BY <2>1, <2>2
<1>5. [j \in 1..n |-> pMpBD[(p + j - 1) % Ring]] = SubSeq(d, 1, n)
  <2>1. /\ SubSeq(d, 1, n) = [j \in 1..n |-> SubSeq(d, 1, n)[j]]
        /\ \A j \in 1..n : SubSeq(d, 1, n)[j] = d[j]
    BY <1>0, <1>4
  <2>2. ASSUME NEW j \in 1..n PROVE pMpBD[(p + j - 1) % Ring] = d[j]
    <3>1. j - 1 \in 0..n - 1 /\ p + j - 1 = p + (j - 1) /\ (j - 1) + 1 = j
      BY <1>0, <1>1
    <3> QED
      BY <1>3, <3>1
  <2> QED
    BY <2>1, <2>2
<1>6. ASSUME NEW i \in Slots, (i - p) % Ring < n PROVE ~R[i]
  <2> DEFINE k == (i - p) % Ring
  <2>1. k \in 0..Ring - 1 /\ (p + k) % Ring = i
    BY <1>0, PlaceOf, PlacesBetween
  <2>2. k < n
    BY <1>6
  <2> HIDE DEF k
  <2>3. k \in 0..n - 1
    BY <1>1, <2>1, <2>2
  <2> QED
    BY <1>1, <2>1, <2>3
<1> QED
  BY <1>4, <1>5, <1>6 DEF n, p, d

\* MpHandleTxInterrupt keeps ring and queue together.
LEMMA RingReclaim ==
    ASSUME TxTyped, RingInv, MpHandleTxInterrupt
    PROVE  RingInv'
<1> DEFINE n == Reclaimable
           p == Tx_EnetPendingBDIdx
           d == Tx_qDmaOwnedBDs
           p1 == (p + n) % Ring
<1>0. /\ p \in 0..Ring - 1 /\ d \in Seq(Frames) /\ Len(d) \in 0..Ring /\ Tx_EnetFreeBDCount \in 0..Ring
      /\ Ring \in Nat \ {0} /\ Slots = 0..Ring - 1
  BY RingFits DEF TxTyped, IndicesTyped, ListsTyped, Slots
<1>1. /\ n \in 0..Len(d)
      /\ \A i \in Slots : (i - p) % Ring < n => ~R[i]
  BY ReclaimEffect
<1>2. /\ pMpBD' = [i \in Slots |-> IF (i - p) % Ring < n THEN NULL ELSE pMpBD[i]]
      /\ Tx_EnetPendingBDIdx' = p1
      /\ Tx_EnetFreeBDCount' = Tx_EnetFreeBDCount + n
      /\ Tx_qDmaOwnedBDs' = SubSeq(d, n + 1, Len(d))
      /\ UNCHANGED <<R, Tx_EnetFreeBDIdx>>
  BY DEF MpHandleTxInterrupt
<1>3. /\ \A i \in Slots : LET k == (i - p) % Ring IN
            IF k < Len(d) THEN pMpBD[i] = d[k + 1] ELSE pMpBD[i] = NULL /\ ~R[i]
      /\ Len(d) = Ring - Tx_EnetFreeBDCount
      /\ Tx_EnetFreeBDIdx = (p + Len(d)) % Ring
  BY RingSlot DEF RingInv
<1>4. n \in 0..Ring /\ n \in Nat /\ Len(d) - n \in 0..Ring /\ n + (Len(d) - n) = Len(d)
  BY <1>0, <1>1
<1> HIDE DEF n, p, d
<1>5. /\ Len(Tx_qDmaOwnedBDs') = Len(d) - n
      /\ \A j \in 1..(Len(d) - n) : Tx_qDmaOwnedBDs'[j] = d[n + j]
  <2>1. Len(SubSeq(d, n + 1, Len(d))) = Len(d) - n
    BY <1>0, <1>1, SplitList
  <2>2. \A j \in 1..(Len(d) - n) : SubSeq(d, n + 1, Len(d))[j] = d[n + j]
    BY <1>0, <1>1
  <2> QED
    BY <1>2, <2>1, <2>2
<1>6. Len(Tx_qDmaOwnedBDs') = Ring - Tx_EnetFreeBDCount'
  BY <1>0, <1>2, <1>3, <1>4, <1>5
<1>7. Tx_EnetFreeBDIdx' = (p1 + (Len(d) - n)) % Ring
  <2>1. (p1 + (Len(d) - n)) % Ring = (p + (n + (Len(d) - n))) % Ring
    <3>1. n + (Len(d) - n) <= Ring
      BY <1>0, <1>4
    <3> QED
      BY <1>0, <1>4, <3>1, PlacesAdd
  <2> QED
    BY <1>2, <1>3, <1>4, <2>1
<1>8. ASSUME NEW i \in Slots
      PROVE  LET k == (i - p1) % Ring IN
             IF k < Len(d) - n THEN pMpBD'[i] = Tx_qDmaOwnedBDs'[k + 1] ELSE pMpBD'[i] = NULL /\ ~R'[i]
  <2> DEFINE k == (i - p) % Ring
             k1 == (i - p1) % Ring
  <2>1. k1 = IF k >= n THEN k - n ELSE k - n + Ring
    BY <1>0, <1>4, PlacesShift
  <2>2. k \in 0..Ring - 1
    BY <1>0, PlacesBetween
  <2>3. /\ IF k < Len(d) THEN pMpBD[i] = d[k + 1] ELSE pMpBD[i] = NULL /\ ~R[i]
        /\ k < n => ~R[i]
        /\ pMpBD'[i] = IF k < n THEN NULL ELSE pMpBD[i]
        /\ R'[i] = R[i]
    BY <1>1, <1>2, <1>3
  <2> HIDE DEF k, k1, p1
  <2>4. CASE k < n
    <3>1. ~(k1 < Len(d) - n)
      BY <1>0, <1>4, <2>1, <2>2, <2>4
    <3> QED
      BY <2>3, <2>4, <3>1 DEF k1
  <2>5. CASE ~(k < n) /\ k < Len(d)
    <3>1. k1 < Len(d) - n /\ k1 + 1 \in 1..(Len(d) - n) /\ n + (k1 + 1) = k + 1
      BY <1>0, <1>4, <2>1, <2>2, <2>5
    <3>2. Tx_qDmaOwnedBDs'[k1 + 1] = d[k + 1]
      BY <1>5, <3>1
    <3> QED
      BY <2>3, <2>5, <3>1, <3>2 DEF k1
  <2>6. CASE ~(k < n) /\ ~(k < Len(d))
    <3>1. ~(k1 < Len(d) - n)
      BY <1>0, <1>4, <2>1, <2>2, <2>6
    <3> QED
      BY <2>3, <2>6, <3>1 DEF k1
  <2> QED
    BY <2>4, <2>5, <2>6
<1> HIDE DEF p1
<1> QED
  BY <1>2, <1>5, <1>6, <1>7, <1>8 DEF RingInv

\* So does MpSendNextNB.
LEMMA RingKick ==
    ASSUME TxTyped, RingInv, MpSendNextNB
    PROVE  RingInv'
<1> DEFINE q == Tx_qMpOwnedBDs
           p == Tx_EnetPendingBDIdx
           d == Tx_qDmaOwnedBDs
           fr == Tx_EnetFreeBDIdx
<1>0. /\ p \in 0..Ring - 1 /\ d \in Seq(Frames) /\ Len(d) \in 0..Ring /\ Tx_EnetFreeBDCount \in 0..Ring
      /\ Ring \in Nat \ {0} /\ Slots = 0..Ring - 1 /\ q \in Seq(Frames) /\ Len(q) \in Nat
  BY RingFits, LenProperties DEF TxTyped, IndicesTyped, ListsTyped, Slots
<1>1. PICK n \in 0..Len(q) :
         /\ n <= Tx_EnetFreeBDCount
         /\ Tx_qDmaOwnedBDs' = d \o SubSeq(q, 1, n)
         /\ pMpBD' = [i \in Slots |-> IF (i - fr) % Ring < n THEN q[((i - fr) % Ring) + 1] ELSE pMpBD[i]]
         /\ R' = [i \in Slots |-> (i - fr) % Ring < n \/ R[i]]
         /\ Tx_EnetFreeBDIdx' = (fr + n) % Ring
         /\ Tx_EnetFreeBDCount' = Tx_EnetFreeBDCount - n
         /\ Tx_EnetPendingBDIdx' = p
  BY SendNextNB DEF TxTyped
<1>2. /\ \A i \in Slots : LET k == (i - p) % Ring IN
            IF k < Len(d) THEN pMpBD[i] = d[k + 1] ELSE pMpBD[i] = NULL /\ ~R[i]
      /\ Len(d) = Ring - Tx_EnetFreeBDCount
      /\ fr = (p + Len(d)) % Ring
  BY RingSlot DEF RingInv
<1>3. n \in 0..Ring /\ n \in Nat /\ Len(d) \in Nat /\ Len(d) + n \in Nat /\ Len(d) + n <= Ring
  BY <1>0, <1>1, <1>2
<1> HIDE DEF q, p, d, fr
<1>4. /\ Len(Tx_qDmaOwnedBDs') = Len(d) + n
      /\ \A j \in 1..Len(d) : Tx_qDmaOwnedBDs'[j] = d[j]
      /\ \A j \in 1..n : Tx_qDmaOwnedBDs'[Len(d) + j] = q[j]
  <2> DEFINE s == SubSeq(q, 1, n)
  <2>1. s \in Seq(Frames) /\ Len(s) = n /\ \A j \in 1..n : s[j] = q[j]
    BY <1>0
  <2> HIDE DEF s
  <2>2. /\ Len(d \o s) = Len(d) + n
        /\ \A i \in 1..Len(d) + n : (d \o s)[i] = IF i <= Len(d) THEN d[i] ELSE s[i - Len(d)]
    <3>1. /\ Len(d \o s) = Len(d) + Len(s)
          /\ \A i \in 1..Len(d) + Len(s) : (d \o s)[i] = IF i <= Len(d) THEN d[i] ELSE s[i - Len(d)]
      <4>1. d \in Seq(Frames) /\ s \in Seq(Frames)
        BY <1>0, <2>1
      <4> QED
        BY <4>1, ConcatProperties
    <3> QED
      BY <2>1, <3>1
  <2>3. \A j \in 1..Len(d) : j \in 1..Len(d) + n /\ j <= Len(d)
    BY <1>3
  <2>4. \A j \in 1..n : Len(d) + j \in 1..Len(d) + n /\ ~(Len(d) + j <= Len(d)) /\ (Len(d) + j) - Len(d) = j
    BY <1>3
  <2> QED
    BY <1>1, <2>1, <2>2, <2>3, <2>4 DEF s
<1>5. Len(Tx_qDmaOwnedBDs') = Ring - Tx_EnetFreeBDCount'
  BY <1>0, <1>1, <1>2, <1>3, <1>4
<1>6. Tx_EnetFreeBDIdx' = (p + (Len(d) + n)) % Ring
  BY <1>0, <1>1, <1>2, <1>3, PlacesAdd
<1>7. ASSUME NEW i \in Slots
      PROVE  LET k == (i - p) % Ring IN
             IF k < Len(d) + n THEN pMpBD'[i] = Tx_qDmaOwnedBDs'[k + 1] ELSE pMpBD'[i] = NULL /\ ~R'[i]
  <2> DEFINE k == (i - p) % Ring
             k1 == (i - fr) % Ring
  <2>1. k1 = IF k >= Len(d) THEN k - Len(d) ELSE k - Len(d) + Ring
    BY <1>0, <1>2, PlacesShift
  <2>2. k \in 0..Ring - 1
    BY <1>0, PlacesBetween
  <2>3. /\ IF k < Len(d) THEN pMpBD[i] = d[k + 1] ELSE pMpBD[i] = NULL /\ ~R[i]
        /\ pMpBD'[i] = IF k1 < n THEN q[k1 + 1] ELSE pMpBD[i]
    BY <1>1, <1>2
  <2>4. R'[i] <=> k1 < n \/ R[i]
    BY <1>1, Zenon
  <2> HIDE DEF k, k1
  <2>5. CASE k < Len(d)
    <3>1. ~(k1 < n) /\ k < Len(d) + n /\ k + 1 \in 1..Len(d)
      BY <1>3, <2>1, <2>2, <2>5
    <3> QED
      BY <1>4, <2>3, <2>5, <3>1 DEF k
  <2>6. CASE ~(k < Len(d)) /\ k1 < n
    <3>1. k < Len(d) + n /\ k1 + 1 \in 1..n /\ Len(d) + (k1 + 1) = k + 1
      BY <1>3, <2>1, <2>2, <2>6
    <3> QED
      BY <1>4, <2>3, <2>6, <3>1 DEF k
  <2>7. CASE ~(k < Len(d)) /\ ~(k1 < n)
    <3>1. ~(k < Len(d) + n)
      BY <1>3, <2>1, <2>2, <2>7
    <3> QED
      BY <2>3, <2>4, <2>7, <3>1 DEF k
  <2> QED
    BY <2>5, <2>6, <2>7
<1> QED
  BY <1>1, <1>4, <1>5, <1>6, <1>7 DEF RingInv

\* What the state machine does under DrainedStops: it stops an adapter that has
\* nothing, cancels nothing and starts it again.
LEMMA DrainedSm ==
    ASSUME DrainedStops, StopInv, Sm
    PROVE  \/ AllGivenBack /\ EnetStop("drained", "PAUSED")
           \/ SmStart
           \/ MpTxCancelAll
<1>1. ~SmStartUp /\ ~EnetStop("reset", "PAUSED") /\ ~EnetStop("unplug", "MEDIA_DISCONNECTED")
  BY DEF DrainedStops, SmStartUp, EnetStop
<1>2. ~SmUnwinds
  BY DEF StopInv, SmUnwinds
<1> QED
  BY <1>1, <1>2 DEF Sm, SmStop

\* Ring and queue stay together.
LEMMA RingPreserved ==
    ASSUME DrainedStops, TxTyped, RingInv, StopInv, [Next]_vars
    PROVE  RingInv'
<1> USE DEF ringVars, queueVars
<1>1. ASSUME UNCHANGED <<Tx_qDmaOwnedBDs, ringVars>> PROVE RingInv'
  BY <1>1 DEF RingInv
<1>2. ASSUME NEW c \in Calls, MpSendNetBufferLists(c) PROVE RingInv'
  <2>1. CASE SendKick(c)
    BY <2>1, RingKick DEF SendKick
  <2>2. CASE SendCheckStatus(c) \/ SendAllocBD(c) \/ SendQueue(c) \/ SendCount(c) \/ SendDiscard(c)
    BY <1>1, <2>2 DEF SendCheckStatus, SendAllocBD, SendQueue, SendCount, SendDiscard
  <2> QED
    BY <1>2, <2>1, <2>2 DEF MpSendNetBufferLists
<1>3. CASE MacSends
  <2>1. /\ UNCHANGED <<Tx_qDmaOwnedBDs, pMpBD, Tx_EnetFreeBDIdx, Tx_EnetPendingBDIdx, Tx_EnetFreeBDCount>>
        /\ R' = [R EXCEPT ![mac] = FALSE]
    BY <1>3 DEF MacSends
  <2>2. \A i \in Slots : ~R[i] => ~R'[i]
    BY <2>1, Zenon DEF TxTyped, RingTyped
  <2> QED
    BY <2>1, <2>2 DEF RingInv
<1>4. CASE MpHandleTxInterrupt
  BY <1>4, RingReclaim
<1>5. CASE DpcKicks
  BY <1>5, RingKick DEF DpcKicks
<1>6. CASE Sm
  <2>1. CASE EnetStop("drained", "PAUSED")
    BY <1>1, <2>1 DEF EnetStop
  <2>2. CASE SmStart
    <3>1. Tx_qDmaOwnedBDs = <<>> /\ Tx_qDmaOwnedBDs' = <<>>
      BY <2>2 DEF SmStart, EnetStart, StopInv
    <3>2. /\ Tx_EnetFreeBDCount' = Ring /\ Tx_EnetFreeBDIdx' = 0 /\ Tx_EnetPendingBDIdx' = 0
          /\ R' = [i \in Slots |-> FALSE] /\ UNCHANGED pMpBD
      BY <2>2 DEF SmStart, EnetStart, MpTxInit
    <3>3. Len(Tx_qDmaOwnedBDs) = 0 /\ Len(Tx_qDmaOwnedBDs') = 0
      BY <3>1, EmptySeq
    <3>4. ASSUME NEW i \in Slots PROVE pMpBD[i] = NULL
      <4>1. ~((i - Tx_EnetPendingBDIdx) % Ring < 0)
        BY SlotMinus DEF TxTyped, IndicesTyped, Slots
      <4> QED
        BY <3>3, <4>1, RingSlot
    <3>5. \A i \in Slots : pMpBD'[i] = NULL /\ ~R'[i]
      BY <3>2, <3>4, Zenon
    <3>6. \A i \in Slots : ~((i - 0) % Ring < 0)
      BY DEF Slots
    <3>7. Len(Tx_qDmaOwnedBDs') = Ring - Tx_EnetFreeBDCount'
      BY <3>2, <3>3
    <3>8. Tx_EnetFreeBDIdx' = (Tx_EnetPendingBDIdx' + Len(Tx_qDmaOwnedBDs')) % Ring
      BY <3>2, <3>3
    <3> QED
      BY <3>2, <3>3, <3>5, <3>6, <3>7, <3>8 DEF RingInv
  <2>3. CASE MpTxCancelAll
    <3>1. UNCHANGED <<Tx_qDmaOwnedBDs, ringVars>>
      BY <2>3 DEF MpTxCancelAll, StopInv
    <3> QED
      BY <1>1, <3>1
  <2> QED
    BY <1>6, <2>1, <2>2, <2>3, DrainedSm
<1>7. CASE \/ EnetIsr \/ EnetDpcReadEvents \/ DpcUnwinds \/ EnetDpcEnables
           \/ MpCancelSendNetBufferLists \/ CancelUnwinds
  BY <1>1, <1>7 DEF EnetIsr, EnetDpcReadEvents, DpcUnwinds, EnetDpcEnables,
     MpCancelSendNetBufferLists, CancelUnwinds
<1>8. CASE UNCHANGED vars
  BY <1>1, <1>8 DEF vars
<1> QED
  BY <1>2, <1>3, <1>4, <1>5, <1>6, <1>7, <1>8 DEF Next, EnetDpc

\* A kick has nothing to move when the queue is empty.
LEMMA EmptyKick ==
    ASSUME TxTyped, MpSendNextNB, Tx_qMpOwnedBDs = <<>>, Tx_qDmaOwnedBDs = <<>>
    PROVE  Tx_qMpOwnedBDs' = <<>> /\ Tx_qDmaOwnedBDs' = <<>>
<1>1. PICK n \in 0..Len(Tx_qMpOwnedBDs) :
         /\ Tx_qMpOwnedBDs' = SubSeq(Tx_qMpOwnedBDs, n + 1, Len(Tx_qMpOwnedBDs))
         /\ Tx_qDmaOwnedBDs' = Tx_qDmaOwnedBDs \o SubSeq(Tx_qMpOwnedBDs, 1, n)
  BY SendNextNB DEF TxTyped
<1>2. Len(Tx_qMpOwnedBDs) = 0
  BY EmptySeq
<1>3. n = 0
  BY <1>2
<1>4. SubSeq(<<>>, 1, 0) = <<>> /\ <<>> \o <<>> = <<>>
  OBVIOUS
<1> QED
  BY <1>1, <1>2, <1>3, <1>4

\* Nothing is left when nothing is counted.
LEMMA NothingHeld ==
    ASSUME TxTyped, CountInv, AllGivenBack
    PROVE  /\ Tx_qMpOwnedBDs = <<>> /\ Tx_qDmaOwnedBDs = <<>>
           /\ dpcList = <<>> /\ idList = <<>>
<1>1. Uncounted = {}
  BY DEF AllGivenBack, Uncounted
<1>2. Cardinality(Uncounted) = 0
  BY <1>1, FS_EmptySet
<1>3. /\ Len(Tx_qMpOwnedBDs) \in Nat /\ Len(Tx_qDmaOwnedBDs) \in Nat
      /\ Len(dpcList) \in Nat /\ Len(idList) \in Nat
  BY LenProperties DEF TxTyped, IndicesTyped, ListsTyped
<1>4. HeldCount = 0
  BY <1>2, <1>3 DEF CountInv, AllGivenBack, HeldCount
<1>5. /\ Len(Tx_qMpOwnedBDs) = 0 /\ Len(Tx_qDmaOwnedBDs) = 0
      /\ Len(dpcList) = 0 /\ Len(idList) = 0
  BY <1>3, <1>4 DEF HeldCount
<1> QED
  BY <1>5, EmptySeq DEF TxTyped, IndicesTyped, ListsTyped

\* A stopped MAC has nothing: every step.
LEMMA StopPreserved ==
    ASSUME DrainedStops, CallsTyped, TxTyped, RingInv, StopInv, CountInv, [Next]_vars
    PROVE  StopInv'
<1> USE DEF queueVars, countVars, dpcVars, smVars
<1>1. ASSUME sm = "up", UNCHANGED <<sm, smList, NdisStatus>> PROVE StopInv'
  BY <1>1 DEF StopInv
<1>2. ASSUME UNCHANGED <<sm, smList, NdisStatus, Tx_PendingNBs, send, queueVars, dpcList, idList>>
      PROVE  StopInv'
  BY <1>2 DEF StopInv
<1>3. CASE Sm
  <2>1. CASE AllGivenBack /\ EnetStop("drained", "PAUSED")
    <3>1. /\ sm' = "cancel" /\ NdisStatus' = "PAUSED"
          /\ UNCHANGED <<smList, Tx_PendingNBs, send, queueVars, dpcList, idList>>
      BY <2>1 DEF EnetStop
    <3>2. /\ Tx_qMpOwnedBDs = <<>> /\ Tx_qDmaOwnedBDs = <<>>
          /\ dpcList = <<>> /\ idList = <<>>
      BY <2>1, NothingHeld
    <3> QED
      BY <2>1, <3>1, <3>2 DEF StopInv, AllGivenBack
  <2>2. CASE SmStart
    BY <2>2 DEF SmStart, EnetStart, StopInv
  <2>3. CASE MpTxCancelAll
    <3>1. /\ sm # "up" /\ NdisStatus = "PAUSED" /\ Tx_PendingNBs = 0
          /\ Tx_qMpOwnedBDs = <<>> /\ Tx_qDmaOwnedBDs = <<>> /\ dpcList = <<>> /\ idList = <<>>
          /\ \A c \in Calls : send[c].pc \in {"idle", "done"}
      BY <2>3 DEF MpTxCancelAll, StopInv
    <3>2. <<>> \o <<>> = <<>>
      OBVIOUS
    <3>3. smList' = <<>> /\ sm' = "down" /\ Tx_qMpOwnedBDs' = <<>> /\ Tx_qDmaOwnedBDs' = <<>>
          /\ UNCHANGED <<NdisStatus, Tx_PendingNBs, send, dpcList, idList>>
      BY <2>3, <3>1, <3>2 DEF MpTxCancelAll
    <3> QED
      BY <3>1, <3>3 DEF StopInv
  <2> QED
    BY <1>3, <2>1, <2>2, <2>3, DrainedSm
<1>4. CASE sm = "up" /\ ~Sm
  <2>1. ASSUME NEW c \in Calls, MpSendNetBufferLists(c) PROVE UNCHANGED <<sm, smList, NdisStatus>>
    BY <2>1 DEF MpSendNetBufferLists, SendCheckStatus, SendAllocBD, SendQueue, SendCount,
       SendDiscard, SendKick
  <2>2. CASE \/ MacSends \/ EnetIsr \/ EnetDpcReadEvents \/ MpHandleTxInterrupt \/ DpcUnwinds
             \/ DpcKicks \/ EnetDpcEnables \/ MpCancelSendNetBufferLists \/ CancelUnwinds
    <3>1. UNCHANGED <<sm, smList, NdisStatus>>
      BY <2>2 DEF MacSends, EnetIsr, EnetDpcReadEvents, MpHandleTxInterrupt, DpcUnwinds,
         DpcKicks, EnetDpcEnables, MpCancelSendNetBufferLists, CancelUnwinds
    <3> QED
      BY <1>1, <1>4, <3>1
  <2>3. CASE UNCHANGED vars
    BY <1>2, <2>3 DEF vars
  <2> QED
    BY <1>1, <1>4, <2>1, <2>2, <2>3 DEF Next, EnetDpc
<1>5. CASE sm # "up" /\ ~Sm
  <2>0. /\ NdisStatus = "PAUSED" /\ Tx_PendingNBs = 0
        /\ Tx_qMpOwnedBDs = <<>> /\ Tx_qDmaOwnedBDs = <<>> /\ dpcList = <<>> /\ idList = <<>>
        /\ \A c \in Calls : send[c].pc \in {"idle", "done"}
    BY <1>5 DEF StopInv
  <2>1. ASSUME NEW c \in Calls, MpSendNetBufferLists(c) PROVE StopInv'
    <3>1. SendCheckStatus(c)
      BY <2>0, <2>1 DEF MpSendNetBufferLists, SendAllocBD, SendQueue, SendCount, SendDiscard, SendKick
    <3>2. /\ send' = [send EXCEPT ![c] = [send[c] EXCEPT !.pc = "done"]]
          /\ UNCHANGED <<sm, smList, NdisStatus, Tx_PendingNBs, queueVars, dpcList, idList>>
      BY <2>0, <3>1 DEF SendCheckStatus
    <3>3. \A e \in Calls : send'[e].pc \in {"idle", "done"}
      BY <2>0, <3>2 DEF CallsTyped, CallState
    <3> QED
      BY <3>2, <3>3 DEF StopInv
  <2>2. CASE MpHandleTxInterrupt
    <3>1. Reclaimable \in 0..Len(Tx_qDmaOwnedBDs)
      BY ReclaimEffect
    <3>2. Reclaimable = 0
      BY <2>0, <3>1, EmptySeq
    <3>3. /\ dpcList' = [j \in 1..0 |-> pMpBD[(Tx_EnetPendingBDIdx + j - 1) % Ring]]
          /\ Tx_qDmaOwnedBDs' = SubSeq(Tx_qDmaOwnedBDs, 0 + 1, Len(Tx_qDmaOwnedBDs))
          /\ UNCHANGED <<sm, smList, NdisStatus, Tx_PendingNBs, send, Tx_qMpOwnedBDs, idList>>
      BY <2>2, <3>2 DEF MpHandleTxInterrupt
    <3>4. dpcList' = <<>> /\ Tx_qDmaOwnedBDs' = <<>>
      BY <2>0, <3>3
    <3> QED
      BY <2>0, <3>3, <3>4 DEF StopInv
  <2>3. CASE DpcKicks
    <3>1. Tx_qMpOwnedBDs' = <<>> /\ Tx_qDmaOwnedBDs' = <<>>
      BY <2>0, <2>3, EmptyKick DEF DpcKicks
    <3>2. UNCHANGED <<sm, smList, NdisStatus, Tx_PendingNBs, send, dpcList, idList>>
      BY <2>3 DEF DpcKicks
    <3> QED
      BY <2>0, <3>1, <3>2 DEF StopInv
  <2>4. CASE MpCancelSendNetBufferLists
    <3>1. DOMAIN Tx_qMpOwnedBDs = {} /\ Matching = {}
      BY <2>0 DEF Matching
    <3>2. Len(FramesAt(<<>>, {})) = 0 /\ FramesAt(<<>>, {}) \in Seq(Frames)
      <4>1. <<>> \in Seq(Frames) /\ {} \subseteq 1..Len(<<>>)
        BY EmptySeq
      <4> QED
        BY <4>1, FramesAtProperties, FS_EmptySet
    <3>3. FramesAt(<<>>, {}) = <<>>
      BY <3>2, EmptySeq
    <3>4. Tx_qMpOwnedBDs' = <<>> /\ idList' = <<>>
      BY <2>0, <2>4, <3>1, <3>3 DEF MpCancelSendNetBufferLists
    <3>5. UNCHANGED <<sm, smList, NdisStatus, Tx_PendingNBs, send, Tx_qDmaOwnedBDs, dpcList>>
      BY <2>4 DEF MpCancelSendNetBufferLists
    <3> QED
      BY <2>0, <3>4, <3>5 DEF StopInv
  <2>5. CASE MacSends \/ EnetIsr \/ EnetDpcReadEvents \/ EnetDpcEnables
    BY <1>2, <2>5 DEF MacSends, EnetIsr, EnetDpcReadEvents, EnetDpcEnables
  <2>6. ~DpcUnwinds /\ ~CancelUnwinds
    BY <2>0 DEF DpcUnwinds, CancelUnwinds
  <2>7. CASE UNCHANGED vars
    BY <1>2, <2>7 DEF vars
  <2> QED
    BY <1>5, <2>1, <2>2, <2>3, <2>4, <2>5, <2>6, <2>7 DEF Next, EnetDpc
<1> QED
  BY <1>3, <1>4, <1>5

LEMMA DpcPreserved == DpcInv /\ [Next]_vars => DpcInv'
<1> SUFFICES ASSUME DpcInv, [Next]_vars PROVE DpcInv'
  OBVIOUS
<1> USE DEF DpcInv, dpcVars
<1>1. ASSUME NEW c \in Calls, MpSendNetBufferLists(c) PROVE DpcInv'
  BY <1>1 DEF MpSendNetBufferLists, SendCheckStatus, SendAllocBD, SendQueue, SendCount,
     SendDiscard, SendKick
<1>2. CASE MacSends \/ EnetIsr \/ EnetDpc
  BY <1>2 DEF MacSends, EnetIsr, EnetDpc, EnetDpcReadEvents, MpHandleTxInterrupt, DpcUnwinds,
     DpcKicks, EnetDpcEnables
<1>3. CASE Sm \/ MpCancelSendNetBufferLists \/ CancelUnwinds
  BY <1>3 DEF Sm, SmStop, EnetStop, SmStart, SmStartUp, EnetStart, MpTxCancelAll, SmUnwinds,
     MpCancelSendNetBufferLists, CancelUnwinds
<1>4. CASE UNCHANGED vars
  BY <1>4 DEF vars
<1> QED
  BY <1>1, <1>2, <1>3, <1>4 DEF Next

\* How the step of one call changes the number of calls that have not counted
\* their frame.
LEMMA UncountedMoves ==
    ASSUME DrainedStops, CallsTyped, NEW c \in Calls, NEW call, send' = [send EXCEPT ![c] = call]
    PROVE  /\ Cardinality(Uncounted) \in Nat
           /\ send[c].pc # "count" /\ call.pc # "count" => Uncounted' = Uncounted
           /\ send[c].pc # "count" /\ call.pc = "count" =>
                 Cardinality(Uncounted') = Cardinality(Uncounted) + 1
           /\ send[c].pc = "count" /\ call.pc # "count" =>
                 Cardinality(Uncounted') = Cardinality(Uncounted) - 1
<1>1. IsFiniteSet(Uncounted)
  BY FS_Subset DEF Uncounted, DrainedStops
<1>2. send'[c] = call /\ \A e \in Calls \ {c} : send'[e] = send[e]
  BY DEF CallsTyped
<1>3. ASSUME send[c].pc # "count", call.pc # "count" PROVE Uncounted' = Uncounted
  BY <1>2, <1>3 DEF Uncounted
<1>4. ASSUME send[c].pc # "count", call.pc = "count"
      PROVE  Cardinality(Uncounted') = Cardinality(Uncounted) + 1
  <2>1. Uncounted' = Uncounted \cup {c} /\ c \notin Uncounted
    BY <1>2, <1>4 DEF Uncounted
  <2> QED
    BY <1>1, <2>1, FS_AddElement
<1>5. ASSUME send[c].pc = "count", call.pc # "count"
      PROVE  Cardinality(Uncounted') = Cardinality(Uncounted) - 1
  <2>1. Uncounted' = Uncounted \ {c} /\ c \in Uncounted
    BY <1>2, <1>5 DEF Uncounted
  <2> QED
    BY <1>1, <2>1, FS_RemoveElement
<1> QED
  BY <1>1, <1>3, <1>4, <1>5, FS_CardinalityType

\* Every frame that is queued is counted once, then or soon.
LEMMA CountPreserved ==
    ASSUME DrainedStops, CallsTyped, TxTyped, RingInv, StopInv, DpcInv, CountInv, [Next]_vars
    PROVE  CountInv'
<1> USE DEF queueVars, countVars, dpcVars, smVars
<1> DEFINE q == Tx_qMpOwnedBDs
           d == Tx_qDmaOwnedBDs
<1>0. /\ q \in Seq(Frames) /\ d \in Seq(Frames) /\ dpcList \in Seq(Frames) /\ idList \in Seq(Frames)
      /\ Len(q) \in Nat /\ Len(d) \in Nat /\ Len(dpcList) \in Nat /\ Len(idList) \in Nat
      /\ Tx_PendingNBs \in Int
  BY LenProperties DEF TxTyped, IndicesTyped, ListsTyped, CountersTyped
<1>1. /\ Tx_PendingNBs = (Len(q) + Len(d) + Len(dpcList) + Len(idList)) - Cardinality(Uncounted)
      /\ Cardinality(Uncounted) \in Nat
  <2>1. IsFiniteSet(Uncounted)
    BY FS_Subset DEF Uncounted, DrainedStops
  <2> QED
    BY <2>1, FS_CardinalityType DEF CountInv, HeldCount
<1>2. ASSUME UNCHANGED send PROVE Uncounted' = Uncounted
  BY <1>2 DEF Uncounted
<1>3. ASSUME UNCHANGED <<Tx_PendingNBs, dpcList, idList>>, Uncounted' = Uncounted,
             Len(q') + Len(d') = Len(q) + Len(d), Len(q') \in Nat, Len(d') \in Nat
      PROVE  CountInv'
  BY <1>0, <1>1, <1>3 DEF CountInv, HeldCount
<1>4. ASSUME UNCHANGED <<Tx_PendingNBs, queueVars, dpcList, idList>>, Uncounted' = Uncounted
      PROVE  CountInv'
  BY <1>4 DEF CountInv, HeldCount
<1>5. ASSUME MpSendNextNB PROVE Len(q') + Len(d') = Len(q) + Len(d) /\ Len(q') \in Nat /\ Len(d') \in Nat
  <2>1. PICK n \in 0..Len(q) :
           /\ q' = SubSeq(q, n + 1, Len(q))
           /\ d' = d \o SubSeq(q, 1, n)
    BY <1>5, SendNextNB DEF TxTyped
  <2>2. Len(q') = Len(q) - n /\ n \in Nat /\ n <= Len(q)
    BY <1>0, <2>1, SplitList
  <2>3. Len(d') = Len(d) + n
    <3>1. SubSeq(q, 1, n) \in Seq(Frames) /\ Len(SubSeq(q, 1, n)) = n
      BY <1>0, <2>1, SplitList
    <3>2. Len(d \o SubSeq(q, 1, n)) = Len(d) + Len(SubSeq(q, 1, n))
      BY <1>0, <3>1, JoinLists
    <3> QED
      BY <2>1, <3>1, <3>2
  <2> HIDE DEF q, d
  <2> QED
    BY <1>0, <2>2, <2>3
<1>6. ASSUME NEW c \in Calls, MpSendNetBufferLists(c) PROVE CountInv'
  <2>1. CASE SendCheckStatus(c)
    <3>1. PICK v \in {"alloc", "done"} : send' = [send EXCEPT ![c] = [send[c] EXCEPT !.pc = v]]
      BY <2>1 DEF SendCheckStatus
    <3>2. [send[c] EXCEPT !.pc = v].pc # "count" /\ send[c].pc # "count"
      BY <2>1, <3>1 DEF SendCheckStatus, CallsTyped, CallState
    <3>3. UNCHANGED <<Tx_PendingNBs, queueVars, dpcList, idList>>
      BY <2>1 DEF SendCheckStatus
    <3> QED
      BY <1>4, <3>1, <3>2, <3>3, UncountedMoves
  <2>2. CASE SendAllocBD(c)
    <3>1. PICK v \in {"queue", "discard"}, b \in BOOLEAN :
             send' = [send EXCEPT ![c] = [send[c] EXCEPT !.pc = v, !.bd = b]]
      BY <2>2 DEF SendAllocBD, CallsTyped
    <3>2. [send[c] EXCEPT !.pc = v, !.bd = b].pc # "count" /\ send[c].pc # "count"
      BY <2>2, <3>1 DEF SendAllocBD, CallsTyped, CallState
    <3>3. UNCHANGED <<Tx_PendingNBs, queueVars, dpcList, idList>>
      BY <2>2 DEF SendAllocBD
    <3> QED
      BY <1>4, <3>1, <3>2, <3>3, UncountedMoves
  <2>3. CASE SendQueue(c)
    <3>1. UNCHANGED <<Tx_PendingNBs, d, dpcList, idList>> /\ send[c].pc = "queue"
      BY <2>3 DEF SendQueue
    <3>2. CASE /\ q' = Append(q, CurrentNB(c))
               /\ send' = [send EXCEPT ![c] = [send[c] EXCEPT !.pc = "count"]]
      <4>1. [send[c] EXCEPT !.pc = "count"].pc = "count"
        BY DEF CallsTyped, CallState
      <4>2. Cardinality(Uncounted') = Cardinality(Uncounted) + 1
        BY <3>1, <3>2, <4>1, UncountedMoves
      <4>3. Len(q') = Len(q) + 1
        BY <1>0, <3>2, Current, AppendProperties
      <4> HIDE DEF q, d
      <4>4. Tx_PendingNBs = (Len(q') + Len(d) + Len(dpcList) + Len(idList)) - Cardinality(Uncounted')
        BY <1>0, <1>1, <4>2, <4>3
      <4> QED
        BY <3>1, <4>4 DEF CountInv, HeldCount, q, d
    <3>3. CASE send' = [send EXCEPT ![c] = [send[c] EXCEPT !.pc = "discard"]] /\ UNCHANGED q
      <4>1. [send[c] EXCEPT !.pc = "discard"].pc # "count"
        BY DEF CallsTyped, CallState
      <4> QED
        BY <1>4, <3>1, <3>3, <4>1, UncountedMoves
    <3> QED
      BY <2>3, <3>2, <3>3 DEF SendQueue
  <2>4. CASE SendCount(c)
    <3> DEFINE call == IF send[c].nb < Len(NBsOf[CurrentNBL(c)])
                       THEN [send[c] EXCEPT !.nb = send[c].nb + 1, !.pc = "alloc"]
                       ELSE AfterNBL(c, TRUE)
    <3>1. /\ send' = [send EXCEPT ![c] = call] /\ Tx_PendingNBs' = Tx_PendingNBs + 1
          /\ UNCHANGED <<queueVars, dpcList, idList>> /\ send[c].pc = "count"
      BY <2>4 DEF SendCount
    <3>2. call.pc # "count"
      <4>1. AfterNBL(c, TRUE).pc # "count"
        BY AfterNBLTyped
      <4>2. [send[c] EXCEPT !.nb = send[c].nb + 1, !.pc = "alloc"].pc = "alloc"
        BY DEF CallsTyped, CallState
      <4> QED
        BY <4>1, <4>2
    <3> HIDE DEF call
    <3>3. Cardinality(Uncounted') = Cardinality(Uncounted) - 1
      BY <3>1, <3>2, UncountedMoves
    <3>4. Tx_PendingNBs' = (Len(q) + Len(d) + Len(dpcList) + Len(idList)) - Cardinality(Uncounted')
      BY <1>0, <1>1, <3>1, <3>3
    <3> QED
      BY <3>1, <3>4 DEF CountInv, HeldCount
  <2>5. CASE SendDiscard(c)
    <3> DEFINE call == AfterNBL(c, send[c].queued)
    <3>1. /\ send' = [send EXCEPT ![c] = call] /\ send[c].pc # "count"
          /\ UNCHANGED <<Tx_PendingNBs, queueVars, dpcList, idList>>
      BY <2>5 DEF SendDiscard
    <3>2. call.pc # "count"
      BY AfterNBLTyped DEF CallsTyped, CallState
    <3> HIDE DEF call
    <3> QED
      BY <1>4, <3>1, <3>2, UncountedMoves
  <2>6. CASE SendKick(c)
    <3>1. /\ send' = [send EXCEPT ![c] = [send[c] EXCEPT !.pc = "done"]] /\ send[c].pc # "count"
          /\ UNCHANGED <<Tx_PendingNBs, dpcList, idList>> /\ MpSendNextNB
      BY <2>6 DEF SendKick
    <3>2. [send[c] EXCEPT !.pc = "done"].pc # "count"
      BY DEF CallsTyped, CallState
    <3>3. Uncounted' = Uncounted
      BY <3>1, <3>2, UncountedMoves
    <3> QED
      BY <1>3, <1>5, <3>1, <3>3
  <2> QED
    BY <1>6, <2>1, <2>2, <2>3, <2>4, <2>5, <2>6 DEF MpSendNetBufferLists
<1>7. CASE MpHandleTxInterrupt
  <2> DEFINE n == Reclaimable
  <2>1. /\ n \in 0..Len(d)
        /\ [j \in 1..n |-> pMpBD[(Tx_EnetPendingBDIdx + j - 1) % Ring]] = SubSeq(d, 1, n)
    BY ReclaimEffect
  <2>2. /\ dpcList' = SubSeq(d, 1, n) /\ d' = SubSeq(d, n + 1, Len(d)) /\ dpc = "tx"
        /\ UNCHANGED <<send, Tx_PendingNBs, q, idList>>
    BY <1>7, <2>1 DEF MpHandleTxInterrupt
  <2> HIDE DEF n
  <2>3. Len(dpcList') = n /\ Len(d') = Len(d) - n
    BY <1>0, <2>1, <2>2, SplitList
  <2>4. Len(dpcList) = 0
    BY <2>2, EmptySeq DEF DpcInv
  <2>5. Uncounted' = Uncounted
    BY <1>2, <2>2
  <2>6. n \in Nat /\ n <= Len(d)
    BY <1>0, <2>1
  <2> HIDE DEF q, d
  <2>7. Len(q) + Len(d) + Len(dpcList) + Len(idList) = Len(q) + Len(d') + Len(dpcList') + Len(idList)
    BY <1>0, <2>3, <2>4, <2>6
  <2> QED
    BY <1>1, <2>2, <2>5, <2>7 DEF CountInv, HeldCount, q, d
<1>8. CASE DpcUnwinds
  <2>1. /\ dpcList # <<>> /\ dpcList' = Tail(dpcList) /\ Tx_PendingNBs' = Tx_PendingNBs - 1
        /\ UNCHANGED <<send, queueVars, idList>>
    BY <1>8 DEF DpcUnwinds, MpTxUnwindNetBuffer
  <2>2. Len(dpcList') = Len(dpcList) - 1
    BY <1>0, <2>1, TakeFirst
  <2>3. Uncounted' = Uncounted
    BY <1>2, <2>1
  <2>4. Tx_PendingNBs' = (Len(q) + Len(d) + Len(dpcList') + Len(idList)) - Cardinality(Uncounted)
    BY <1>0, <1>1, <2>1, <2>2
  <2> QED
    BY <2>1, <2>3, <2>4 DEF CountInv, HeldCount
<1>9. CASE CancelUnwinds
  <2>1. /\ idList # <<>> /\ idList' = Tail(idList) /\ Tx_PendingNBs' = Tx_PendingNBs - 1
        /\ UNCHANGED <<send, queueVars, dpcList>>
    BY <1>9 DEF CancelUnwinds, MpTxUnwindNetBuffer
  <2>2. Len(idList') = Len(idList) - 1
    BY <1>0, <2>1, TakeFirst
  <2>3. Uncounted' = Uncounted
    BY <1>2, <2>1
  <2>4. Tx_PendingNBs' = (Len(q) + Len(d) + Len(dpcList) + Len(idList')) - Cardinality(Uncounted)
    BY <1>0, <1>1, <2>1, <2>2
  <2> QED
    BY <2>1, <2>3, <2>4 DEF CountInv, HeldCount
<1>10. CASE DpcKicks
  <2>1. UNCHANGED <<Tx_PendingNBs, send, dpcList, idList>> /\ MpSendNextNB
    BY <1>10 DEF DpcKicks
  <2> QED
    BY <1>2, <1>3, <1>5, <2>1
<1>11. CASE MpCancelSendNetBufferLists
  <2>1. /\ idList = <<>> /\ idList' = FramesAt(q, Matching) /\ q' = FramesAt(q, DOMAIN q \ Matching)
        /\ UNCHANGED <<send, Tx_PendingNBs, d, dpcList>>
    BY <1>11 DEF MpCancelSendNetBufferLists
  <2>2. Matching \subseteq DOMAIN q
    BY DEF Matching
  <2>3. Len(q') + Len(idList') = Len(q) /\ Len(q') \in Nat /\ Len(idList') \in Nat
    BY <1>0, <2>1, <2>2, DivideList, LenProperties
  <2>4. Len(idList) = 0
    BY <2>1, EmptySeq
  <2>5. Uncounted' = Uncounted
    BY <1>2, <2>1
  <2> HIDE DEF q, d
  <2>6. Len(q) + Len(d) + Len(dpcList) + Len(idList) = Len(q') + Len(d) + Len(dpcList) + Len(idList')
    <3> DEFINE a == Len(q')
               b == Len(q)
               x == Len(d)
               y == Len(dpcList)
               z == Len(idList')
    <3>1. a \in Nat /\ b \in Nat /\ x \in Nat /\ y \in Nat /\ z \in Nat /\ a + z = b
      BY <1>0, <2>3
    <3> HIDE DEF a, b, x, y, z
    <3>2. b + x + y + 0 = a + x + y + z
      BY <3>1
    <3> QED
      BY <2>4, <3>2 DEF a, b, x, y, z
  <2> QED
    BY <1>1, <2>1, <2>5, <2>6 DEF CountInv, HeldCount, q, d
<1>12. CASE Sm
  <2>1. UNCHANGED <<Tx_PendingNBs, send, queueVars, dpcList, idList>>
    <3>1. CASE EnetStop("drained", "PAUSED") \/ SmStart
      BY <3>1 DEF EnetStop, SmStart, EnetStart
    <3>2. CASE MpTxCancelAll
      BY <3>2 DEF MpTxCancelAll, StopInv
    <3> QED
      BY <1>12, <3>1, <3>2, DrainedSm
  <2> QED
    BY <1>2, <1>4, <2>1
<1>13. CASE MacSends \/ EnetIsr \/ EnetDpcReadEvents \/ EnetDpcEnables
  BY <1>2, <1>4, <1>13 DEF MacSends, EnetIsr, EnetDpcReadEvents, EnetDpcEnables
<1>14. CASE UNCHANGED vars
  BY <1>2, <1>4, <1>14 DEF vars
<1> QED
  BY <1>6, <1>7, <1>8, <1>9, <1>10, <1>11, <1>12, <1>13, <1>14 DEF Next, EnetDpc

LEMMA DrainedCorrect == DrainedStops => (Spec => []DrainedInv)
<1> SUFFICES ASSUME DrainedStops PROVE Spec => []DrainedInv
  OBVIOUS
<1>1. Init => DrainedInv
  <2> SUFFICES ASSUME Init PROVE DrainedInv
    OBVIOUS
  <2>1. Uncounted = {}
    BY DEF Init, Uncounted
  <2>2. Cardinality(Uncounted) = 0 /\ Len(<<>>) = 0
    BY <2>1, FS_EmptySet, EmptySeq
  <2>3. CountInv
    BY <2>2 DEF Init, CountInv, HeldCount
  <2>4. RingInv
    <3>1. \A i \in Slots : ~((i - 0) % Ring < 0)
      BY DEF Slots
    <3>2. (0 + 0) % Ring = 0 /\ Ring - Ring = 0
      OBVIOUS
    <3>3. \A i \in Slots : pMpBD[i] = NULL /\ ~R[i]
      BY Zenon DEF Init
    <3> QED
      BY <2>2, <3>1, <3>2, <3>3 DEF Init, RingInv
  <2> QED
    BY <2>3, <2>4 DEF Init, DrainedInv, StopInv, DpcInv
<1>2. CallsTyped /\ TxTyped /\ DrainedInv /\ [Next]_vars => DrainedInv'
  BY RingPreserved, StopPreserved, DpcPreserved, CountPreserved DEF DrainedInv
<1> QED
  BY <1>1, <1>2, CallsCorrect, TypesCorrect, PTL DEF Spec

-----------------------------------------------------------------------------
(* Each frame in one place. *)

\* The j-th frame of the i-th NBL of a call is a frame.
LEMMA FrameOfChain ==
    ASSUME NEW c \in Calls, NEW i \in 1..Len(Chain[c]), NEW j \in 1..Len(NBsOf[Chain[c][i]])
    PROVE  i \in Int /\ j \in Int /\ Chain[c][i] \in Nbls /\ NBsOf[Chain[c][i]][j] \in Frames
<1>1. Chain[c][i] \in Nbls /\ i \in Int
  BY Shapes, ElementOfSeq
<1> QED
  BY <1>1, Shapes, ElementOfSeq

\* A place (a, b) in a chain that moves on, to the next place or the next NBL: what
\* is to come after it was to come before.  x and y are the steps of the call there.
LEMMA PlaceAdvances ==
    ASSUME NEW a \in Nat, NEW b \in Nat, NEW a1 \in Nat, NEW b1 \in Nat, NEW x, NEW y,
           NEW i \in Int, NEW j \in Int,
           \/ a1 = a /\ b1 = b /\ (x = "count" => y = "count")
           \/ a1 = a /\ b1 = b + 1
           \/ a1 = a + 1,
           a1 < i \/ (a1 = i /\ (b1 < j \/ (b1 = j /\ y # "count")))
    PROVE  a < i \/ (a = i /\ (b < j \/ (b = j /\ x # "count")))
  OBVIOUS

\* A call never goes back to a frame, and it has passed one that it queued or
\* whose NBL it leaves.
LEMMA CallAdvances ==
    ASSUME CallsTyped, NEW c \in Calls, NEW call \in CallState, send' = [send EXCEPT ![c] = call],
           \/ send[c].pc = "idle"
           \/ call.pc \in {"kick", "done"}
           \/ /\ send[c].pc \notin {"kick", "done"} /\ call.pc # "idle"
              /\ \/ /\ call.nbl = send[c].nbl /\ call.nb = send[c].nb
                    /\ send[c].pc = "count" => call.pc = "count"
                 \/ call.nbl = send[c].nbl /\ call.nb = send[c].nb + 1
                 \/ call.nbl = send[c].nbl + 1
    PROVE  /\ \A e \in Calls : \A i \in 1..Len(Chain[e]) : \A j \in 1..Len(NBsOf[Chain[e][i]]) :
                 ToCome(e, i, j)' => ToCome(e, i, j)
           /\ \/ call.pc \in {"kick", "done"}
              \/ call.pc = "count" /\ call.nbl = send[c].nbl /\ call.nb = send[c].nb
              \/ call.pc = "alloc" /\ call.nbl = send[c].nbl + 1
              => \A i, j : i = send[c].nbl /\ j = send[c].nb => ~ToCome(c, i, j)'
<1>1. send'[c] = call /\ \A e \in Calls \ {c} : send'[e] = send[e]
  BY DEF CallsTyped
<1>2. /\ send[c].nbl \in Nat /\ send[c].nb \in Nat /\ call.nbl \in Nat /\ call.nb \in Nat
  BY DEF CallsTyped, CallState
<1>3. ASSUME NEW e \in Calls, NEW i \in 1..Len(Chain[e]), NEW j \in 1..Len(NBsOf[Chain[e][i]]),
             ToCome(e, i, j)'
      PROVE  ToCome(e, i, j)
  <2>1. i \in Int /\ j \in Int
    BY FrameOfChain
  <2>2. CASE e # c
    BY <1>1, <1>3, <2>2 DEF ToCome
  <2>3. CASE e = c
    <3>1. CASE send[c].pc = "idle"
      BY <2>3, <3>1 DEF ToCome
    <3>2. CASE call.pc \in {"kick", "done"}
      BY <1>1, <1>3, <2>3, <3>2 DEF ToCome
    <3>3. CASE send[c].pc # "idle" /\ call.pc \notin {"kick", "done"}
      <4>1. /\ send[c].pc \notin {"kick", "done"} /\ call.pc # "idle"
            /\ \/ /\ call.nbl = send[c].nbl /\ call.nb = send[c].nb
                  /\ send[c].pc = "count" => call.pc = "count"
               \/ call.nbl = send[c].nbl /\ call.nb = send[c].nb + 1
               \/ call.nbl = send[c].nbl + 1
        BY <3>3
      <4>2. \/ call.nbl < i
            \/ /\ call.nbl = i
               /\ call.nb < j \/ (call.nb = j /\ call.pc # "count")
        BY <1>1, <1>3, <2>3, <3>3, <4>1 DEF ToCome
      <4>3. \/ send[c].nbl < i
            \/ /\ send[c].nbl = i
               /\ send[c].nb < j \/ (send[c].nb = j /\ send[c].pc # "count")
        <5> DEFINE a == send[c].nbl
                   b == send[c].nb
                   a1 == call.nbl
                   b1 == call.nb
                   x == send[c].pc
                   y == call.pc
        <5>1. a \in Nat /\ b \in Nat /\ a1 \in Nat /\ b1 \in Nat
          BY <1>2
        <5>2. \/ a1 = a /\ b1 = b /\ (x = "count" => y = "count")
              \/ a1 = a /\ b1 = b + 1
              \/ a1 = a + 1
          BY <4>1
        <5>3. a1 < i \/ (a1 = i /\ (b1 < j \/ (b1 = j /\ y # "count")))
          BY <4>2
        <5> HIDE DEF a, b, a1, b1, x, y
        <5>4. a < i \/ (a = i /\ (b < j \/ (b = j /\ x # "count")))
          BY <2>1, <5>1, <5>2, <5>3, PlaceAdvances
        <5> QED
          BY <5>4 DEF a, b, x
      <4> QED
        BY <2>3, <4>1, <4>3 DEF ToCome
    <3> QED
      BY <3>1, <3>2, <3>3
  <2> QED
    BY <2>2, <2>3
<1>4. ASSUME \/ call.pc \in {"kick", "done"}
             \/ call.pc = "count" /\ call.nbl = send[c].nbl /\ call.nb = send[c].nb
             \/ call.pc = "alloc" /\ call.nbl = send[c].nbl + 1,
             NEW i, NEW j, i = send[c].nbl, j = send[c].nb
      PROVE  ~ToCome(c, i, j)'
  <2>1. call.pc # "idle" /\ i \in Nat /\ j \in Nat
    BY <1>2, <1>4
  <2>2. \/ call.pc \in {"kick", "done"}
        \/ ~(call.nbl < i \/ (call.nbl = i /\ (call.nb < j \/ (call.nb = j /\ call.pc # "count"))))
    BY <1>2, <1>4
  <2> QED
    BY <1>1, <2>1, <2>2 DEF ToCome
<1> QED
  BY <1>3, <1>4

\* A step that moves frames between places, or none.
LEMMA PlacesKept ==
    ASSUME PlacesInv, Held' = Held,
           Separate(Tx_qMpOwnedBDs, Tx_qDmaOwnedBDs, dpcList, idList)', UNCHANGED freed,
           \A e \in Calls : \A i \in 1..Len(Chain[e]) : \A j \in 1..Len(NBsOf[Chain[e][i]]) :
              ToCome(e, i, j)' => ToCome(e, i, j)
    PROVE  PlacesInv'
<1>1. \A f \in Frames : freed'[f] <= 1 /\ (f \in Held' => freed'[f] = 0)
  BY DEF PlacesInv
<1>2. ASSUME NEW e \in Calls, NEW i \in 1..Len(Chain[e]), NEW j \in 1..Len(NBsOf[Chain[e][i]]),
             ToCome(e, i, j)'
      PROVE  freed'[NBsOf[Chain[e][i]][j]] = 0 /\ NBsOf[Chain[e][i]][j] \notin Held'
  <2>1. ToCome(e, i, j)
    BY <1>2
  <2> QED
    BY <2>1, ZenonT(30) DEF PlacesInv
<1> QED
  BY <1>1, <1>2 DEF PlacesInv

\* A step of MpSendNetBufferLists passes the frame f, which is queued or, if it
\* has an MP_TX_BD, freed.
LEMMA PlacesPassed ==
    ASSUME EachSentOnce, CallsTyped, TxTyped, PlacesInv, NEW c \in Calls,
           send[c].pc \in {"queue", "discard"},
           \/ Held' = Held \cup {CurrentNB(c)} /\ UNCHANGED freed
           \/ /\ Held' = Held
              /\ freed' = [freed EXCEPT ![CurrentNB(c)] = freed[CurrentNB(c)] + 1],
           Separate(Tx_qMpOwnedBDs, Tx_qDmaOwnedBDs, dpcList, idList)',
           \A i, j : i = send[c].nbl /\ j = send[c].nb => ~ToCome(c, i, j)',
           \A e \in Calls : \A i \in 1..Len(Chain[e]) : \A j \in 1..Len(NBsOf[Chain[e][i]]) :
              ToCome(e, i, j)' => ToCome(e, i, j)
    PROVE  PlacesInv'
<1> DEFINE f == CurrentNB(c)
           k == send[c].nbl
           m == send[c].nb
<1>0. /\ k \in 1..Len(Chain[c]) /\ m \in 1..Len(NBsOf[Chain[c][k]]) /\ f = NBsOf[Chain[c][k]][m]
  BY DEF CallsTyped, AtFrame, CurrentNB, CurrentNBL
<1>1. ToCome(c, k, m)
  BY DEF ToCome
<1>2. f \in Frames /\ freed[f] = 0 /\ f \notin Held
  <2>1. k \in 1..Len(Chain[c]) /\ m \in 1..Len(NBsOf[Chain[c][k]])
    BY <1>0
  <2>2. NBsOf[Chain[c][k]][m] \in Frames
    BY <2>1, FrameOfChain
  <2>3. freed[NBsOf[Chain[c][k]][m]] = 0 /\ NBsOf[Chain[c][k]][m] \notin Held
    BY <1>1, <2>1 DEF PlacesInv
  <2> QED
    BY <1>0, <2>2, <2>3, Zenon
<1>3. freed \in [Frames -> Nat]
  BY DEF TxTyped, CountersTyped
<1> HIDE DEF f, k, m
<1>4. ASSUME NEW g \in Frames, g # f
      PROVE  freed'[g] = freed[g] /\ (g \in Held' <=> g \in Held)
  BY <1>3, <1>4 DEF f
<1>5. freed'[f] <= 1 /\ (f \in Held' => freed'[f] = 0)
  BY <1>2, <1>3 DEF f
<1>6. \A g \in Frames : freed'[g] <= 1 /\ (g \in Held' => freed'[g] = 0)
  BY <1>4, <1>5 DEF PlacesInv
<1>7. ASSUME NEW e \in Calls, NEW i \in 1..Len(Chain[e]), NEW j \in 1..Len(NBsOf[Chain[e][i]]),
             ToCome(e, i, j)'
      PROVE  freed'[NBsOf[Chain[e][i]][j]] = 0 /\ NBsOf[Chain[e][i]][j] \notin Held'
  <2> DEFINE g == NBsOf[Chain[e][i]][j]
  <2>1. ToCome(e, i, j)
    BY <1>7
  <2>2. g \in Frames /\ freed[g] = 0 /\ g \notin Held
    <3>1. g \in Frames
      BY FrameOfChain
    <3>2. freed[g] = 0 /\ g \notin Held
      BY <2>1 DEF PlacesInv
    <3> QED
      BY <3>1, <3>2
  <2>3. ~(e = c /\ i = k /\ j = m)
    BY <1>7 DEF k, m
  <2>4. ASSUME g = f PROVE FALSE
    <3>1. NBsOf[Chain[e][i]][j] = NBsOf[Chain[c][k]][m]
      BY <1>0, <2>4
    <3>2. k \in 1..Len(Chain[c]) /\ m \in 1..Len(NBsOf[Chain[c][k]])
      BY <1>0
    <3>3. e = c /\ i = k /\ j = m
      <4>1. Chain[e][i] \in Nbls /\ Chain[c][k] \in Nbls
        BY <3>2, FrameOfChain
      <4>2. Chain[e][i] = Chain[c][k] /\ j = m
        BY <3>1, <3>2, <4>1 DEF EachSentOnce
      <4> QED
        BY <3>2, <4>2 DEF EachSentOnce
    <3> QED
      BY <2>3, <3>3
  <2> HIDE DEF g
  <2>5. freed'[g] = 0 /\ g \notin Held'
    BY <1>4, <2>2, <2>4
  <2> QED
    BY <2>5 DEF g
<1> QED
  BY <1>6, <1>7 DEF PlacesInv

\* A frame that is unwound leaves its place, and its MP_TX_BD is freed.
LEMMA PlacesUnwound ==
    ASSUME TxTyped, PlacesInv, UNCHANGED send, NEW f \in Frames, f \in Held, Held' = Held \ {f},
           freed' = [freed EXCEPT ![f] = freed[f] + 1],
           Separate(Tx_qMpOwnedBDs, Tx_qDmaOwnedBDs, dpcList, idList)'
    PROVE  PlacesInv'
<1>1. freed \in [Frames -> Nat] /\ freed[f] = 0
  BY DEF TxTyped, CountersTyped, PlacesInv
<1>2. ASSUME NEW g \in Frames, g # f
      PROVE  freed'[g] = freed[g] /\ (g \in Held' <=> g \in Held)
  BY <1>1, <1>2
<1>3. freed'[f] <= 1 /\ f \notin Held'
  BY <1>1
<1>4. \A g \in Frames : freed'[g] <= 1 /\ (g \in Held' => freed'[g] = 0)
  BY <1>2, <1>3 DEF PlacesInv
<1>5. ASSUME NEW e \in Calls, NEW i \in 1..Len(Chain[e]), NEW j \in 1..Len(NBsOf[Chain[e][i]]),
             ToCome(e, i, j)'
      PROVE  freed'[NBsOf[Chain[e][i]][j]] = 0 /\ NBsOf[Chain[e][i]][j] \notin Held'
  <2> DEFINE g == NBsOf[Chain[e][i]][j]
  <2>1. ToCome(e, i, j)
    BY <1>5 DEF ToCome
  <2>2. g \in Frames /\ freed[g] = 0 /\ g \notin Held
    <3>1. g \in Frames
      BY FrameOfChain
    <3>2. freed[g] = 0 /\ g \notin Held
      BY <2>1 DEF PlacesInv
    <3> QED
      BY <3>1, <3>2
  <2> HIDE DEF g
  <2>3. freed'[g] = 0 /\ g \notin Held'
    BY <1>2, <2>2
  <2> QED
    BY <2>3 DEF g
<1> QED
  BY <1>4, <1>5 DEF PlacesInv

\* Frames that pass from list to list stay separate and held; unwinding one takes it
\* out of its list.
LEMMA HeldMoves ==
    ASSUME TxTyped, DrainedInv, PlacesInv
    PROVE  /\ \/ UNCHANGED <<queueVars, dpcList, idList>>
              \/ MpSendNextNB /\ UNCHANGED <<dpcList, idList>>
              \/ MpHandleTxInterrupt
              \/ MpCancelSendNetBufferLists
              => Separate(Tx_qMpOwnedBDs, Tx_qDmaOwnedBDs, dpcList, idList)' /\ Held' = Held
           /\ DpcUnwinds \/ CancelUnwinds =>
                 \E f \in Frames :
                    /\ f \in Held /\ Held' = Held \ {f} /\ MpTxUnwindNetBuffer(f) /\ UNCHANGED send
                    /\ Separate(Tx_qMpOwnedBDs, Tx_qDmaOwnedBDs, dpcList, idList)'
<1> USE DEF queueVars, countVars, dpcVars
<1> DEFINE q == Tx_qMpOwnedBDs
           d == Tx_qDmaOwnedBDs
<1>0. /\ q \in Seq(Frames) /\ d \in Seq(Frames) /\ dpcList \in Seq(Frames) /\ idList \in Seq(Frames)
      /\ Separate(q, d, dpcList, idList)
  BY DEF TxTyped, IndicesTyped, ListsTyped, PlacesInv
<1>1. ASSUME UNCHANGED <<queueVars, dpcList, idList>>
      PROVE  Separate(q, d, dpcList, idList)' /\ Held' = Held
  BY <1>0, <1>1 DEF Held
<1>2. ASSUME MpSendNextNB, UNCHANGED <<dpcList, idList>>
      PROVE  Separate(q, d, dpcList, idList)' /\ Held' = Held
  <2>1. PICK n \in 0..Len(q) :
           /\ q' = SubSeq(q, n + 1, Len(q))
           /\ d' = d \o SubSeq(q, 1, n)
    BY <1>2, SendNextNB DEF TxTyped
  <2>2. /\ Separate(q', d', dpcList, idList)
        /\ Together(q', d', dpcList, idList) = Together(q, d, dpcList, idList)
    BY <1>0, <2>1, KickSeparate
  <2> QED
    BY <1>2, <2>2 DEF Held
<1>3. ASSUME MpHandleTxInterrupt
      PROVE  Separate(q, d, dpcList, idList)' /\ Held' = Held
  <2> DEFINE n == Reclaimable
  <2>1. /\ n \in 0..Len(d)
        /\ [j \in 1..n |-> pMpBD[(Tx_EnetPendingBDIdx + j - 1) % Ring]] = SubSeq(d, 1, n)
    BY ReclaimEffect DEF DrainedInv
  <2>2. /\ dpcList' = SubSeq(d, 1, n) /\ d' = SubSeq(d, n + 1, Len(d)) /\ dpc = "tx"
        /\ UNCHANGED <<q, idList>>
    BY <1>3, <2>1 DEF MpHandleTxInterrupt
  <2>3. dpcList = <<>>
    BY <2>2 DEF DrainedInv, DpcInv
  <2> HIDE DEF n
  <2>4. /\ Separate(q, d', dpcList', idList)
        /\ Together(q, d', dpcList', idList) = Together(q, d, dpcList, idList)
    BY <1>0, <2>1, <2>2, <2>3, ReclaimSeparate
  <2> QED
    BY <2>2, <2>4 DEF Held
<1>4. ASSUME MpCancelSendNetBufferLists
      PROVE  Separate(q, d, dpcList, idList)' /\ Held' = Held
  <2>1. /\ idList = <<>> /\ idList' = FramesAt(q, Matching) /\ q' = FramesAt(q, DOMAIN q \ Matching)
        /\ UNCHANGED <<d, dpcList>>
    BY <1>4 DEF MpCancelSendNetBufferLists
  <2>2. Matching \subseteq DOMAIN q
    BY DEF Matching
  <2>3. /\ Separate(q', d, dpcList, idList')
        /\ Together(q', d, dpcList, idList') = Together(q, d, dpcList, idList)
    BY <1>0, <2>1, <2>2, CancelSeparate
  <2> QED
    BY <2>1, <2>3 DEF Held
<1> DEFINE Unwound(f) == /\ f \in Held /\ Held' = Held \ {f} /\ MpTxUnwindNetBuffer(f) /\ UNCHANGED send
                         /\ Separate(q, d, dpcList, idList)'
<1>5. ASSUME DpcUnwinds PROVE \E f \in Frames : Unwound(f)
  <2> DEFINE f == Head(dpcList)
  <2>1. /\ dpcList # <<>> /\ dpcList' = Tail(dpcList) /\ UNCHANGED <<send, queueVars, idList>>
        /\ MpTxUnwindNetBuffer(f)
    BY <1>5 DEF DpcUnwinds
  <2>2. /\ Separate(q, d, Tail(dpcList), idList)
        /\ Together(q, d, Tail(dpcList), idList) = Held \ {f} /\ f \in Held
    BY <1>0, <2>1, UnwindSeparate DEF Held
  <2>3. Separate(q, d, dpcList, idList)' /\ Held' = Held \ {f}
    BY <2>1, <2>2 DEF Held
  <2>4. f \in Frames
    BY <1>0, <2>1, HeadTyped
  <2> QED
    BY <2>1, <2>2, <2>3, <2>4, Zenon
<1>6. ASSUME CancelUnwinds PROVE \E f \in Frames : Unwound(f)
  <2> DEFINE f == Head(idList)
  <2>1. /\ idList # <<>> /\ idList' = Tail(idList) /\ UNCHANGED <<send, queueVars, dpcList>>
        /\ MpTxUnwindNetBuffer(f)
    BY <1>6 DEF CancelUnwinds
  <2>2. /\ Separate(q, d, dpcList, Tail(idList))
        /\ Together(q, d, dpcList, Tail(idList)) = Held \ {f} /\ f \in Held
    BY <1>0, <2>1, UnwindSeparate DEF Held
  <2>3. Separate(q, d, dpcList, idList)' /\ Held' = Held \ {f}
    BY <2>1, <2>2 DEF Held
  <2>4. f \in Frames
    BY <1>0, <2>1, HeadTyped
  <2> QED
    BY <2>1, <2>2, <2>3, <2>4, Zenon
<1> QED
  BY <1>1, <1>2, <1>3, <1>4, <1>5, <1>6

\* The call that queues its frame adds it to those the driver holds.
LEMMA HeldQueued ==
    ASSUME CallsTyped, TxTyped, PlacesInv, NEW c \in Calls, send[c].pc \in {"queue", "discard"}
    PROVE  /\ CurrentNB(c) \notin Held
           /\ /\ Tx_qMpOwnedBDs' = Append(Tx_qMpOwnedBDs, CurrentNB(c))
              /\ UNCHANGED <<Tx_qDmaOwnedBDs, dpcList, idList>>
              => /\ Separate(Tx_qMpOwnedBDs, Tx_qDmaOwnedBDs, dpcList, idList)'
                 /\ Held' = Held \cup {CurrentNB(c)}
<1> DEFINE q == Tx_qMpOwnedBDs
           d == Tx_qDmaOwnedBDs
<1>1. CurrentNB(c) \notin Held
  <2> DEFINE k == send[c].nbl
             m == send[c].nb
  <2>1. /\ k \in 1..Len(Chain[c]) /\ m \in 1..Len(NBsOf[Chain[c][k]])
        /\ CurrentNB(c) = NBsOf[Chain[c][k]][m]
    BY DEF CallsTyped, AtFrame, CurrentNB, CurrentNBL
  <2>2. ToCome(c, k, m)
    BY DEF ToCome
  <2> HIDE DEF k, m
  <2>3. NBsOf[Chain[c][k]][m] \notin Held
    BY <2>1, <2>2 DEF PlacesInv
  <2> QED
    BY <2>1, <2>3, Zenon
<1>2. ASSUME q' = Append(q, CurrentNB(c)), UNCHANGED <<d, dpcList, idList>>
      PROVE  Separate(q, d, dpcList, idList)' /\ Held' = Held \cup {CurrentNB(c)}
  <2>1. CurrentNB(c) \in Frames /\ q \in Seq(Frames)
    BY Current DEF TxTyped, IndicesTyped
  <2>2. CurrentNB(c) \notin Together(q, d, dpcList, idList) /\ Separate(q, d, dpcList, idList)
    BY <1>1 DEF Held, PlacesInv
  <2>3. /\ Separate(Append(q, CurrentNB(c)), d, dpcList, idList)
        /\ Together(Append(q, CurrentNB(c)), d, dpcList, idList)
              = Together(q, d, dpcList, idList) \cup {CurrentNB(c)}
    BY <2>1, <2>2, QueueSeparate
  <2> QED
    BY <1>2, <2>3 DEF Held
<1> QED
  BY <1>1, <1>2

\* The state machine, stopping the MAC only when it is drained, moves no frame.
LEMMA SmKeepsFrames ==
    ASSUME DrainedStops, DrainedInv, Sm
    PROVE  UNCHANGED <<countVars, send, queueVars, dpcList, idList>>
<1> USE DEF queueVars, countVars, dpcVars
<1>1. CASE EnetStop("drained", "PAUSED") \/ SmStart
  BY <1>1 DEF EnetStop, SmStart, EnetStart
<1>2. CASE MpTxCancelAll
  BY <1>2 DEF MpTxCancelAll, DrainedInv, StopInv
<1> QED
  BY <1>1, <1>2, DrainedSm DEF DrainedInv

\* Every step keeps PlacesInv.
LEMMA PlacesPreserved ==
    ASSUME DrainedStops, EachSentOnce, CallsTyped, TxTyped, DrainedInv, PlacesInv, [Next]_vars
    PROVE  PlacesInv'
<1> USE DEF queueVars, countVars, dpcVars
<1> DEFINE q == Tx_qMpOwnedBDs
           d == Tx_qDmaOwnedBDs
           Back == \A e \in Calls : \A i \in 1..Len(Chain[e]) : \A j \in 1..Len(NBsOf[Chain[e][i]]) :
                      ToCome(e, i, j)' => ToCome(e, i, j)
<1>0. /\ q \in Seq(Frames) /\ d \in Seq(Frames) /\ dpcList \in Seq(Frames) /\ idList \in Seq(Frames)
      /\ Separate(q, d, dpcList, idList)
  BY DEF TxTyped, IndicesTyped, ListsTyped, PlacesInv
<1>1. ASSUME UNCHANGED send PROVE Back
  BY <1>1 DEF ToCome
<1>2. ASSUME UNCHANGED <<queueVars, dpcList, idList>>
      PROVE  Separate(q, d, dpcList, idList)' /\ Held' = Held
  BY <1>2, HeldMoves
<1>3. ASSUME UNCHANGED <<queueVars, dpcList, idList, freed>>, Back PROVE PlacesInv'
  BY <1>2, <1>3, PlacesKept
<1>4. ASSUME MpSendNextNB, UNCHANGED <<dpcList, idList>>
      PROVE  Separate(q, d, dpcList, idList)' /\ Held' = Held
  BY <1>4, HeldMoves
<1>5. ASSUME NEW c \in Calls, MpSendNetBufferLists(c) PROVE PlacesInv'
  <2>0. send[c] \in CallState
    BY DEF CallsTyped
  <2>1. CASE SendCheckStatus(c)
    <3>1. PICK v \in {"alloc", "done"} : send' = [send EXCEPT ![c] = [send[c] EXCEPT !.pc = v]]
      BY <2>1 DEF SendCheckStatus
    <3>2. [send[c] EXCEPT !.pc = v] \in CallState /\ send[c].pc = "idle"
      BY <2>0, <2>1, <3>1 DEF SendCheckStatus, CallState, SendPcs
    <3>3. Back
      BY <3>1, <3>2, CallAdvances
    <3> QED
      BY <1>3, <2>1, <3>3 DEF SendCheckStatus
  <2>2. CASE SendAllocBD(c)
    <3>1. PICK v \in {"queue", "discard"}, b \in BOOLEAN :
             send' = [send EXCEPT ![c] = [send[c] EXCEPT !.pc = v, !.bd = b]]
      BY <2>2 DEF SendAllocBD
    <3> DEFINE call == [send[c] EXCEPT !.pc = v, !.bd = b]
    <3>2. /\ call \in CallState /\ send[c].pc = "alloc"
          /\ call.pc = v /\ call.nbl = send[c].nbl /\ call.nb = send[c].nb
      BY <2>0, <2>2, <3>1 DEF SendAllocBD, CallState, SendPcs
    <3> HIDE DEF call
    <3>3. Back
      BY <3>1, <3>2, CallAdvances DEF call
    <3> QED
      BY <1>3, <2>2, <3>3 DEF SendAllocBD
  <2>3. CASE SendQueue(c)
    <3>1. PICK v \in {"count", "discard"} :
             /\ send' = [send EXCEPT ![c] = [send[c] EXCEPT !.pc = v]]
             /\ IF v = "count" THEN q' = Append(q, CurrentNB(c)) ELSE UNCHANGED q
      BY <2>3 DEF SendQueue
    <3> DEFINE call == [send[c] EXCEPT !.pc = v]
    <3>2. /\ call \in CallState /\ send[c].pc = "queue"
          /\ call.pc = v /\ call.nbl = send[c].nbl /\ call.nb = send[c].nb
          /\ send' = [send EXCEPT ![c] = call]
      BY <2>0, <2>3, <3>1 DEF SendQueue, CallState, SendPcs
    <3> HIDE DEF call
    <3>3. Back
      BY <3>2, CallAdvances
    <3>4. UNCHANGED <<d, dpcList, idList, freed>>
      BY <2>3 DEF SendQueue
    <3>5. CASE v = "discard"
      BY <1>3, <3>1, <3>3, <3>4, <3>5
    <3>6. CASE v = "count"
      <4>1. \A i, j : i = send[c].nbl /\ j = send[c].nb => ~ToCome(c, i, j)'
        BY <3>2, <3>6, CallAdvances
      <4>2. Separate(q, d, dpcList, idList)' /\ Held' = Held \cup {CurrentNB(c)}
        BY <3>1, <3>2, <3>4, <3>6, HeldQueued
      <4> QED
        BY <3>2, <3>3, <3>4, <4>1, <4>2, PlacesPassed
    <3> QED
      BY <3>5, <3>6
  <2>4. CASE SendCount(c)
    <3> DEFINE call == IF send[c].nb < Len(NBsOf[CurrentNBL(c)])
                       THEN [send[c] EXCEPT !.nb = send[c].nb + 1, !.pc = "alloc"]
                       ELSE AfterNBL(c, TRUE)
    <3>1. /\ send' = [send EXCEPT ![c] = call] /\ UNCHANGED <<queueVars, dpcList, idList, freed>>
          /\ send[c].pc = "count"
      BY <2>4 DEF SendCount
    <3>2. CASE send[c].nb < Len(NBsOf[CurrentNBL(c)])
      <4>1. call = [send[c] EXCEPT !.nb = send[c].nb + 1, !.pc = "alloc"]
        BY <3>2
      <4>2. /\ call \in CallState /\ call.pc = "alloc"
            /\ call.nbl = send[c].nbl /\ call.nb = send[c].nb + 1
        <5>1. ASSUME NEW n \in Nat
              PROVE  LET r == [send[c] EXCEPT !.nb = n, !.pc = "alloc"]
                     IN  r \in CallState /\ r.pc = "alloc" /\ r.nbl = send[c].nbl /\ r.nb = n
          BY <2>0 DEF CallState, SendPcs
        <5>2. send[c].nb + 1 \in Nat
          BY <2>0 DEF CallState
        <5> HIDE DEF call
        <5> QED
          BY <4>1, <5>1, <5>2, Zenon
      <4> HIDE DEF call
      <4>3. Back
        BY <3>1, <4>2, CallAdvances
      <4> QED
        BY <1>3, <3>1, <4>3
    <3>3. CASE ~(send[c].nb < Len(NBsOf[CurrentNBL(c)]))
      <4>1. call = AfterNBL(c, TRUE)
        BY <3>3
      <4>2. /\ call \in CallState
            /\ call.pc \in {"kick", "done"} \/ (call.pc = "alloc" /\ call.nbl = send[c].nbl + 1)
        BY <4>1, AfterNBLTyped
      <4> HIDE DEF call
      <4>3. Back
        BY <3>1, <4>2, CallAdvances
      <4> QED
        BY <1>3, <3>1, <4>3
    <3> QED
      BY <3>2, <3>3
  <2>5. CASE SendDiscard(c)
    <3> DEFINE call == AfterNBL(c, send[c].queued)
    <3>1. /\ send' = [send EXCEPT ![c] = call] /\ UNCHANGED <<queueVars, dpcList, idList>>
          /\ send[c].pc = "discard"
          /\ freed' = IF send[c].bd THEN [freed EXCEPT ![CurrentNB(c)] = freed[CurrentNB(c)] + 1] ELSE freed
      BY <2>5 DEF SendDiscard
    <3>2. /\ call \in CallState
          /\ call.pc \in {"kick", "done"} \/ (call.pc = "alloc" /\ call.nbl = send[c].nbl + 1)
      <4>1. send[c].queued \in BOOLEAN
        BY <2>0, Zenon DEF CallState
      <4> QED
        BY <4>1, AfterNBLTyped
    <3> HIDE DEF call
    <3>3. Back /\ \A i, j : i = send[c].nbl /\ j = send[c].nb => ~ToCome(c, i, j)'
      BY <3>1, <3>2, CallAdvances
    <3>4. CASE send[c].bd
      BY <1>2, <3>1, <3>3, <3>4, PlacesPassed
    <3>5. CASE ~send[c].bd
      BY <1>3, <3>1, <3>3, <3>5
    <3> QED
      BY <3>4, <3>5
  <2>6. CASE SendKick(c)
    <3> DEFINE call == [send[c] EXCEPT !.pc = "done"]
    <3>1. /\ send' = [send EXCEPT ![c] = call] /\ MpSendNextNB /\ UNCHANGED <<dpcList, idList, freed>>
      BY <2>6 DEF SendKick
    <3>2. call \in CallState /\ call.pc = "done"
      BY <2>0 DEF CallState, SendPcs
    <3> HIDE DEF call
    <3>3. Back
      BY <3>1, <3>2, CallAdvances
    <3> QED
      BY <1>4, <3>1, <3>3, PlacesKept
  <2> QED
    BY <1>5, <2>1, <2>2, <2>3, <2>4, <2>5, <2>6 DEF MpSendNetBufferLists
<1>6. CASE MpHandleTxInterrupt \/ MpCancelSendNetBufferLists
  <2>1. UNCHANGED <<send, freed>>
    BY <1>6 DEF MpHandleTxInterrupt, MpCancelSendNetBufferLists
  <2>2. Separate(q, d, dpcList, idList)' /\ Held' = Held
    BY <1>6, HeldMoves
  <2> QED
    BY <1>1, <2>1, <2>2, PlacesKept
<1>7. CASE DpcUnwinds \/ CancelUnwinds
  <2>1. PICK f \in Frames :
           /\ f \in Held /\ Held' = Held \ {f} /\ MpTxUnwindNetBuffer(f) /\ UNCHANGED send
           /\ Separate(q, d, dpcList, idList)'
    BY <1>7, HeldMoves
  <2>2. freed' = [freed EXCEPT ![f] = freed[f] + 1]
    BY <2>1 DEF MpTxUnwindNetBuffer
  <2> QED
    BY <2>1, <2>2, PlacesUnwound
<1>8. CASE DpcKicks
  <2>1. UNCHANGED <<freed, send, dpcList, idList>> /\ MpSendNextNB
    BY <1>8 DEF DpcKicks
  <2> QED
    BY <1>1, <1>4, <2>1, PlacesKept
<1>9. ASSUME UNCHANGED <<freed, send, queueVars, dpcList, idList>> PROVE PlacesInv'
  BY <1>1, <1>3, <1>9
<1>10. CASE Sm
  BY <1>9, <1>10, SmKeepsFrames
<1>11. CASE MacSends \/ EnetIsr \/ EnetDpcReadEvents \/ EnetDpcEnables
  BY <1>9, <1>11 DEF MacSends, EnetIsr, EnetDpcReadEvents, EnetDpcEnables
<1>12. CASE UNCHANGED vars
  BY <1>9, <1>12 DEF vars
<1> QED
  BY <1>5, <1>6, <1>7, <1>8, <1>10, <1>11, <1>12 DEF Next, EnetDpc

-----------------------------------------------------------------------------
(* What the invariants say of the frames and of the ring. *)

LEMMA PlacesCorrect == DrainedStops /\ EachSentOnce => (Spec => []PlacesInv)
<1> SUFFICES ASSUME DrainedStops, EachSentOnce PROVE Spec => []PlacesInv
  OBVIOUS
<1>1. Init => PlacesInv
  <2> SUFFICES ASSUME Init PROVE PlacesInv
    OBVIOUS
  <2>1. Range(<<>>) = {} /\ IsInjective(<<>>)
    BY EmptySeq DEF Range, IsInjective
  <2>2. Held = {}
    BY <2>1 DEF Init, Held, Together
  <2>3. Separate(Tx_qMpOwnedBDs, Tx_qDmaOwnedBDs, dpcList, idList)
    BY <2>1 DEF Init, Separate
  <2>4. \A f \in Frames : freed[f] = 0
    BY DEF Init
  <2>5. \A c \in Calls : \A i \in 1..Len(Chain[c]) : \A j \in 1..Len(NBsOf[Chain[c][i]]) :
           NBsOf[Chain[c][i]][j] \in Frames
    BY FrameOfChain
  <2> QED
    BY <2>2, <2>3, <2>4, <2>5 DEF PlacesInv
<1>2. CallsTyped /\ TxTyped /\ DrainedInv /\ PlacesInv /\ [Next]_vars => PlacesInv'
  BY PlacesPreserved
<1> QED
  BY <1>1, <1>2, CallsCorrect, TypesCorrect, DrainedCorrect, PTL DEF Spec

\* The lists of the frames the driver has, one after the other, in a state where
\* the state machine cancels none.
LEMMA PlacesJoined ==
    ASSUME TxTyped, smList = <<>>
    PROVE  /\ InPlaces \in Seq(Frames) /\ Len(InPlaces) = HeldCount
           /\ Range(InPlaces) = Held
           /\ Separate(Tx_qMpOwnedBDs, Tx_qDmaOwnedBDs, dpcList, idList) => IsInjective(InPlaces)
<1> DEFINE q == Tx_qMpOwnedBDs
           d == Tx_qDmaOwnedBDs
           a == q \o d
           b == a \o dpcList
<1>0. /\ q \in Seq(Frames) /\ d \in Seq(Frames) /\ dpcList \in Seq(Frames) /\ idList \in Seq(Frames)
  BY DEF TxTyped, IndicesTyped, ListsTyped
<1>1. /\ a \in Seq(Frames) /\ Len(a) = Len(q) + Len(d) /\ Range(a) = Range(q) \cup Range(d)
      /\ IsInjective(q) /\ IsInjective(d) /\ Range(q) \cap Range(d) = {} => IsInjective(a)
  BY <1>0, JoinLists
<1> HIDE DEF a
<1>2. /\ b \in Seq(Frames) /\ Len(b) = Len(a) + Len(dpcList) /\ Range(b) = Range(a) \cup Range(dpcList)
      /\ IsInjective(a) /\ IsInjective(dpcList) /\ Range(a) \cap Range(dpcList) = {} => IsInjective(b)
  BY <1>0, <1>1, JoinLists
<1> HIDE DEF b
<1>3. b \o smList = b
  BY <1>2, ConcatEmptySeq
<1>4. InPlaces = b \o idList
  BY <1>3 DEF InPlaces, a, b
<1>5. /\ InPlaces \in Seq(Frames) /\ Len(InPlaces) = Len(b) + Len(idList)
      /\ Range(InPlaces) = Range(b) \cup Range(idList)
      /\ IsInjective(b) /\ IsInjective(idList) /\ Range(b) \cap Range(idList) = {}
            => IsInjective(InPlaces)
  BY <1>0, <1>2, <1>4, JoinLists
<1>6. Len(InPlaces) = HeldCount
  BY <1>0, <1>1, <1>2, <1>5, LenProperties DEF HeldCount
<1>7. Range(InPlaces) = Held
  BY <1>1, <1>2, <1>5 DEF Held, Together
<1>8. ASSUME Separate(q, d, dpcList, idList) PROVE IsInjective(InPlaces)
  BY <1>1, <1>2, <1>5, <1>8 DEF Separate
<1> QED
  BY <1>5, <1>6, <1>7, <1>8

\* The descriptors between Tx_EnetPendingBDIdx and Tx_EnetFreeBDIdx carry exactly
\* the frames of Tx_qDmaOwnedBDs, and what a ready descriptor names is a frame
\* whose MP_TX_BD the driver still has (RingSound).
THEOREM RingIsSound == DrainedStops /\ EachSentOnce => (Spec => []RingSound)
<1> SUFFICES ASSUME DrainedStops, EachSentOnce PROVE Spec => []RingSound
  OBVIOUS
<1>1. ASSUME TxTyped, RingInv, PlacesInv PROVE RingSound
  <2>1. RingIsQueue
    BY <1>1 DEF RingInv, RingIsQueue
  <2>2. ASSUME NEW i \in Slots, R[i] PROVE pMpBD[i] # NULL /\ freed[pMpBD[i]] = 0
    <3> DEFINE d == Tx_qDmaOwnedBDs
               k == (i - Tx_EnetPendingBDIdx) % Ring
    <3>1. k < Len(d) /\ pMpBD[i] = d[k + 1]
      BY <1>1, <2>2, RingSlot
    <3>2. k \in Nat /\ d \in Seq(Frames)
      <4>1. Tx_EnetPendingBDIdx \in Slots /\ d \in Seq(Frames)
        BY <1>1 DEF TxTyped, IndicesTyped, ListsTyped
      <4> QED
        BY <4>1, SlotMinus DEF Slots
    <3> HIDE DEF d, k
    <3>3. k + 1 \in 1..Len(d) /\ k + 1 \in DOMAIN d
      BY <3>1, <3>2, LenProperties
    <3>4. d[k + 1] \in Frames /\ d[k + 1] \in Range(d)
      BY <3>2, <3>3, ElementOfSeq DEF Range
    <3>5. d[k + 1] \in Held
      BY <3>4 DEF Held, Together, d
    <3> QED
      BY <1>1, <3>1, <3>4, <3>5 DEF PlacesInv
  <2> QED
    BY <2>1, <2>2 DEF RingSound, MacSendsLiveFrames
<1> QED
  BY <1>1, TypesCorrect, DrainedCorrect, PlacesCorrect, PTL DEF DrainedInv

\* However sends, DPC, cancellations and pauses interleave, each frame is in one
\* place, counted once and its MP_TX_BD freed once (FramesAccounted).
THEOREM EachFrameAccounted == DrainedStops /\ EachSentOnce => (Spec => []FramesAccounted)
<1> SUFFICES ASSUME DrainedStops, EachSentOnce PROVE Spec => []FramesAccounted
  OBVIOUS
<1>1. ASSUME CallsTyped, TxTyped, DrainedInv, PlacesInv PROVE FramesAccounted
  <2>1. TypeOK
    <3>1. Tx_EnetFreeBDCount \in 0..Ring
      BY <1>1, RingFits DEF DrainedInv
    <3>2. \A c \in Calls :
             /\ send[c].pc \in {"idle", "alloc", "queue", "count", "discard", "kick", "done"}
             /\ send[c].nbl \in 1..Len(Chain[c])
             /\ send[c].nb \in 1..Len(NBsOf[CurrentNBL(c)])
             /\ send[c].bd \in BOOLEAN /\ send[c].queued \in BOOLEAN
      BY <1>1, Zenon DEF CallsTyped, CallState, SendPcs, AtFrame, CurrentNBL
    <3> QED
      BY <1>1, <3>1, <3>2, Zenon
      DEF TypeOK, TxTyped, IndicesTyped, ListsTyped, RingTyped, CountersTyped, StateTyped
  <2>2. /\ IsInjective(InPlaces) /\ Range(InPlaces) = Held /\ Len(InPlaces) = HeldCount
    BY <1>1, PlacesJoined DEF DrainedInv, StopInv, PlacesInv
  <2>3. PendingCounted
    BY <1>1, <2>2 DEF DrainedInv, CountInv, Uncounted, PendingCounted
  <2>4. FreedOnce
    <3>1. ASSUME NEW f \in Frames PROVE freed[f] + (IF f \in Held THEN 1 ELSE 0) <= 1
      <4>1. freed[f] \in Nat /\ freed[f] <= 1 /\ (f \in Held => freed[f] = 0)
        BY <1>1 DEF TxTyped, CountersTyped, PlacesInv
      <4> QED
        BY <4>1
    <3> QED
      BY <2>2, <3>1 DEF FreedOnce
  <2> QED
    BY <2>1, <2>2, <2>3, <2>4 DEF FramesAccounted, OnePlace
<1> QED
  BY <1>1, CallsCorrect, TypesCorrect, DrainedCorrect, PlacesCorrect, PTL
-----------------------------------------------------------------------------
(* No NBL is completed while the driver has its frame. *)

\* With one frame to an NBL, NblOf finds the NBL a frame is in.
LEMMA OwnNbl ==
    ASSUME EachSentOnce, OneFrameNbls
    PROVE  /\ \A l \in Nbls : \A f \in Range(NBsOf[l]) : f \in Frames /\ NblOf(f) = l
           /\ \A f \in Frames : NblOf(f) \in Nbls /\ NBsOf[NblOf(f)][1] = f
<1>1. ASSUME NEW l \in Nbls, NEW f \in Range(NBsOf[l]) PROVE f \in Frames /\ f = NBsOf[l][1]
  <2>1. NBsOf[l] \in Seq(Frames) /\ Len(NBsOf[l]) = 1
    BY Shapes DEF OneFrameNbls
  <2>2. DOMAIN NBsOf[l] = 1..1
    BY <2>1, LenProperties
  <2>3. PICK i \in 1..1 : f = NBsOf[l][i]
    BY <2>2 DEF Range
  <2>4. i = 1
    BY <2>3
  <2> QED
    BY <2>1, <2>3, <2>4, ElementOfSeq
<1>2. ASSUME NEW f \in Frames PROVE NblOf(f) \in Nbls /\ f \in Range(NBsOf[NblOf(f)])
  BY OwnerAssumption, Zenon DEF NblOf
<1>3. ASSUME NEW f \in Frames PROVE NblOf(f) \in Nbls /\ NBsOf[NblOf(f)][1] = f
  BY <1>1, <1>2
<1>4. ASSUME NEW l \in Nbls, NEW f \in Range(NBsOf[l]) PROVE NblOf(f) = l
  <2> DEFINE m == NblOf(f)
  <2>1. f \in Frames /\ NBsOf[l][1] = f /\ m \in Nbls /\ NBsOf[m][1] = f
    BY <1>1, <1>3
  <2> HIDE DEF m
  <2>2. 1 \in 1..Len(NBsOf[l]) /\ 1 \in 1..Len(NBsOf[m])
    BY <2>1 DEF OneFrameNbls
  <2>3. l = m
    BY <2>1, <2>2 DEF EachSentOnce
  <2> QED
    BY <2>3 DEF m
<1> QED
  BY <1>1, <1>3, <1>4

\* The frame a call works on is the frame of its NBL, and no other place of a chain
\* has that NBL.
LEMMA OwnCurrent ==
    ASSUME EachSentOnce, OneFrameNbls, CallsTyped, NEW c \in Calls
    PROVE  /\ CurrentNBL(c) \in Nbls /\ NblOf(CurrentNB(c)) = CurrentNBL(c)
           /\ \A f \in Frames : NblOf(f) = CurrentNBL(c) => f = CurrentNB(c)
           /\ \A e \in Calls \ {c} : CurrentNBL(e) # CurrentNBL(c)
           /\ \A e \in Calls : \A i \in 1..Len(Chain[e]) :
                 Chain[e][i] = CurrentNBL(c) => e = c /\ i = send[c].nbl
<1>1. \A e \in Calls : send[e].nbl \in 1..Len(Chain[e]) /\ CurrentNBL(e) = Chain[e][send[e].nbl]
  BY DEF CallsTyped, AtFrame, CurrentNBL
<1>2. /\ CurrentNBL(c) \in Nbls /\ send[c].nb \in 1..Len(NBsOf[CurrentNBL(c)])
      /\ CurrentNB(c) = NBsOf[CurrentNBL(c)][send[c].nb]
  BY Current DEF CallsTyped, AtFrame, CurrentNBL, CurrentNB
<1>3. CurrentNB(c) = NBsOf[CurrentNBL(c)][1] /\ CurrentNB(c) \in Range(NBsOf[CurrentNBL(c)])
  <2> DEFINE l == CurrentNBL(c)
             n == send[c].nb
  <2>1. l \in Nbls /\ n \in 1..Len(NBsOf[l]) /\ CurrentNB(c) = NBsOf[l][n]
    BY <1>2
  <2> HIDE DEF l, n
  <2>2. Len(NBsOf[l]) = 1 /\ NBsOf[l] \in Seq(Frames)
    BY <2>1, Shapes DEF OneFrameNbls
  <2>3. n = 1 /\ 1 \in DOMAIN NBsOf[l]
    BY <2>1, <2>2
  <2>4. CurrentNB(c) = NBsOf[l][1] /\ CurrentNB(c) \in Range(NBsOf[l])
    BY <2>1, <2>3 DEF Range
  <2> QED
    BY <2>4 DEF l
<1>4. NblOf(CurrentNB(c)) = CurrentNBL(c)
  BY <1>2, <1>3, OwnNbl
<1>5. ASSUME NEW f \in Frames, NblOf(f) = CurrentNBL(c) PROVE f = CurrentNB(c)
  BY <1>3, <1>5, OwnNbl
<1>6. ASSUME NEW e \in Calls, NEW i \in 1..Len(Chain[e]), Chain[e][i] = CurrentNBL(c)
      PROVE  e = c /\ i = send[c].nbl
  <2> DEFINE k == send[c].nbl
  <2>1. k \in 1..Len(Chain[c]) /\ Chain[e][i] = Chain[c][k]
    BY <1>1, <1>6
  <2> HIDE DEF k
  <2>2. e = c /\ i = k
    BY <2>1 DEF EachSentOnce
  <2> QED
    BY <2>2 DEF k
<1>7. \A e \in Calls \ {c} : CurrentNBL(e) # CurrentNBL(c)
  BY <1>1, <1>6
<1> QED
  BY <1>2, <1>4, <1>5, <1>6, <1>7

\* Only the counter of l changes, to n.  The frames of the other NBLs stay counted;
\* l counts its own after the step if the driver or a call then has it.
CounterSet(l, n) ==
    /\ NB_Counter' = [NB_Counter EXCEPT ![l] = n]
    /\ Held' \subseteq Frames
    /\ \A f \in Held' : IF NblOf(f) = l THEN n = 1 ELSE f \in Held
    /\ \A e \in Calls : send'[e].pc \in {"queue", "discard"} =>
          IF CurrentNBL(e)' = l THEN n = 1
          ELSE send[e].pc \in {"queue", "discard"} /\ UNCHANGED CurrentNBL(e)
    /\ \A e \in Calls : \A i \in 1..Len(Chain[e]) : Unbegun(e, i)' =>
          IF Chain[e][i] = l THEN n = 0 ELSE Unbegun(e, i)

LEMMA LiveMoves ==
    ASSUME EachSentOnce, OneFrameNbls, CallsTyped, LiveInv, NB_Counter \in [Nbls -> Int],
           NEW l \in Nbls, NEW n, CounterSet(l, n)
    PROVE  LiveInv'
<1> USE DEF CounterSet
<1>0. \A m \in Nbls : NB_Counter'[m] = IF m = l THEN n ELSE NB_Counter[m]
  OBVIOUS
<1>1. ASSUME NEW f \in Held' PROVE NB_Counter'[NblOf(f)] = 1
  <2>1. NblOf(f) \in Nbls
    BY OwnNbl
  <2> QED
    BY <1>0, <2>1 DEF LiveInv
<1>2. ASSUME NEW e \in Calls, send'[e].pc \in {"queue", "discard"}
      PROVE  NB_Counter'[CurrentNBL(e)'] = 1
  <2>1. CASE CurrentNBL(e)' = l
    BY <1>0, <1>2, <2>1
  <2>2. CASE CurrentNBL(e)' # l
    <3>1. /\ send[e].pc \in {"queue", "discard"} /\ CurrentNBL(e)' = CurrentNBL(e)
          /\ CurrentNBL(e) \in Nbls
      BY <1>2, <2>2, Current
    <3> QED
      BY <1>0, <2>2, <3>1 DEF LiveInv
  <2> QED
    BY <2>1, <2>2
<1>3. ASSUME NEW e \in Calls, NEW i \in 1..Len(Chain[e]), Unbegun(e, i)'
      PROVE  NB_Counter'[Chain[e][i]] = 0
  <2>1. Chain[e][i] \in Nbls
    BY Shapes, ElementOfSeq
  <2> QED
    BY <1>0, <1>3, <2>1 DEF LiveInv
<1> QED
  BY <1>1, <1>2, <1>3 DEF LiveInv

\* No counter changes, no frame is taken up and no call gets to a frame.
LEMMA LiveKept ==
    ASSUME LiveInv, UNCHANGED NB_Counter, Held' \subseteq Held,
           \A e \in Calls : send'[e].pc \in {"queue", "discard"} =>
              send[e].pc \in {"queue", "discard"} /\ UNCHANGED CurrentNBL(e),
           \A e \in Calls : \A i \in 1..Len(Chain[e]) : Unbegun(e, i)' => Unbegun(e, i)
    PROVE  LiveInv'
<1>1. \A f \in Held' : NB_Counter'[NblOf(f)] = 1
  BY DEF LiveInv
<1>2. \A e \in Calls : send'[e].pc \in {"queue", "discard"} => NB_Counter'[CurrentNBL(e)'] = 1
  BY DEF LiveInv
<1>3. \A e \in Calls : \A i \in 1..Len(Chain[e]) : Unbegun(e, i)' => NB_Counter'[Chain[e][i]] = 0
  BY DEF LiveInv
<1> QED
  BY <1>1, <1>2, <1>3 DEF LiveInv
\* A step of a call gets to the frame of no NBL but the one it has begun, and has
\* begun it from then on.
LEMMA CallBegins ==
    ASSUME OneFrameNbls, CallsTyped, NEW c \in Calls, MpSendNetBufferLists(c)
    PROVE  /\ \A e \in Calls \ {c} : send'[e] = send[e]
           /\ \A e \in Calls : \A i \in 1..Len(Chain[e]) : Unbegun(e, i)' =>
                 Unbegun(e, i) /\ (send[c].pc # "idle" => ~(e = c /\ i = send[c].nbl))
           /\ send'[c].pc \in {"queue", "discard"} =>
                 send[c].pc \in {"alloc", "queue"} /\ send'[c].nbl = send[c].nbl
<1>0. send[c] \in CallState /\ AtFrame(c, send[c]) /\ send \in [Calls -> CallState]
  BY DEF CallsTyped
<1> DEFINE Moves(call) ==
              /\ send' = [send EXCEPT ![c] = call] /\ call \in CallState
              /\ \/ send[c].pc = "idle" /\ call.pc \in {"alloc", "done"}
                 \/ call.pc \in {"kick", "done"}
                 \/ /\ send[c].pc = "alloc" /\ call.pc \in {"queue", "discard"}
                    /\ call.nbl = send[c].nbl
                 \/ /\ send[c].pc = "queue" /\ call.pc \in {"count", "discard"}
                    /\ call.nbl = send[c].nbl
                 \/ /\ send[c].pc \in {"count", "discard"} /\ call.pc = "alloc"
                    /\ call.nbl = send[c].nbl + 1
<1>1. \E call : Moves(call)
  <2>1. ASSUME NEW p \in SendPcs, send' = [send EXCEPT ![c].pc = p]
        PROVE  LET call == [send[c] EXCEPT !.pc = p]
               IN  /\ send' = [send EXCEPT ![c] = call] /\ call \in CallState
                   /\ call.pc = p /\ call.nbl = send[c].nbl
    BY <1>0, <2>1 DEF CallState
  <2>2. CASE SendCheckStatus(c)
    <3>1. PICK p \in {"alloc", "done"} : send' = [send EXCEPT ![c].pc = p] /\ send[c].pc = "idle"
      BY <2>2 DEF SendCheckStatus
    <3> QED
      BY <2>1, <3>1 DEF SendPcs
  <2>3. CASE SendAllocBD(c)
    <3>1. PICK p \in {"queue", "discard"}, b \in BOOLEAN :
             send' = [send EXCEPT ![c].pc = p, ![c].bd = b] /\ send[c].pc = "alloc"
      BY <2>3 DEF SendAllocBD
    <3> DEFINE call == [send[c] EXCEPT !.pc = p, !.bd = b]
    <3>2. /\ send' = [send EXCEPT ![c] = call] /\ call \in CallState
          /\ call.pc = p /\ call.nbl = send[c].nbl
      BY <1>0, <3>1 DEF CallState, SendPcs
    <3> HIDE DEF call
    <3> QED
      BY <3>1, <3>2
  <2>4. CASE SendQueue(c)
    <3>1. PICK p \in {"count", "discard"} : send' = [send EXCEPT ![c].pc = p] /\ send[c].pc = "queue"
      BY <2>4 DEF SendQueue
    <3> QED
      BY <2>1, <3>1 DEF SendPcs
  <2>5. CASE SendKick(c)
    <3>1. send' = [send EXCEPT ![c].pc = "done"]
      BY <2>5 DEF SendKick
    <3> QED
      BY <2>1, <3>1 DEF SendPcs
  <2>6. ASSUME NEW queued \in BOOLEAN, send[c].pc \in {"count", "discard"},
               send' = [send EXCEPT ![c] = AfterNBL(c, queued)]
        PROVE  \E call : Moves(call)
    <3> DEFINE call == AfterNBL(c, queued)
    <3>1. /\ call \in CallState
          /\ call.pc \in {"kick", "done"} \/ (call.pc = "alloc" /\ call.nbl = send[c].nbl + 1)
      BY AfterNBLTyped
    <3> HIDE DEF call
    <3>2. send' = [send EXCEPT ![c] = call]
      BY <2>6 DEF call
    <3> QED
      BY <2>6, <3>1, <3>2
  <2>7. CASE SendCount(c)
    <3>1. CurrentNBL(c) \in Nbls /\ send[c].nb \in 1..Len(NBsOf[CurrentNBL(c)])
      BY <1>0, Current DEF AtFrame, CurrentNBL
    <3>2. ~(send[c].nb < Len(NBsOf[CurrentNBL(c)]))
      <4>1. Len(NBsOf[CurrentNBL(c)]) = 1
        BY <3>1 DEF OneFrameNbls
      <4> QED
        BY <3>1, <4>1
    <3>3. send' = [send EXCEPT ![c] = AfterNBL(c, TRUE)] /\ send[c].pc = "count"
      BY <2>7, <3>2 DEF SendCount
    <3> QED
      BY <2>6, <3>3
  <2>8. CASE SendDiscard(c)
    <3>1. /\ send' = [send EXCEPT ![c] = AfterNBL(c, send[c].queued)]
          /\ send[c].queued \in BOOLEAN /\ send[c].pc = "discard"
      BY <1>0, <2>8 DEF SendDiscard, CallState
    <3> QED
      BY <2>6, <3>1
  <2> QED
    BY <2>2, <2>3, <2>4, <2>5, <2>7, <2>8 DEF MpSendNetBufferLists
<1>2. PICK call : Moves(call)
  BY <1>1
<1>3. send'[c] = call /\ \A e \in Calls \ {c} : send'[e] = send[e]
  BY <1>0, <1>2
<1>4. send[c].nbl \in Nat /\ call.nbl \in Nat
  BY <1>0, <1>2 DEF CallState
<1>5. ASSUME NEW e \in Calls, NEW i \in 1..Len(Chain[e]), Unbegun(e, i)'
      PROVE  Unbegun(e, i) /\ (send[c].pc # "idle" => ~(e = c /\ i = send[c].nbl))
  <2>1. CASE e # c
    BY <1>3, <1>5, <2>1 DEF Unbegun
  <2>2. CASE e = c
    <3>1. i \in Int
      BY Shapes
    <3> QED
      BY <1>2, <1>3, <1>4, <1>5, <2>2, <3>1 DEF Unbegun
  <2> QED
    BY <2>1, <2>2
<1>6. ASSUME send'[c].pc \in {"queue", "discard"}
      PROVE  send[c].pc \in {"alloc", "queue"} /\ send'[c].nbl = send[c].nbl
  BY <1>2, <1>3, <1>6
<1> QED
  BY <1>3, <1>5, <1>6
\* Every step keeps LiveInv.
LEMMA LivePreserved ==
    ASSUME DrainedStops, EachSentOnce, OneFrameNbls, CallsTyped, TxTyped, DrainedInv, PlacesInv,
           LiveInv, [Next]_vars
    PROVE  LiveInv'
<1> USE DEF queueVars, countVars, dpcVars
<1>0. NB_Counter \in [Nbls -> Int] /\ Held \subseteq Frames
  <2>1. /\ Tx_qMpOwnedBDs \in Seq(Frames) /\ Tx_qDmaOwnedBDs \in Seq(Frames)
        /\ dpcList \in Seq(Frames) /\ idList \in Seq(Frames)
    BY DEF TxTyped, IndicesTyped, ListsTyped
  <2>2. ASSUME NEW s \in Seq(Frames) PROVE Range(s) \subseteq Frames
    BY ElementOfSeq, LenProperties DEF Range
  <2>3. Held \subseteq Frames
    BY <2>1, <2>2 DEF Held, Together
  <2> QED
    BY <2>3 DEF TxTyped, CountersTyped
<1>1. ASSUME UNCHANGED <<send, NB_Counter>>, Held' = Held PROVE LiveInv'
  BY <1>1, LiveKept DEF CurrentNBL, Unbegun
<1>2. ASSUME NEW c \in Calls, MpSendNetBufferLists(c) PROVE LiveInv'
  <2> DEFINE l == CurrentNBL(c)
  <2>1. /\ \A e \in Calls \ {c} : send'[e] = send[e]
        /\ \A e \in Calls : \A i \in 1..Len(Chain[e]) : Unbegun(e, i)' =>
              Unbegun(e, i) /\ (send[c].pc # "idle" => ~(e = c /\ i = send[c].nbl))
        /\ send'[c].pc \in {"queue", "discard"} =>
              send[c].pc \in {"alloc", "queue"} /\ send'[c].nbl = send[c].nbl
    BY <1>2, CallBegins
  <2>2. /\ \A e \in Calls \ {c} : UNCHANGED CurrentNBL(e)
        /\ send'[c].pc \in {"queue", "discard"} => UNCHANGED CurrentNBL(c)
    BY <2>1 DEF CurrentNBL
  <2>3. /\ l \in Nbls /\ NblOf(CurrentNB(c)) = l
        /\ \A f \in Frames : NblOf(f) = l => f = CurrentNB(c)
        /\ \A e \in Calls \ {c} : CurrentNBL(e) # l
        /\ \A e \in Calls : \A i \in 1..Len(Chain[e]) :
              Chain[e][i] = l => e = c /\ i = send[c].nbl
    BY OwnCurrent
  <2>4. CASE SendCheckStatus(c) \/ SendCount(c) \/ SendKick(c)
    <3>1. UNCHANGED NB_Counter /\ send[c].pc \in {"idle", "count", "kick"}
      BY <2>4 DEF SendCheckStatus, SendCount, SendKick
    <3>2. Held' = Held
      <4>1. \/ UNCHANGED <<queueVars, dpcList, idList>>
            \/ MpSendNextNB /\ UNCHANGED <<dpcList, idList>>
        BY <2>4 DEF SendCheckStatus, SendCount, SendKick
      <4> QED
        BY <4>1, HeldMoves
    <3>3. \A e \in Calls : send'[e].pc \in {"queue", "discard"} =>
             send[e].pc \in {"queue", "discard"} /\ UNCHANGED CurrentNBL(e)
      BY <2>1, <2>2, <3>1
    <3> QED
      BY <2>1, <3>1, <3>2, <3>3, LiveKept
  <2>5. CASE SendAllocBD(c)
    <3>1. /\ NB_Counter' = [NB_Counter EXCEPT ![l] = NB_Counter[l] + 1] /\ send[c].pc = "alloc"
          /\ UNCHANGED <<queueVars, dpcList, idList>>
      BY <2>5 DEF SendAllocBD
    <3>2. Held' = Held
      BY <3>1, HeldMoves
    <3>3. NB_Counter[l] = 0
      <4> DEFINE k == send[c].nbl
      <4>1. k \in 1..Len(Chain[c]) /\ l = Chain[c][k]
        BY DEF CallsTyped, AtFrame, CurrentNBL
      <4>2. Unbegun(c, k)
        BY <3>1 DEF Unbegun
      <4> HIDE DEF k, l
      <4> QED
        BY <4>1, <4>2 DEF LiveInv
    <3> HIDE DEF l
    <3>4. NB_Counter' = [NB_Counter EXCEPT ![l] = 1]
      BY <3>1, <3>3
    <3>5. \A e \in Calls : send'[e].pc \in {"queue", "discard"} =>
             IF CurrentNBL(e)' = l THEN 1 = 1
             ELSE send[e].pc \in {"queue", "discard"} /\ UNCHANGED CurrentNBL(e)
      BY <2>1, <2>2 DEF l
    <3>6. \A e \in Calls : \A i \in 1..Len(Chain[e]) : Unbegun(e, i)' =>
             IF Chain[e][i] = l THEN 1 = 0 ELSE Unbegun(e, i)
      BY <2>1, <2>3, <3>1
    <3>7. \A f \in Held' : IF NblOf(f) = l THEN 1 = 1 ELSE f \in Held
      BY <3>2
    <3>8. CounterSet(l, 1)
      BY <1>0, <2>3, <3>2, <3>4, <3>5, <3>6, <3>7 DEF CounterSet
    <3> QED
      BY <1>0, <2>3, <3>8, LiveMoves
  <2>6. CASE SendQueue(c)
    <3>1. /\ send[c].pc = "queue" /\ UNCHANGED NB_Counter /\ UNCHANGED <<Tx_qDmaOwnedBDs, dpcList, idList>>
          /\ Tx_qMpOwnedBDs' = Append(Tx_qMpOwnedBDs, CurrentNB(c)) \/ UNCHANGED Tx_qMpOwnedBDs
      BY <2>6 DEF SendQueue
    <3>2. Held' = Held \/ Held' = Held \cup {CurrentNB(c)}
      BY <3>1, HeldMoves, HeldQueued
    <3>3. NB_Counter[l] = 1
      BY <3>1 DEF LiveInv
    <3> HIDE DEF l
    <3>4. NB_Counter' = [NB_Counter EXCEPT ![l] = 1]
      BY <1>0, <2>3, <3>1, <3>3
    <3>5. \A e \in Calls : send'[e].pc \in {"queue", "discard"} =>
             IF CurrentNBL(e)' = l THEN 1 = 1
             ELSE send[e].pc \in {"queue", "discard"} /\ UNCHANGED CurrentNBL(e)
      BY <2>1, <2>2, <3>1
    <3>6. \A e \in Calls : \A i \in 1..Len(Chain[e]) : Unbegun(e, i)' =>
             IF Chain[e][i] = l THEN 1 = 0 ELSE Unbegun(e, i)
      BY <2>1, <2>3, <3>1
    <3>7. Held' \subseteq Frames /\ \A f \in Held' : IF NblOf(f) = l THEN 1 = 1 ELSE f \in Held
      BY <1>0, <2>3, <3>2, Current
    <3>8. CounterSet(l, 1)
      BY <1>0, <2>3, <3>4, <3>5, <3>6, <3>7 DEF CounterSet
    <3> QED
      BY <1>0, <2>3, <3>8, LiveMoves
  <2>7. CASE SendDiscard(c)
    <3>1. /\ send[c].pc = "discard" /\ NB_Counter' = [NB_Counter EXCEPT ![l] = NB_Counter[l] - 1]
          /\ UNCHANGED <<queueVars, dpcList, idList>>
      BY <2>7 DEF SendDiscard
    <3>2. Held' = Held
      BY <3>1, HeldMoves
    <3>3. NB_Counter[l] = 1 /\ CurrentNB(c) \notin Held
      BY <3>1, HeldQueued DEF LiveInv
    <3> HIDE DEF l
    <3>4. NB_Counter' = [NB_Counter EXCEPT ![l] = 0]
      BY <3>1, <3>3
    <3>5. \A e \in Calls : send'[e].pc \in {"queue", "discard"} =>
             IF CurrentNBL(e)' = l THEN 0 = 1
             ELSE send[e].pc \in {"queue", "discard"} /\ UNCHANGED CurrentNBL(e)
      BY <2>1, <2>2, <2>3, <3>1
    <3>6. \A e \in Calls : \A i \in 1..Len(Chain[e]) : Unbegun(e, i)' =>
             IF Chain[e][i] = l THEN 0 = 0 ELSE Unbegun(e, i)
      BY <2>1
    <3>7. \A f \in Held' : IF NblOf(f) = l THEN 0 = 1 ELSE f \in Held
      BY <1>0, <2>3, <3>2, <3>3
    <3>8. CounterSet(l, 0)
      BY <1>0, <2>3, <3>2, <3>4, <3>5, <3>6, <3>7 DEF CounterSet
    <3> QED
      BY <1>0, <2>3, <3>8, LiveMoves
  <2> QED
    BY <1>2, <2>4, <2>5, <2>6, <2>7 DEF MpSendNetBufferLists
<1>3. CASE DpcUnwinds \/ CancelUnwinds
  <2>1. PICK g \in Frames :
           g \in Held /\ Held' = Held \ {g} /\ MpTxUnwindNetBuffer(g) /\ UNCHANGED send
    BY <1>3, HeldMoves
  <2> DEFINE l == NblOf(g)
  <2>2. NB_Counter' = [NB_Counter EXCEPT ![l] = NB_Counter[l] - 1] /\ NB_Counter[l] = 1
    BY <2>1 DEF MpTxUnwindNetBuffer, LiveInv
  <2>3. l \in Nbls /\ \A f \in Frames : NblOf(f) = l => f = g
    BY OwnNbl
  <2> HIDE DEF l
  <2>4. NB_Counter' = [NB_Counter EXCEPT ![l] = 0]
    BY <2>2
  <2>5. \A e \in Calls : send'[e].pc \in {"queue", "discard"} =>
           IF CurrentNBL(e)' = l THEN 0 = 1
           ELSE send[e].pc \in {"queue", "discard"} /\ UNCHANGED CurrentNBL(e)
    <3>1. ASSUME NEW e \in Calls, send[e].pc \in {"queue", "discard"} PROVE CurrentNBL(e) # l
      <4>1. CurrentNB(e) \notin Held
        BY <3>1, HeldQueued
      <4>2. g = CurrentNB(e) \/ CurrentNBL(e) # l
        BY OwnCurrent DEF l
      <4> QED
        BY <2>1, <4>1, <4>2
    <3> QED
      BY <2>1, <3>1 DEF CurrentNBL
  <2>6. \A e \in Calls : \A i \in 1..Len(Chain[e]) : Unbegun(e, i)' =>
           IF Chain[e][i] = l THEN 0 = 0 ELSE Unbegun(e, i)
    BY <2>1 DEF Unbegun
  <2>7. Held' \subseteq Frames /\ \A f \in Held' : IF NblOf(f) = l THEN 0 = 1 ELSE f \in Held
    BY <1>0, <2>1, <2>3
  <2>8. CounterSet(l, 0)
    BY <1>0, <2>3, <2>4, <2>5, <2>6, <2>7 DEF CounterSet
  <2> QED
    BY <1>0, <2>3, <2>8, LiveMoves
<1>4. CASE MpHandleTxInterrupt \/ MpCancelSendNetBufferLists \/ DpcKicks
  <2>1. UNCHANGED <<send, NB_Counter>>
    BY <1>4 DEF MpHandleTxInterrupt, MpCancelSendNetBufferLists, DpcKicks
  <2>2. Held' = Held
    BY <1>4, HeldMoves DEF DpcKicks
  <2> QED
    BY <1>1, <2>1, <2>2
<1>5. ASSUME UNCHANGED <<NB_Counter, send, queueVars, dpcList, idList>> PROVE LiveInv'
  BY <1>1, <1>5, HeldMoves
<1>6. CASE Sm
  BY <1>5, <1>6, SmKeepsFrames
<1>7. CASE MacSends \/ EnetIsr \/ EnetDpcReadEvents \/ EnetDpcEnables
  BY <1>5, <1>7 DEF MacSends, EnetIsr, EnetDpcReadEvents, EnetDpcEnables
<1>8. CASE UNCHANGED vars
  BY <1>5, <1>8 DEF vars
<1> QED
  BY <1>2, <1>3, <1>4, <1>6, <1>7, <1>8 DEF Next, EnetDpc

\* With one frame to an NBL and no stop but of a drained adapter, NDIS gets each NBL
\* back once, and never while the driver has its frame or a call is still working on
\* it (CompletedOnce).
THEOREM NblsCompletedOnce ==
    DrainedStops /\ EachSentOnce /\ OneFrameNbls => (Spec => []CompletedOnce)
<1> SUFFICES ASSUME DrainedStops, EachSentOnce, OneFrameNbls PROVE Spec => []CompletedOnce
  OBVIOUS
<1>1. Init => OnceInv /\ LiveInv
  <2> SUFFICES ASSUME Init PROVE OnceInv /\ LiveInv
    OBVIOUS
  <2>1. \A c \in Calls : \A i \in 1..Len(Chain[c]) : Chain[c][i] \in Nbls
    BY Shapes, ElementOfSeq
  <2>2. OnceInv
    BY <2>1 DEF Init, OnceInv
  <2>3. Held = {}
    <3>1. Range(<<>>) = {}
      BY EmptySeq DEF Range
    <3> QED
      BY <3>1 DEF Init, Held, Together
  <2>4. LiveInv
    BY <2>1, <2>3 DEF Init, LiveInv
  <2> QED
    BY <2>2, <2>4
<1>2. CallsTyped /\ OnceInv /\ [Next]_vars => OnceInv'
  BY OncePreserved
<1>3. CallsTyped /\ TxTyped /\ DrainedInv /\ PlacesInv /\ LiveInv /\ [Next]_vars => LiveInv'
  BY LivePreserved
<1>4. ASSUME CallsTyped, TxTyped, DrainedInv, OnceInv, LiveInv PROVE CompletedOnce
  <2>1. Range(InPlaces) = Held
    BY <1>4, PlacesJoined DEF DrainedInv, StopInv
  <2>2. ASSUME NEW l \in Nbls, completed[l] = 1 PROVE NB_Counter[l] # 1
    <3>1. NB_Counter[l] \in Int /\ NB_Counter[l] + completed[l] <= 1
      BY <1>4 DEF OnceInv
    <3> QED
      BY <2>2, <3>1
  <2>3. ASSUME NEW l \in Nbls, completed[l] = 1, NEW f \in Range(NBsOf[l]) PROVE f \notin Held
    <3>1. NblOf(f) = l
      BY OwnNbl
    <3> QED
      BY <1>4, <2>2, <2>3, <3>1 DEF LiveInv
  <2>4. ASSUME NEW l \in Nbls, completed[l] = 1, NEW c \in Calls, CurrentNBL(c) = l
        PROVE  send[c].pc \notin {"alloc", "queue"}
    <3>1. send[c].pc # "queue"
      BY <1>4, <2>2, <2>4 DEF LiveInv
    <3>2. ASSUME send[c].pc = "alloc" PROVE FALSE
      <4> DEFINE k == send[c].nbl
      <4>1. k \in 1..Len(Chain[c]) /\ l = Chain[c][k]
        BY <1>4, <2>4 DEF CallsTyped, AtFrame, CurrentNBL
      <4>2. Unbegun(c, k)
        BY <3>2 DEF Unbegun
      <4> HIDE DEF k
      <4>3. completed[Chain[c][k]] = 0
        BY <1>4, <4>1, <4>2 DEF OnceInv
      <4> QED
        BY <2>4, <4>1, <4>3
    <3> QED
      BY <3>1, <3>2
  <2> QED
    BY <1>4, <2>1, <2>3, <2>4 DEF CompletedOnce, OnceInv
<1> QED
  BY <1>1, <1>2, <1>3, <1>4, CallsCorrect, TypesCorrect, DrainedCorrect, PlacesCorrect, PTL DEF Spec


=============================================================================
