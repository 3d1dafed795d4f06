----------------------------- MODULE MdioDevice -----------------------------
(***************************************************************************)
(* What mp_mdio.h promises the PHY engine of every adapter: frames queued   *)
(* with MDIODev_QueueCommand are transferred in order, one callback per     *)
(* frame with that frame's own result, the command is pending until its last*)
(* frame is done, and nothing is called back once the device is gone. The   *)
(* bus, its thread and its timer do not show, and neither does one device to*)
(* another.                                                                 *)
(***************************************************************************)
EXTENDS Sequences

CONSTANTS
    Devices,
    CommandsOf, \* the sequences of frames a command of each device may consist of
    Nothing     \* the result of no frame

VARIABLES attached, queue, CmdPending, result

vars == <<attached, queue, CmdPending, result>>

Init ==
    /\ attached = [d \in Devices |-> FALSE] /\ queue = [d \in Devices |-> <<>>]
    /\ CmdPending = [d \in Devices |-> FALSE] /\ result = [d \in Devices |-> Nothing]

\* The adapter's memory is new, or nothing of it is looked at any more.
Cleared(d) ==
    /\ queue' = [queue EXCEPT ![d] = <<>>]
    /\ CmdPending' = [CmdPending EXCEPT ![d] = FALSE]
    /\ result' = [result EXCEPT ![d] = Nothing]

Attach(d) == ~attached[d] /\ attached' = [attached EXCEPT ![d] = TRUE] /\ Cleared(d)
Detach(d) == attached[d] /\ attached' = [attached EXCEPT ![d] = FALSE] /\ Cleared(d)

Queue(d, frames) ==
    /\ attached[d]
    /\ queue' = [queue EXCEPT ![d] = @ \o frames]
    /\ CmdPending' = [CmdPending EXCEPT ![d] = TRUE]
    /\ UNCHANGED <<attached, result>>

\* The oldest frame is done: the callbacks are called.
FrameDone(d) ==
    /\ attached[d] /\ queue[d] # <<>>
    /\ queue' = [queue EXCEPT ![d] = Tail(@)]
    /\ result' = [result EXCEPT ![d] = Head(queue[d])]
    /\ CmdPending' = [CmdPending EXCEPT ![d] = @ /\ ~Head(queue[d]).last]
    /\ UNCHANGED attached

Next == \E d \in Devices :
    \/ Attach(d) \/ Detach(d) \/ FrameDone(d)
    \/ \E frames \in CommandsOf[d] : Queue(d, frames)

Safety == Init /\ [][Next]_vars
Spec == Safety /\ \A d \in Devices : WF_vars(FrameDone(d))
=============================================================================
