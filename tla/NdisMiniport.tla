---------------------------- MODULE NdisMiniport ----------------------------
(***************************************************************************)
(* What a miniport promises NDIS over the life of one adapter: a pause, a  *)
(* reset and a halt are each answered once, by their own completion, in    *)
(* the phase that waits for it; and the driver runs code of its own        *)
(* (ticking) only between a restart and the end of a pause and, to stop    *)
(* the hardware, during a halt. The adapter is freed only when it no       *)
(* longer does.                                                            *)
(***************************************************************************)

VARIABLES
    phase,     \* what NDIS believes of the adapter
    ticking    \* the driver still has code to run for it

vars == <<phase, ticking>>

Init == phase = "Paused" /\ ticking = FALSE

Moves(from, to) == phase = from /\ phase' = to

Restart       == Moves("Paused", "Running") /\ ticking' = TRUE
Pause         == Moves("Running", "Pausing") /\ UNCHANGED ticking
PauseComplete == Moves("Pausing", "Paused") /\ ticking' = FALSE

\* NDIS finds the adapter hung and calls MiniportResetEx.
Hang          == Moves("Running", "Hung") /\ UNCHANGED ticking
ResetCall     == Moves("Hung", "ResetCall") /\ UNCHANGED ticking
ResetPending  == Moves("ResetCall", "Resetting") /\ UNCHANGED ticking
ResetComplete == Moves("Resetting", "Running") /\ UNCHANGED ticking

Halt          == Moves("Paused", "Halting") /\ ticking' = TRUE
\* The last code of the driver; a halt that timed out may have left it behind.
Stopped       == phase \in {"Halting", "Leaked"} /\ ticking' = FALSE /\ UNCHANGED phase
Free          == Moves("Halting", "Freed") /\ ~ticking /\ UNCHANGED ticking
Leak          == Moves("Halting", "Leaked") /\ ticking /\ UNCHANGED ticking

Next == \/ Restart \/ Pause \/ PauseComplete
        \/ Hang \/ ResetCall \/ ResetPending \/ ResetComplete
        \/ Halt \/ Stopped \/ Free \/ Leak

Spec == Init /\ [][Next]_vars

=============================================================================
