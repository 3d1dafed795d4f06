-------------------------- MODULE MCMpStateMachine --------------------------
(* Small instances of MpStateMachine for TLC. *)
EXTENDS MpStateMachine

CONSTANTS Down, L10, L100

MCLinkStates == {NoLink, Down, L10, L100}
MCConnected  == {L10, L100}
\* The cable may come but is never lost.
OnlyUp == {<<NoLink, Down>>} \cup ({NoLink, Down} \X MCConnected)
\* It may be lost and found again, by another partner; the PHY engine reports the loss
\* in between.
Flaps == OnlyUp \cup (MCConnected \X {Down})
PausedOnly == {"Paused"}
PausedOrRunning == {"Paused", "Running"}
=============================================================================
