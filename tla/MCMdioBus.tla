----------------------------- MODULE MCMdioBus -----------------------------
(* Small instances of MdioBus for TLC: two PHYs on one controller. *)
EXTENDS MdioBus, TLC

CONSTANTS d1, d2, b1

Phy(addr, maxClk, minHold) == [addr |-> addr, clk |-> 266000, maxClk |-> maxClk, minHold |-> minHold]

\* The defaults of mp_main.c at the clock of the boards' ACPI tables; a second
\* PHY that is slower and wants its data held for seven cycles.
TwoPhys == (d1 :> Phy(0, 2500, 10)) @@ (d2 :> Phy(1, 2100, 21))
\* Both PHYs have the same address; the second cannot be clocked slowly enough.
SameAddress == (d1 :> Phy(0, 2500, 10)) @@ (d2 :> Phy(0, 2500, 10))
TooSlow == (d1 :> Phy(0, 2500, 10)) @@ (d2 :> Phy(1, 2000, 10))
MCConfigs == {TwoPhys, SameAddress, TooSlow}

\* A PHY that wants its data held for eight cycles.
LongHold == {(d1 :> Phy(0, 2500, 24)) @@ (d2 :> Phy(1, 2500, 10))}
=============================================================================
