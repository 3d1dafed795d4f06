---------------------------- MODULE MCPhyEngine ----------------------------
(* Small instances of PhyEngine for TLC. *)
EXTENDS PhyEngine

AllLow == {"10HD", "10FD", "100HD", "100FD"}

\* A gigabit PHY, a 10/100 PHY, and one that cannot negotiate.
ThreePhys == {[abilities |-> AllLow \cup {"AN", "EXT"}, es |-> {"1000HD", "1000FD"}],
              [abilities |-> AllLow \cup {"AN"}, es |-> {}],
              [abilities |-> {"100HD", "100FD"}, es |-> {}]}
\* SpeedSelect at its default.
Everything == Properties
\* As the driver would set it up, without 1 Gb/s, and forced to 100 Mb/s.
ThreeBoots == {[C |-> [an |-> TRUE, mode |-> "10HD"], ANA |-> AllLow \cup Flow,
                G |-> {"1000HD", "1000FD"}],
               [C |-> [an |-> TRUE, mode |-> "10HD"], ANA |-> AllLow, G |-> {}],
               [C |-> [an |-> FALSE, mode |-> "100FD"], ANA |-> {}, G |-> {}]}
\* Gigabit partners with and without pause frames, and a 10/100 one.
ThreePartners == {AllLow \cup {"1000FD", "PAUSE", "AN"}, AllLow \cup {"1000FD", "AN"},
                  AllLow \cup {"AN"}}
\* A 10BASE-T hub.
Hub == {{"10HD", "AN"}}
TwoInitFrames == <<[op |-> "init"], [op |-> "init"]>>
=============================================================================
