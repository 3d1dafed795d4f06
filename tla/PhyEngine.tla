----------------------------- MODULE PhyEngine -----------------------------
(***************************************************************************)
(* The PHY state engine of imxnetmini (mp_enet_phy.c), the MDIO commands it *)
(* queues (MDIODev_QueueCommand, mp_mdio.c) and the set-up of the MAC for   *)
(* the link it finds (EnetOnLinkStateChanged, mp_hw.c). The engine is called*)
(* by every run of MpSmDispatcher; the bus thread transfers the queued     *)
(* frames one by one in between, and the cable may be pulled at any time.  *)
(*                                                                         *)
(* Link properties, registers' mode bits included, are sets of names. The  *)
(* PHY itself is external: it follows IEEE 802.3 in that the link status of *)
(* S latches low until it is read, a restart of the negotiation drops the  *)
(* link, and the link comes up when the negotiation is complete.           *)
(***************************************************************************)
EXTENDS Integers, Sequences

CONSTANTS
    Phys,       \* PHYs: what S and ES say of their abilities
    Requested,  \* PHYDev_LinkPropertiesToAdvertise, from the registry
    Boots,      \* how the boot loader may leave the registers C, ANA and 1000_C
    Partners,   \* link partners: the properties they advertise
    InitCmd,    \* the frames of PHYDev_pInitCmd, from ACPI
    MaxPlugs    \* bound: partners plugged in

LowModes == {"10HD", "10FD", "100HD", "100FD"}
GigaModes == {"1000HD", "1000FD"}
Flow == {"PAUSE", "ASYM"}
Properties == LowModes \cup GigaModes \cup Flow \cup {"AN"}

ASSUME PhyAssumption ==
    /\ Phys \subseteq [abilities : SUBSET (LowModes \cup {"AN", "EXT"}), es : SUBSET GigaModes]
    /\ Requested \subseteq Properties
    /\ Boots \subseteq [C : [an : BOOLEAN, mode : LowModes \cup GigaModes],
                        ANA : SUBSET (LowModes \cup Flow), G : SUBSET GigaModes]
    /\ Partners \subseteq SUBSET Properties
    /\ InitCmd \in Seq([op : {"init"}]) /\ MaxPlugs \in Nat

VARIABLES
    PHYDev_CurrentState, MIIRegs,
    LinkPropertiesToAdvertise, SupportedLinkProperties,
    AdvertisedLinkProperties, LinkPartnerLinkProperties,
    PHYDev_LinkState,
    mac,                    \* the speed and duplex bits of ECR, RCR and TCR
    pending, CmdPending,    \* the frames queued at the MDIO device
    phy, hw,                \* the PHY and its registers
    link, latch, wire,      \* its link, whether it fell since S was read, its mode
    partner, plugs

engineVars == <<PHYDev_CurrentState, LinkPropertiesToAdvertise, SupportedLinkProperties,
                AdvertisedLinkProperties, LinkPartnerLinkProperties, PHYDev_LinkState, mac>>
mdioVars == <<pending, CmdPending>>
phyVars  == <<phy, hw, link, latch, wire, partner, plugs>>
vars     == <<engineVars, MIIRegs, mdioVars, phyVars>>

NoPartner == {}
NoStatus == [up |-> FALSE, complete |-> FALSE, abilities |-> {}]

Init ==
    /\ PHYDev_CurrentState = "NOT_INITIALIZED"
    /\ MIIRegs = [S |-> NoStatus, ES |-> {}, C |-> [an |-> FALSE, mode |-> "10HD"],
                  ANA |-> {}, G |-> {}, LPA |-> {}, GS |-> {}]
    /\ LinkPropertiesToAdvertise = Requested
    /\ SupportedLinkProperties = {} /\ AdvertisedLinkProperties = {}
    /\ LinkPartnerLinkProperties = {}
    /\ PHYDev_LinkState = "Unknown"
    /\ mac = [speed |-> 100, half |-> FALSE]
    /\ pending = <<>> /\ CmdPending = FALSE
    /\ phy \in Phys
    /\ \E b \in Boots : hw = [C |-> b.C, ANA |-> b.ANA, G |-> b.G, LPA |-> {}, GS |-> {}]
    /\ link = FALSE /\ latch \in BOOLEAN /\ wire = "10HD"
    /\ partner = NoPartner /\ plugs = 0

-----------------------------------------------------------------------------
(* The decoders of the MII registers *)

\* The order of preference of MII_GetSelectedLinkProperties, and of 802.3.
Preference == <<"1000FD", "1000HD", "100FD", "100HD", "10FD", "10HD">>
HasMode(props) == props \cap (LowModes \cup GigaModes) # {}
Best(props) == Preference[CHOOSE i \in 1..6 :
    Preference[i] \in props /\ \A j \in 1..i - 1 : Preference[j] \notin props]

\* The two 10BASE-T bits change places wherever S, ANA and LPA are decoded, and
\* again where ANA is encoded.
Swap10(props) ==
    (props \ {"10HD", "10FD"}) \cup (IF "10HD" \in props THEN {"10FD"} ELSE {})
                               \cup (IF "10FD" \in props THEN {"10HD"} ELSE {})

HasExtended == "EXT" \in MIIRegs.S.abilities

MII_GetSupportedLinkProperties ==
    Flow \cup (MIIRegs.S.abilities \cap {"AN"}) \cup Swap10(MIIRegs.S.abilities \cap LowModes)
         \cup (IF HasExtended THEN MIIRegs.ES ELSE {})

MII_GetAdvertisedLinkProperties ==
    IF MIIRegs.C.an
    THEN {"AN"} \cup Swap10(MIIRegs.ANA) \cup (IF HasExtended THEN MIIRegs.G ELSE {})
    ELSE {MIIRegs.C.mode}

MII_GetLinkPartnerLinkProperties ==
    IF ~MIIRegs.C.an THEN LowModes \cup GigaModes
    ELSE {"AN"} \cup IF ~MIIRegs.S.complete THEN {}
         ELSE Swap10(MIIRegs.LPA) \cup (IF HasExtended THEN MIIRegs.GS ELSE {})

MII_GetSelectedLinkProperties(advertised, linkPartner) ==
    LET props == SupportedLinkProperties \cap advertised \cap linkPartner
    IN  IF HasMode(props) THEN Best(props) ELSE "Disconnected"

\* The MAC runs at 100 Mb/s, full duplex, unless told otherwise.
EnetOnLinkStateChanged(state) ==
    mac' = [speed |-> CASE state \in GigaModes -> 1000
                        [] state \in {"10HD", "10FD"} -> 10
                        [] OTHER -> 100,
            half  |-> state \in {"10HD", "100HD", "1000HD"}]

-----------------------------------------------------------------------------
(* Commands: sequences of MII frames, the last one with PHYCmd_CmdDone_Callback *)

Read(reg)       == [op |-> "read", reg |-> reg]
Write(reg, val) == [op |-> "write", reg |-> reg, val |-> val]

PHYCmd_GetStatusRegCmd  == <<Read("S")>>
PHYCmd_GetStatusRegsCmd == <<Read("ES"), Read("S")>>

\* Mutant of PHYCmd_GetConfig100Cmd: the status is read first.
StatusReadFirst == <<Read("S"), Read("C"), Read("ANA"), Read("LPA")>>

PHYCmd_GetConfig100Cmd  == <<Read("C"), Read("ANA"), Read("LPA"), Read("S")>>
PHYCmd_GetConfig1000Cmd == <<Read("G"), Read("GS")>> \o PHYCmd_GetConfig100Cmd

\* The negotiation is always restarted when it is enabled.
MII_SetLinkPropertiesCmd(supported, props) ==
    LET p == supported \cap props
    IN  IF "AN" \in p
        THEN <<Write("ANA", Swap10(p \cap (LowModes \cup Flow)))>>
             \o (IF HasExtended THEN <<Write("G", p \cap GigaModes)>> ELSE <<>>)
             \o <<Write("C", [an |-> TRUE, mode |-> "10HD"])>>
        ELSE <<Write("C", [an |-> FALSE, mode |-> IF HasMode(p) THEN Best(p) ELSE "10HD"])>>

MDIODev_QueueCommand(frames) ==
    /\ pending' = pending \o frames
    /\ CmdPending' = TRUE

-----------------------------------------------------------------------------
(* MII_StateEngine: one action per state, taken when no command is pending *)

Engine(state) == PHYDev_CurrentState = state /\ ~CmdPending

NextState(state, frames) ==
    /\ PHYDev_CurrentState' = state
    /\ MDIODev_QueueCommand(frames)
    /\ UNCHANGED <<MIIRegs, phyVars>>

NoReport == UNCHANGED <<PHYDev_LinkState, mac>>
Report(state) == PHYDev_LinkState' = state /\ EnetOnLinkStateChanged(state)

NotInitialized ==
    /\ Engine("NOT_INITIALIZED")
    /\ NextState("INITIALIZED", InitCmd \o PHYCmd_GetStatusRegsCmd)
    /\ NoReport
    /\ UNCHANGED <<LinkPropertiesToAdvertise, SupportedLinkProperties,
                   AdvertisedLinkProperties, LinkPartnerLinkProperties>>

\* PHYDev_pGetLinkConfigCmd
GetLinkConfigCmd == IF HasExtended THEN PHYCmd_GetConfig1000Cmd ELSE PHYCmd_GetConfig100Cmd

Initialized ==
    /\ Engine("INITIALIZED")
    /\ SupportedLinkProperties' = MII_GetSupportedLinkProperties
    /\ LinkPropertiesToAdvertise' = LinkPropertiesToAdvertise \cap SupportedLinkProperties'
    /\ IF MIIRegs.S.up
       THEN NextState("DEFAULT_CFG_RAED", GetLinkConfigCmd)
       ELSE NextState("LINK_DOWN",
              MII_SetLinkPropertiesCmd(SupportedLinkProperties', LinkPropertiesToAdvertise')
              \o PHYCmd_GetStatusRegCmd)
    /\ NoReport
    /\ UNCHANGED <<AdvertisedLinkProperties, LinkPartnerLinkProperties>>

\* The negotiation starts anew with the given properties.
Reconfigure(props) ==
    /\ NextState("LINK_DOWN", MII_SetLinkPropertiesCmd(SupportedLinkProperties, props)
                              \o PHYCmd_GetStatusRegCmd)
    /\ NoReport

\* The configuration the boot loader left is kept if it is the requested one.
DefaultCfgRead ==
    /\ Engine("DEFAULT_CFG_RAED")
    /\ \/ /\ MIIRegs.S.up
          /\ AdvertisedLinkProperties' = MII_GetAdvertisedLinkProperties
          /\ IF LinkPropertiesToAdvertise # AdvertisedLinkProperties'
             THEN Reconfigure(LinkPropertiesToAdvertise)
             ELSE NextState("LINK_DOWN_TO_UP", PHYCmd_GetStatusRegCmd) /\ NoReport
       \/ /\ ~MIIRegs.S.up
          /\ Reconfigure(LinkPropertiesToAdvertise)
          /\ UNCHANGED AdvertisedLinkProperties
    /\ UNCHANGED <<LinkPropertiesToAdvertise, SupportedLinkProperties, LinkPartnerLinkProperties>>

\* Mutant of LinkUp: the loss of the link is not reported.
LinkUpSilent ==
    /\ Engine("LINK_UP")
    /\ NextState(IF MIIRegs.S.up THEN "LINK_UP" ELSE "LINK_DOWN", PHYCmd_GetStatusRegCmd)
    /\ NoReport
    /\ UNCHANGED <<LinkPropertiesToAdvertise, SupportedLinkProperties,
                   AdvertisedLinkProperties, LinkPartnerLinkProperties>>

LinkUp ==
    /\ Engine("LINK_UP")
    /\ \/ /\ MIIRegs.S.up
          /\ NextState("LINK_UP", PHYCmd_GetStatusRegCmd)
          /\ NoReport
          /\ UNCHANGED LinkPartnerLinkProperties
       \/ /\ ~MIIRegs.S.up
          /\ NextState("LINK_DOWN", PHYCmd_GetStatusRegCmd)
          /\ LinkPartnerLinkProperties' = {}
          /\ Report(MII_GetSelectedLinkProperties(AdvertisedLinkProperties, {}))
    /\ UNCHANGED <<LinkPropertiesToAdvertise, SupportedLinkProperties, AdvertisedLinkProperties>>

\* 1 Gb/s is negotiated, with a partner that cannot be paused.
GigabitRefused(advertised, linkPartner) ==
    /\ {"AN", "1000FD"} \subseteq LinkPropertiesToAdvertise
    /\ "1000FD" \in advertised \cap linkPartner /\ "PAUSE" \notin linkPartner

\* Mutant of GigabitWanted: 1 Gb/s is tried again with any partner.
WantedFromAll(advertised, linkPartner) ==
    /\ {"AN", "1000FD"} \subseteq LinkPropertiesToAdvertise
    /\ "1000FD" \notin advertised /\ "1000FD" \in linkPartner

\* 1 Gb/s was refused to an earlier partner, but this one can be paused.
GigabitWanted(advertised, linkPartner) ==
    /\ {"AN", "1000FD"} \subseteq LinkPropertiesToAdvertise
    /\ "1000FD" \notin advertised \cap linkPartner /\ {"1000FD", "PAUSE"} \subseteq linkPartner

LinkDownToUp ==
    LET advertised  == MII_GetAdvertisedLinkProperties
        linkPartner == MII_GetLinkPartnerLinkProperties
    IN  /\ Engine("LINK_DOWN_TO_UP")
        /\ \/ /\ MIIRegs.S.up
              /\ AdvertisedLinkProperties' = advertised
              /\ LinkPartnerLinkProperties' = linkPartner
              /\ IF GigabitRefused(advertised, linkPartner)
                 THEN Reconfigure(LinkPropertiesToAdvertise \ {"1000FD"})
                 ELSE IF GigabitWanted(advertised, linkPartner)
                 THEN Reconfigure(LinkPropertiesToAdvertise \cup {"1000FD"})
                 ELSE /\ NextState("LINK_UP", PHYCmd_GetStatusRegCmd)
                      /\ Report(MII_GetSelectedLinkProperties(advertised, linkPartner))
           \/ /\ ~MIIRegs.S.up
              /\ NextState("LINK_DOWN", PHYCmd_GetStatusRegCmd)
              /\ NoReport
              /\ UNCHANGED <<AdvertisedLinkProperties, LinkPartnerLinkProperties>>
        /\ UNCHANGED <<LinkPropertiesToAdvertise, SupportedLinkProperties>>

LinkDown ==
    /\ Engine("LINK_DOWN")
    /\ IF MIIRegs.S.up THEN NextState("LINK_DOWN_TO_UP", GetLinkConfigCmd)
                       ELSE NextState("LINK_DOWN", PHYCmd_GetStatusRegCmd)
    /\ NoReport
    /\ UNCHANGED <<LinkPropertiesToAdvertise, SupportedLinkProperties,
                   AdvertisedLinkProperties, LinkPartnerLinkProperties>>

MII_StateEngine == NotInitialized \/ Initialized \/ DefaultCfgRead \/ LinkUp \/ LinkDownToUp \/ LinkDown

-----------------------------------------------------------------------------
(* The bus thread transfers the oldest frame and calls the frame's callbacks. *)

\* What a register of the PHY reads as.
RegisterValue(reg) ==
    CASE reg = "S"  -> [up |-> link /\ ~latch, complete |-> link /\ hw.C.an,
                        abilities |-> phy.abilities]
      [] reg = "ES" -> phy.es
      [] OTHER      -> hw[reg]

\* Mutant of ReadDone: every read ends its command.
ReadEndsCommand ==
    /\ pending # <<>> /\ Head(pending).op = "read"
    /\ LET reg == Head(pending).reg
       IN  /\ MIIRegs' = [MIIRegs EXCEPT ![reg] = RegisterValue(reg)]
           /\ latch' = IF reg = "S" THEN ~link ELSE latch
    /\ pending' = Tail(pending) /\ CmdPending' = FALSE
    /\ UNCHANGED <<engineVars, phy, hw, link, wire, partner, plugs>>

\* PHY_FrameDoneCallback, and PHYCmd_CmdDone_Callback after a read of S.
ReadDone ==
    /\ pending # <<>> /\ Head(pending).op = "read"
    /\ LET reg == Head(pending).reg
       IN  /\ MIIRegs' = [MIIRegs EXCEPT ![reg] = RegisterValue(reg)]
           /\ CmdPending' = (CmdPending /\ reg # "S")
           /\ latch' = IF reg = "S" THEN ~link ELSE latch
    /\ pending' = Tail(pending)
    /\ UNCHANGED <<engineVars, phy, hw, link, wire, partner, plugs>>

\* PHY_FrameDoneCallback is called for a write too. A write to C restarts the
\* negotiation or forces a mode: either way the link falls.
WriteDone ==
    /\ pending # <<>> /\ Head(pending).op = "write"
    /\ LET reg == Head(pending).reg
       IN  /\ MIIRegs' = [MIIRegs EXCEPT ![reg] = Head(pending).val]
           /\ hw' = [hw EXCEPT ![reg] = Head(pending).val]
           /\ link' = (link /\ reg # "C") /\ latch' = (latch \/ reg = "C")
    /\ pending' = Tail(pending)
    /\ UNCHANGED <<engineVars, CmdPending, phy, wire, partner, plugs>>

\* A frame of the ACPI command sets vendor registers only.
InitFrameDone ==
    /\ pending # <<>> /\ Head(pending).op = "init"
    /\ pending' = Tail(pending)
    /\ UNCHANGED <<engineVars, MIIRegs, CmdPending, phyVars>>

FrameDone == ReadDone \/ WriteDone \/ InitFrameDone

-----------------------------------------------------------------------------
(* The cable *)

Plug ==
    /\ partner = NoPartner /\ plugs < MaxPlugs
    /\ partner' \in Partners
    /\ plugs' = plugs + 1
    /\ UNCHANGED <<engineVars, MIIRegs, mdioVars, phy, hw, link, latch, wire>>

Unplug ==
    /\ partner # NoPartner
    /\ partner' = NoPartner
    /\ link' = FALSE /\ latch' = TRUE
    /\ UNCHANGED <<engineVars, MIIRegs, mdioVars, phy, hw, wire, plugs>>

\* The modes the PHY can agree on with its partner, by negotiation or by force.
Common == IF hw.C.an
          THEN partner \cap (hw.ANA \cup IF "EXT" \in phy.abilities THEN hw.G ELSE {})
          ELSE partner \cap {hw.C.mode}

LinkComesUp ==
    /\ ~link /\ HasMode(Common)
    /\ link' = TRUE
    /\ wire' = Best(Common)
    /\ hw' = IF hw.C.an THEN [hw EXCEPT !.LPA = partner \cap (LowModes \cup Flow),
                                        !.GS = partner \cap GigaModes]
                        ELSE hw
    /\ UNCHANGED <<engineVars, MIIRegs, mdioVars, phy, latch, partner, plugs>>

Next == MII_StateEngine \/ FrameDone \/ Plug \/ Unplug \/ LinkComesUp

Spec == Init /\ [][Next]_vars

\* The state machine goes on ticking, the bus thread transfers what is queued,
\* and the PHY brings a possible link up.
Fairness == WF_vars(MII_StateEngine) /\ WF_vars(FrameDone) /\ WF_vars(LinkComesUp)
FairSpec == Spec /\ Fairness

-----------------------------------------------------------------------------
(* Properties *)

PhyStates == {"NOT_INITIALIZED", "INITIALIZED", "DEFAULT_CFG_RAED", "LINK_UP",
              "LINK_DOWN_TO_UP", "LINK_DOWN"}

\* The engine's variables are of their types, and never more frames are pending
\* than the longest commands have: MDIO_FRAME_LIST_SIZE is enough.
TypeOK ==
    /\ PHYDev_CurrentState \in PhyStates
    /\ PHYDev_LinkState \in {"Unknown", "Disconnected"} \cup LowModes \cup GigaModes
    /\ mac \in [speed : {10, 100, 1000}, half : BOOLEAN]
    /\ LinkPropertiesToAdvertise \subseteq Properties /\ SupportedLinkProperties \subseteq Properties
    /\ AdvertisedLinkProperties \subseteq Properties /\ LinkPartnerLinkProperties \subseteq Properties
    /\ CmdPending \in BOOLEAN /\ Len(pending) <= 6 + Len(InitCmd)

\* MDIODev_CmdPending tells the engine exactly when its last command is done:
\* it never decides on registers of which some are still to be read, and never
\* queues a second command behind one that is under way.
WholeCommands == CmdPending <=> pending # <<>>

\* The link has been up without a break since the status the engine goes by.
Current == link /\ ~latch /\ MIIRegs.S.up

\* While the link the engine found stays up, the state it reports is the mode
\* the PHY agreed on with its partner, and the MAC is set up for it: a cable
\* pulled and plugged into another partner between any two frames of a command
\* never leaves a mixture of the two partners' properties.
ReportedIsNegotiated ==
    (PHYDev_CurrentState = "LINK_UP" /\ Current) =>
        /\ PHYDev_LinkState = wire
        /\ mac.half = (wire \in {"10HD", "100HD", "1000HD"})
        /\ (mac.speed = 1000) = (wire \in GigaModes)

\* The MAC never runs at 1 Gb/s with a partner that cannot be paused.
PausableAtGigabit ==
    (PHYDev_LinkState = "1000FD" /\ Current) => "PAUSE" \in partner

\* What the engine reports and sets the MAC up for is the link on the wire, and
\* one the MAC may use.
LinkIsSound == TypeOK /\ ReportedIsNegotiated /\ PausableAtGigabit

\* A mode is never exchanged for another: the adapter sees the link lost first,
\* so that the data path is stopped before it is started at another speed.
LostBeforeChanged ==
    [][(PHYDev_LinkState \in LowModes \cup GigaModes /\ PHYDev_LinkState' # PHYDev_LinkState)
          => PHYDev_LinkState' = "Disconnected"]_vars

\* Once the cable is left alone the engine comes to rest: with no partner the
\* link is not reported, and with one the reported link is the one on the wire.
\* Refusing and wanting 1 Gb/s never chase each other.
Settles ==
    <>[](IF partner = NoPartner THEN PHYDev_LinkState \in {"Unknown", "Disconnected"}
         ELSE link /\ PHYDev_CurrentState = "LINK_UP" /\ PHYDev_LinkState = wire)

=============================================================================
