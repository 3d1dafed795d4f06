-------------------------- MODULE PhyEngineProofs --------------------------
(***************************************************************************)
(* Proofs about PhyEngine for every set of PHYs, boot loaders and partners *)
(* and every request: the engine waits for whole commands, the adapter sees *)
(* a link lost before it sees another one, and the link that is reported is *)
(* the link on the wire.                                                   *)
(***************************************************************************)
EXTENDS PhyEngine, SequenceTheorems, TLAPS

Modes == LowModes \cup GigaModes
Registers == {"S", "ES", "C", "ANA", "G", "LPA", "GS"}
ControlValues == [an : BOOLEAN, mode : Modes]

\* The frames the engine queues.
MiiFrames == [op : {"init"}] \cup [op : {"read"}, reg : Registers]
             \cup [op : {"write"}, reg : {"ANA"}, val : SUBSET (LowModes \cup Flow)]
             \cup [op : {"write"}, reg : {"G"}, val : SUBSET GigaModes]
             \cup [op : {"write"}, reg : {"C"}, val : ControlValues]

\* Frames of which none is the read of S that ends a command ...
Quiet(a) == a \in Seq(MiiFrames) /\ \A i \in 1..Len(a) : a[i] # Read("S")

\* ... and a command, or what is left of one: its last frame, and no other, is
\* a read of S.
Command(a) == a \in Seq(MiiFrames) /\ \A i \in 1..Len(a) : a[i] = Read("S") <=> i = Len(a)

\* What is pending is the rest of one command, and CmdPending says so.
CommandInv == Command(pending) /\ WholeCommands

\* A mode is only reported in LINK_UP.
ReportInv == PHYDev_LinkState \in Modes => PHYDev_CurrentState = "LINK_UP"

-----------------------------------------------------------------------------
(* Sequences of frames *)

\* One frame that does not end a command.
LEMMA QuietSingle ==
  ASSUME NEW f \in MiiFrames, f # Read("S")
  PROVE  Quiet(<<f>>) /\ Len(<<f>>) = 1
  BY DEF Quiet

\* Quiet frames after quiet frames.
LEMMA QuietConcat ==
  ASSUME NEW a, NEW b, Quiet(a), Quiet(b)
  PROVE  Quiet(a \o b) /\ Len(a \o b) = Len(a) + Len(b)
  BY DEF Quiet

\* A read of S after quiet frames makes a command of them.
LEMMA QuietThenStatus ==
  ASSUME NEW a, Quiet(a)
  PROVE  Command(a \o <<Read("S")>>) /\ a \o <<Read("S")>> # <<>>
<1>1. Read("S") \in MiiFrames
  BY DEF Read, MiiFrames, Registers
<1> DEFINE c == a \o <<Read("S")>>
<1>2. c \in Seq(MiiFrames) /\ Len(c) = Len(a) + 1
  BY <1>1 DEF Quiet
<1>3. ASSUME NEW i \in 1..Len(c) PROVE c[i] = Read("S") <=> i = Len(c)
  BY <1>2, <1>3, SMT DEF Quiet
<1> QED
  BY <1>2, <1>3 DEF Command

\* What is left of a command when its first frame is done.
LEMMA TailCommand ==
  ASSUME NEW a, Command(a), a # <<>>
  PROVE  /\ Command(Tail(a)) /\ Head(a) \in MiiFrames /\ Len(Tail(a)) < Len(a)
         /\ (Head(a) = Read("S")) <=> (Tail(a) = <<>>)
<1> DEFINE t == Tail(a)
           h == Head(a)
           S == Read("S")
<1>1. /\ a \in Seq(MiiFrames) /\ Len(a) \in Nat \ {0}
      /\ t \in Seq(MiiFrames) /\ Len(t) = Len(a) - 1
      /\ h = a[1] /\ h \in MiiFrames
  BY DEF Command
<1>2. \A i \in 1..Len(t) : t[i] = a[i + 1]
  BY <1>1
<1>3. \A i \in 1..Len(a) : a[i] = S <=> i = Len(a)
  BY DEF Command
<1> HIDE DEF t, h, S
<1>4. ASSUME NEW i \in 1..Len(t) PROVE t[i] = S <=> i = Len(t)
  <2>1. i + 1 \in 1..Len(a)
    BY <1>1
  <2> QED
    BY <2>1, <1>1, <1>2, <1>3
<1>5. 1 \in 1..Len(a) /\ (h = S <=> Len(a) = 1)
  BY <1>1, <1>3
<1>6. t = <<>> <=> Len(t) = 0
  BY <1>1
<1>7. Command(t)
  BY <1>1, <1>4 DEF Command, S
<1>8. Len(t) < Len(a)
  BY <1>1
<1>9. h = S <=> t = <<>>
  BY <1>1, <1>5, <1>6
<1> QED
  BY <1>1, <1>7, <1>8, <1>9, Zenon DEF t, h, S

-----------------------------------------------------------------------------
(* The commands of the engine *)

\* A whole command, no longer than the frame list has to be.
GoodCommand(c) == Command(c) /\ c # <<>> /\ Len(c) <= 6 + Len(InitCmd)

\* The ACPI command has a length.
LEMMA InitCmdLength == InitCmd \in Seq([op : {"init"}]) /\ Len(InitCmd) \in Nat
  BY PhyAssumption

\* The commands that read the status alone, and after the ACPI command.
LEMMA StatusCommands ==
  /\ GoodCommand(PHYCmd_GetStatusRegCmd)
  /\ GoodCommand(InitCmd \o PHYCmd_GetStatusRegsCmd)
<1>1. \A r \in Registers : Read(r) \in MiiFrames /\ (r # "S" => Read(r) # Read("S"))
  BY DEF Read, MiiFrames
<1>2. GoodCommand(PHYCmd_GetStatusRegCmd)
  BY <1>1, InitCmdLength DEF GoodCommand, Command, PHYCmd_GetStatusRegCmd, Registers
<1>3. [op : {"init"}] \subseteq MiiFrames /\ \A f \in [op : {"init"}] : f # Read("S")
  BY DEF MiiFrames, Read
<1> DEFINE e == PHYCmd_GetStatusRegsCmd
           c == InitCmd \o e
<1>4. /\ InitCmd \in Seq(MiiFrames) /\ Len(InitCmd) \in Nat
      /\ \A i \in 1..Len(InitCmd) : InitCmd[i] # Read("S")
  BY <1>3, InitCmdLength, SeqMonotonic, ElementOfSeq
<1>5. /\ e \in Seq(MiiFrames) /\ Len(e) = 2 /\ e[1] = Read("ES") /\ e[2] = Read("S")
  BY <1>1 DEF PHYCmd_GetStatusRegsCmd, Registers
<1>6. Read("ES") # Read("S")
  BY <1>1 DEF Registers
<1> HIDE DEF e
<1>7. /\ c \in Seq(MiiFrames) /\ Len(c) = Len(InitCmd) + 2
      /\ \A i \in 1..Len(InitCmd) + 2 :
            c[i] = IF i <= Len(InitCmd) THEN InitCmd[i] ELSE e[i - Len(InitCmd)]
  <2>1. /\ c \in Seq(MiiFrames) /\ Len(c) = Len(InitCmd) + Len(e)
        /\ \A i \in 1..Len(InitCmd) + Len(e) :
              c[i] = IF i <= Len(InitCmd) THEN InitCmd[i] ELSE e[i - Len(InitCmd)]
    BY <1>4, <1>5, ConcatProperties, Zenon
  <2> HIDE DEF c
  <2> QED
    BY <2>1, <1>5
<1> HIDE DEF c
<1>8. ASSUME NEW i \in 1..Len(c) PROVE c[i] = Read("S") <=> i = Len(c)
  <2>1. CASE i <= Len(InitCmd)
    BY <2>1, <1>4, <1>7
  <2>2. CASE i = Len(InitCmd) + 1
    BY <2>2, <1>4, <1>5, <1>6, <1>7
  <2>3. CASE i = Len(InitCmd) + 2
    BY <2>3, <1>4, <1>5, <1>7
  <2> QED
    BY <2>1, <2>2, <2>3, <1>4, <1>7
<1>9. GoodCommand(c)
  BY <1>4, <1>7, <1>8 DEF GoodCommand, Command
<1> QED
  BY <1>2, <1>9 DEF c, e

\* The command that reads the configuration, with or without 1 Gb/s.
LEMMA ConfigCommand == GoodCommand(GetLinkConfigCmd)
<1>1. \A r \in Registers : Read(r) \in MiiFrames /\ (r # "S" => Read(r) # Read("S"))
  BY DEF Read, MiiFrames
<1>2. GoodCommand(PHYCmd_GetConfig100Cmd)
  BY <1>1, InitCmdLength DEF GoodCommand, Command, PHYCmd_GetConfig100Cmd, Registers
<1>3. GoodCommand(PHYCmd_GetConfig1000Cmd)
  BY <1>1, InitCmdLength
  DEF GoodCommand, Command, PHYCmd_GetConfig1000Cmd, PHYCmd_GetConfig100Cmd, Registers
<1> QED
  BY <1>2, <1>3 DEF GetLinkConfigCmd

\* The best of a set of properties with a mode is one of its modes.
LEMMA BestIsMode ==
  ASSUME NEW props, HasMode(props)
  PROVE  Best(props) \in Modes
<1> DEFINE P(i) == Preference[i] \in props /\ \A j \in 1..i - 1 : Preference[j] \notin props
<1>1. \E i \in 1..6 : P(i)
  BY DEF HasMode, LowModes, GigaModes, Preference
<1>2. \A i \in 1..6 : Preference[i] \in Modes
  BY DEF Preference, Modes, LowModes, GigaModes
<1>3. (CHOOSE i \in 1..6 : P(i)) \in 1..6
  BY <1>1
<1> QED
  BY <1>2, <1>3 DEF Best

\* The command that sets the link properties and then reads the status.
LEMMA SetLinkCommand ==
  ASSUME NEW supported, NEW props
  PROVE  GoodCommand(MII_SetLinkPropertiesCmd(supported, props) \o PHYCmd_GetStatusRegCmd)
<1> DEFINE p == supported \cap props
           m == IF HasMode(p) THEN Best(p) ELSE "10HD"
           wA == Write("ANA", Swap10(p \cap (LowModes \cup Flow)))
           wG == Write("G", p \cap GigaModes)
           wC(v) == Write("C", v)
           q == MII_SetLinkPropertiesCmd(supported, props)
<1>1. m \in Modes
  BY BestIsMode DEF Modes, LowModes
<1>2. Swap10(p \cap (LowModes \cup Flow)) \in SUBSET (LowModes \cup Flow)
  BY DEF Swap10, LowModes, Flow
<1>3. /\ wA \in MiiFrames /\ wG \in MiiFrames
      /\ wA # Read("S") /\ wG # Read("S")
  BY <1>2 DEF MiiFrames, Write, Read
<1>4. \A v \in ControlValues : wC(v) \in MiiFrames /\ wC(v) # Read("S")
  BY DEF MiiFrames, Write, Read
<1>5. [an |-> TRUE, mode |-> "10HD"] \in ControlValues /\ [an |-> FALSE, mode |-> m] \in ControlValues
  BY <1>1 DEF ControlValues, Modes, LowModes
<1> HIDE DEF m, wA, wG, wC
<1>6. \/ \E v \in ControlValues : q = <<wA>> \o <<wG>> \o <<wC(v)>>
      \/ \E v \in ControlValues : q = <<wA>> \o <<>> \o <<wC(v)>>
      \/ \E v \in ControlValues : q = <<wC(v)>>
  BY <1>5 DEF MII_SetLinkPropertiesCmd, m, wA, wG, wC
<1>7. Quiet(<<>>) /\ Len(<<>>) = 0
  BY DEF Quiet
<1>8. \A v \in ControlValues : Quiet(<<wC(v)>>) /\ Len(<<wC(v)>>) = 1
  BY <1>4, QuietSingle
<1>9. Quiet(<<wA>>) /\ Len(<<wA>>) = 1 /\ Quiet(<<wG>>) /\ Len(<<wG>>) = 1
  BY <1>3, QuietSingle
<1>10. Quiet(<<wA>> \o <<wG>>) /\ Len(<<wA>> \o <<wG>>) = 2
  BY <1>9, QuietConcat
<1>11. Quiet(<<wA>> \o <<>>) /\ Len(<<wA>> \o <<>>) = 1
  BY <1>7, <1>9, QuietConcat
<1> HIDE DEF q
<1>12. Quiet(q) /\ Len(q) \in 0..3
  <2>1. CASE \E v \in ControlValues : q = <<wA>> \o <<wG>> \o <<wC(v)>>
    <3> DEFINE g == <<wA>> \o <<wG>>
    <3>1. PICK v \in ControlValues : q = g \o <<wC(v)>>
      BY <2>1
    <3> HIDE DEF g
    <3>2. Quiet(q) /\ Len(q) = Len(g) + 1
      BY <3>1, <1>8, <1>10, QuietConcat DEF g
    <3> QED
      BY <3>2, <1>10 DEF g
  <2>2. CASE \E v \in ControlValues : q = <<wA>> \o <<>> \o <<wC(v)>>
    <3> DEFINE g == <<wA>> \o <<>>
    <3>1. PICK v \in ControlValues : q = g \o <<wC(v)>>
      BY <2>2
    <3> HIDE DEF g
    <3>2. Quiet(q) /\ Len(q) = Len(g) + 1
      BY <3>1, <1>8, <1>11, QuietConcat DEF g
    <3> QED
      BY <3>2, <1>11 DEF g
  <2>3. CASE \E v \in ControlValues : q = <<wC(v)>>
    BY <2>3, <1>8
  <2> QED
    BY <1>6, <2>1, <2>2, <2>3
<1> DEFINE c == q \o <<Read("S")>>
<1>13. Command(c) /\ c # <<>>
  BY <1>12, QuietThenStatus
<1>14. Len(c) = Len(q) + 1
  BY <1>12 DEF Quiet
<1> HIDE DEF c
<1>15. Len(c) <= 6 + Len(InitCmd)
  <2>1. Len(InitCmd) \in Nat /\ Len(q) \in 0..3
    BY <1>12, InitCmdLength, Zenon
  <2>2. \A n \in 0..3, k \in Nat : n + 1 <= 6 + k
    OBVIOUS
  <2> QED
    BY <2>1, <2>2, <1>14, Zenon
<1> QED
  BY <1>13, <1>15, Zenon DEF GoodCommand, PHYCmd_GetStatusRegCmd, q, c

-----------------------------------------------------------------------------
(* Types *)

StatusValues == [up : BOOLEAN, complete : BOOLEAN, abilities : SUBSET (LowModes \cup {"AN", "EXT"})]

\* The copy of the registers, and the registers of the PHY.
RegsTyped ==
    MIIRegs \in [S : StatusValues, ES : SUBSET GigaModes, C : ControlValues,
                 ANA : SUBSET Properties, G : SUBSET Properties,
                 LPA : SUBSET Properties, GS : SUBSET Properties]
HwTyped ==
    hw \in [C : ControlValues, ANA : SUBSET (LowModes \cup Flow), G : SUBSET GigaModes,
            LPA : SUBSET Properties, GS : SUBSET Properties]
CableTyped == phy \in Phys /\ partner \in Partners \cup {NoPartner}

\* Everything but the length of the queue.
EngineTyped ==
    /\ PHYDev_CurrentState \in PhyStates
    /\ PHYDev_LinkState \in {"Unknown", "Disconnected"} \cup LowModes \cup GigaModes
    /\ mac \in [speed : {10, 100, 1000}, half : BOOLEAN]
    /\ LinkPropertiesToAdvertise \subseteq Properties /\ SupportedLinkProperties \subseteq Properties
    /\ AdvertisedLinkProperties \subseteq Properties /\ LinkPartnerLinkProperties \subseteq Properties
    /\ CmdPending \in BOOLEAN

TypeInv == EngineTyped /\ RegsTyped /\ HwTyped /\ CableTyped

\* Exchanging the two 10BASE-T bits makes no new property.
LEMMA Swap10Typed ==
  ASSUME NEW p \in SUBSET Properties
  PROVE  Swap10(p) \in SUBSET Properties
  BY DEF Swap10, Properties, LowModes

\* What the decoders make of the registers.
LEMMA DecodersTyped ==
  ASSUME RegsTyped
  PROVE  /\ MII_GetSupportedLinkProperties \in SUBSET Properties
         /\ MII_GetAdvertisedLinkProperties \in SUBSET Properties
         /\ MII_GetLinkPartnerLinkProperties \in SUBSET Properties
<1>1. LowModes \subseteq Properties /\ GigaModes \subseteq Properties /\ Flow \subseteq Properties
      /\ "AN" \in Properties
  BY DEF Properties
<1>2. /\ MIIRegs.ES \in SUBSET Properties /\ MIIRegs.ANA \in SUBSET Properties
      /\ MIIRegs.G \in SUBSET Properties /\ MIIRegs.LPA \in SUBSET Properties
      /\ MIIRegs.GS \in SUBSET Properties /\ MIIRegs.C.mode \in Properties
  BY <1>1 DEF RegsTyped, ControlValues, Modes
<1>3. MII_GetSupportedLinkProperties \in SUBSET Properties
  BY <1>1, <1>2, Swap10Typed DEF MII_GetSupportedLinkProperties
<1>4. MII_GetAdvertisedLinkProperties \in SUBSET Properties
  BY <1>1, <1>2, Swap10Typed DEF MII_GetAdvertisedLinkProperties
<1>5. MII_GetLinkPartnerLinkProperties \in SUBSET Properties
  BY <1>1, <1>2, Swap10Typed DEF MII_GetLinkPartnerLinkProperties
<1> QED
  BY <1>3, <1>4, <1>5

\* What is reported: a mode, or that there is none.
LEMMA SelectedTyped ==
  ASSUME NEW advertised, NEW linkPartner
  PROVE  /\ MII_GetSelectedLinkProperties(advertised, linkPartner) \in Modes \cup {"Disconnected"}
         /\ MII_GetSelectedLinkProperties(advertised, {}) = "Disconnected"
<1>1. ~HasMode(SupportedLinkProperties \cap advertised \cap {})
  BY DEF HasMode
<1> QED
  BY <1>1, BestIsMode DEF MII_GetSelectedLinkProperties

\* A report leaves the MAC with a speed and a duplex mode.
LEMMA ReportTyped ==
  ASSUME NEW state, EnetOnLinkStateChanged(state)
  PROVE  mac' \in [speed : {10, 100, 1000}, half : BOOLEAN]
  BY DEF EnetOnLinkStateChanged

-----------------------------------------------------------------------------
(* Commands *)

QueueInv == CommandInv /\ Len(pending) <= 6 + Len(InitCmd)

\* A command queued when none is pending is what is pending then.
LEMMA QueuedCommand ==
  ASSUME QueueInv, ~CmdPending, NEW c, GoodCommand(c), MDIODev_QueueCommand(c)
  PROVE  QueueInv'
<1>1. pending = <<>>
  BY DEF QueueInv, CommandInv, WholeCommands
<1>2. c \in Seq(MiiFrames) /\ pending' = <<>> \o c
  BY <1>1 DEF GoodCommand, Command, MDIODev_QueueCommand
<1>3. pending' = c
  BY <1>2, ConcatEmptySeq
<1>4. Command(pending') /\ pending' # <<>> /\ Len(pending') <= 6 + Len(InitCmd)
  BY <1>3 DEF GoodCommand
<1>5. CmdPending' = TRUE
  BY DEF MDIODev_QueueCommand
<1> QED
  BY <1>4, <1>5, Zenon DEF QueueInv, CommandInv, Command, WholeCommands

\* Each state of the engine queues one command.
LEMMA EngineQueues ==
  ASSUME QueueInv, MII_StateEngine
  PROVE  QueueInv'
<1>1. ~CmdPending
  BY DEF MII_StateEngine, NotInitialized, Initialized, DefaultCfgRead, LinkUp, LinkDownToUp,
         LinkDown, Engine
<1>2. \E c : MDIODev_QueueCommand(c) /\ GoodCommand(c)
  <2>1. CASE NotInitialized
    BY <2>1, StatusCommands DEF NotInitialized, NextState
  <2>2. CASE Initialized
    BY <2>2, ConfigCommand, SetLinkCommand DEF Initialized, NextState
  <2>3. CASE DefaultCfgRead
    BY <2>3, StatusCommands, SetLinkCommand DEF DefaultCfgRead, Reconfigure, NextState
  <2>4. CASE LinkUp
    BY <2>4, StatusCommands DEF LinkUp, NextState
  <2>5. CASE LinkDownToUp
    BY <2>5, StatusCommands, SetLinkCommand DEF LinkDownToUp, Reconfigure, NextState
  <2>6. CASE LinkDown
    BY <2>6, StatusCommands, ConfigCommand DEF LinkDown, NextState
  <2> QED
    BY <2>1, <2>2, <2>3, <2>4, <2>5, <2>6 DEF MII_StateEngine
<1> QED
  BY <1>1, <1>2, QueuedCommand

\* A frame that is done leaves the rest of its command.
LEMMA FrameQueues ==
  ASSUME QueueInv, FrameDone
  PROVE  QueueInv'
<1> DEFINE h == Head(pending)
<1>1. pending # <<>> /\ pending' = Tail(pending)
  BY DEF FrameDone, ReadDone, WriteDone, InitFrameDone
<1>2. /\ Command(Tail(pending)) /\ h \in MiiFrames /\ Len(Tail(pending)) < Len(pending)
      /\ (h = Read("S")) <=> (Tail(pending) = <<>>)
  BY <1>1, TailCommand DEF QueueInv, CommandInv
<1>3. CmdPending
  BY <1>1 DEF QueueInv, CommandInv, WholeCommands
<1>4. CmdPending' <=> h # Read("S")
  <2>1. CASE ReadDone
    <3>1. h.op = "read" /\ (CmdPending' <=> h.reg # "S")
      BY <2>1, <1>3 DEF ReadDone
    <3>2. h = Read(h.reg)
      BY <3>1, <1>2 DEF MiiFrames, Read
    <3>3. h = Read("S") <=> h.reg = "S"
      BY <3>2 DEF Read
    <3> QED
      BY <3>1, <3>3
  <2>2. CASE WriteDone \/ InitFrameDone
    <3>1. h.op \in {"write", "init"} /\ CmdPending' = CmdPending
      BY <2>2 DEF WriteDone, InitFrameDone
    <3>2. Read("S").op = "read"
      BY DEF Read
    <3>3. h # Read("S")
      BY <3>1, <3>2
    <3> QED
      BY <3>1, <3>3, <1>3
  <2> QED
    BY <2>1, <2>2 DEF FrameDone
<1>5. Command(pending') /\ (CmdPending' <=> pending' # <<>>)
  BY <1>1, <1>2, <1>4, Zenon
<1>6. Len(pending') <= 6 + Len(InitCmd)
  <2>1. Len(pending) \in Nat /\ Len(pending') \in Nat /\ Len(InitCmd) \in Nat
    BY <1>5, InitCmdLength, LenProperties, Zenon DEF QueueInv, CommandInv, Command
  <2>2. Len(pending') < Len(pending) /\ Len(pending) <= 6 + Len(InitCmd)
    BY <1>1, <1>2, Zenon DEF QueueInv
  <2>3. \A k, m, n \in Nat : k < m /\ m <= 6 + n => k <= 6 + n
    OBVIOUS
  <2> QED
    BY <2>1, <2>2, <2>3, Zenon
<1> QED
  BY <1>5, <1>6, Zenon DEF QueueInv, CommandInv, Command, WholeCommands

\* Every step leaves the rest of one command, or none, pending.
LEMMA QueuePreserved == QueueInv /\ [Next]_vars => QueueInv'
<1> SUFFICES ASSUME QueueInv, [Next]_vars PROVE QueueInv'
  OBVIOUS
<1>1. CASE MII_StateEngine
  BY <1>1, EngineQueues
<1>2. CASE FrameDone
  BY <1>2, FrameQueues
<1>3. CASE Plug \/ Unplug \/ LinkComesUp \/ UNCHANGED vars
  <2>1. UNCHANGED <<pending, CmdPending>>
    BY <1>3 DEF Plug, Unplug, LinkComesUp, vars, mdioVars
  <2> QED
    BY <2>1 DEF QueueInv, CommandInv, Command, WholeCommands
<1> QED
  BY <1>1, <1>2, <1>3 DEF Next

-----------------------------------------------------------------------------
(* Preservation of types *)

\* What a register of the PHY reads as.
LEMMA RegisterTyped ==
  ASSUME TypeInv
  PROVE  /\ RegisterValue("S") \in StatusValues
         /\ RegisterValue("ES") \in SUBSET GigaModes
         /\ RegisterValue("C") \in ControlValues
         /\ \A r \in {"ANA", "G", "LPA", "GS"} : RegisterValue(r) \in SUBSET Properties
<1>1. phy.abilities \in SUBSET (LowModes \cup {"AN", "EXT"}) /\ phy.es \in SUBSET GigaModes
  BY PhyAssumption DEF TypeInv, CableTyped
<1>2. RegisterValue("S") \in StatusValues
  BY <1>1 DEF RegisterValue, StatusValues
<1>3. RegisterValue("ES") \in SUBSET GigaModes
  BY <1>1 DEF RegisterValue
<1>4. RegisterValue("C") \in ControlValues
  BY DEF RegisterValue, TypeInv, HwTyped
<1>5. \A r \in {"ANA", "G", "LPA", "GS"} : RegisterValue(r) \in SUBSET Properties
  BY DEF RegisterValue, TypeInv, HwTyped, Properties
<1> QED
  BY <1>2, <1>3, <1>4, <1>5

\* A read copies a typed register (PHY_FrameDoneCallback).
LEMMA ReadTyped ==
  ASSUME TypeInv, QueueInv, ReadDone
  PROVE  TypeInv'
<1> DEFINE reg == Head(pending).reg
<1>1. reg \in Registers
  BY TailCommand DEF ReadDone, QueueInv, CommandInv, MiiFrames
<1>2. MIIRegs' = [MIIRegs EXCEPT ![reg] = RegisterValue(reg)]
  BY DEF ReadDone
<1> HIDE DEF reg
<1>3. RegsTyped'
  <2>1. CASE reg = "S"
    BY <2>1, <1>2, RegisterTyped DEF TypeInv, RegsTyped
  <2>2. CASE reg = "ES"
    BY <2>2, <1>2, RegisterTyped DEF TypeInv, RegsTyped
  <2>3. CASE reg = "C"
    BY <2>3, <1>2, RegisterTyped DEF TypeInv, RegsTyped
  <2>4. CASE reg = "ANA"
    BY <2>4, <1>2, RegisterTyped DEF TypeInv, RegsTyped
  <2>5. CASE reg = "G"
    BY <2>5, <1>2, RegisterTyped DEF TypeInv, RegsTyped
  <2>6. CASE reg = "LPA"
    BY <2>6, <1>2, RegisterTyped DEF TypeInv, RegsTyped
  <2>7. CASE reg = "GS"
    BY <2>7, <1>2, RegisterTyped DEF TypeInv, RegsTyped
  <2> QED
    BY <1>1, <2>1, <2>2, <2>3, <2>4, <2>5, <2>6, <2>7 DEF Registers
<1>4. EngineTyped'
  BY DEF TypeInv, EngineTyped, ReadDone, engineVars
<1> QED
  BY <1>3, <1>4 DEF TypeInv, HwTyped, CableTyped, ReadDone

\* A write sets the register and its copy to a typed value.
LEMMA WriteTyped ==
  ASSUME TypeInv, QueueInv, WriteDone
  PROVE  TypeInv'
<1> DEFINE reg == Head(pending).reg
           val == Head(pending).val
<1>1. \/ reg = "ANA" /\ val \in SUBSET (LowModes \cup Flow)
      \/ reg = "G" /\ val \in SUBSET GigaModes
      \/ reg = "C" /\ val \in ControlValues
  BY TailCommand DEF WriteDone, QueueInv, CommandInv, MiiFrames
<1>2. MIIRegs' = [MIIRegs EXCEPT ![reg] = val] /\ hw' = [hw EXCEPT ![reg] = val]
  BY DEF WriteDone
<1> HIDE DEF reg, val
<1>3. RegsTyped' /\ HwTyped'
  <2>1. CASE reg = "ANA" /\ val \in SUBSET (LowModes \cup Flow)
    BY <2>1, <1>2 DEF TypeInv, RegsTyped, HwTyped, Properties
  <2>2. CASE reg = "G" /\ val \in SUBSET GigaModes
    BY <2>2, <1>2 DEF TypeInv, RegsTyped, HwTyped, Properties
  <2>3. CASE reg = "C" /\ val \in ControlValues
    BY <2>3, <1>2 DEF TypeInv, RegsTyped, HwTyped
  <2> QED
    BY <1>1, <2>1, <2>2, <2>3
<1>4. EngineTyped'
  BY DEF TypeInv, EngineTyped, WriteDone, engineVars
<1> QED
  BY <1>3, <1>4 DEF TypeInv, CableTyped, WriteDone

\* What a step of the engine makes of its own variables.
LEMMA EngineStepTyped ==
  ASSUME TypeInv, MII_StateEngine
  PROVE  EngineTyped'
<1> DEFINE ReportOK ==
      /\ PHYDev_LinkState' \in {"Unknown", "Disconnected"} \cup LowModes \cup GigaModes
      /\ mac' \in [speed : {10, 100, 1000}, half : BOOLEAN]
<1>1. PHYDev_CurrentState' \in PhyStates /\ CmdPending' \in BOOLEAN
  BY DEF MII_StateEngine, NotInitialized, Initialized, DefaultCfgRead, LinkUp, LinkDownToUp,
         LinkDown, Reconfigure, NextState, MDIODev_QueueCommand, PhyStates
<1>2. NoReport => ReportOK
  BY DEF NoReport, TypeInv, EngineTyped
<1>3. ASSUME NEW advertised, NEW linkPartner,
             Report(MII_GetSelectedLinkProperties(advertised, linkPartner))
      PROVE  ReportOK
  BY <1>3, SelectedTyped, ReportTyped DEF Report, Modes
<1>4. ReportOK
  <2>1. CASE LinkUp
    BY <2>1, <1>2, <1>3 DEF LinkUp
  <2>2. CASE LinkDownToUp
    BY <2>2, <1>2, <1>3 DEF LinkDownToUp, Reconfigure
  <2>3. CASE NotInitialized \/ Initialized \/ DefaultCfgRead \/ LinkDown
    BY <2>3, <1>2 DEF NotInitialized, Initialized, DefaultCfgRead, LinkDown, Reconfigure
  <2> QED
    BY <2>1, <2>2, <2>3 DEF MII_StateEngine
<1>5. LinkPropertiesToAdvertise' \subseteq Properties /\ SupportedLinkProperties' \subseteq Properties
  BY DecodersTyped
  DEF TypeInv, EngineTyped, MII_StateEngine, NotInitialized, Initialized, DefaultCfgRead, LinkUp,
      LinkDownToUp, LinkDown
<1>6. AdvertisedLinkProperties' \subseteq Properties
  BY DecodersTyped
  DEF TypeInv, EngineTyped, MII_StateEngine, NotInitialized, Initialized, DefaultCfgRead, LinkUp,
      LinkDownToUp, LinkDown
<1>7. LinkPartnerLinkProperties' \subseteq Properties
  BY DecodersTyped
  DEF TypeInv, EngineTyped, MII_StateEngine, NotInitialized, Initialized, DefaultCfgRead, LinkUp,
      LinkDownToUp, LinkDown
<1> QED
  BY <1>1, <1>4, <1>5, <1>6, <1>7 DEF EngineTyped

\* Every step keeps the types.
LEMMA TypePreserved == TypeInv /\ QueueInv /\ [Next]_vars => TypeInv'
<1> SUFFICES ASSUME TypeInv, QueueInv, [Next]_vars PROVE TypeInv'
  OBVIOUS
<1>1. CASE MII_StateEngine
  <2>1. UNCHANGED <<MIIRegs, phyVars>>
    BY <1>1 DEF MII_StateEngine, NotInitialized, Initialized, DefaultCfgRead, LinkUp, LinkDownToUp,
                LinkDown, Reconfigure, NextState
  <2> QED
    BY <1>1, <2>1, EngineStepTyped DEF TypeInv, RegsTyped, HwTyped, CableTyped, phyVars
<1>2. CASE FrameDone
  <2>1. CASE InitFrameDone
    BY <2>1 DEF InitFrameDone, TypeInv, EngineTyped, RegsTyped, HwTyped, CableTyped,
                engineVars, phyVars
  <2> QED
    BY <1>2, <2>1, ReadTyped, WriteTyped DEF FrameDone
<1>3. CASE Plug \/ Unplug
  <2>1. partner' \in Partners \cup {NoPartner}
    BY <1>3 DEF Plug, Unplug
  <2> QED
    BY <1>3, <2>1 DEF Plug, Unplug, TypeInv, EngineTyped, RegsTyped, HwTyped, CableTyped,
                      engineVars, mdioVars
<1>4. CASE LinkComesUp
  <2>1. /\ partner \cap (LowModes \cup Flow) \in SUBSET Properties
        /\ partner \cap GigaModes \in SUBSET Properties
    BY DEF Properties
  <2>2. HwTyped'
    BY <1>4, <2>1 DEF LinkComesUp, TypeInv, HwTyped
  <2> QED
    BY <1>4, <2>2 DEF LinkComesUp, TypeInv, EngineTyped, RegsTyped, CableTyped, engineVars, mdioVars
<1>5. CASE UNCHANGED vars
  BY <1>5 DEF TypeInv, EngineTyped, RegsTyped, HwTyped, CableTyped, vars, engineVars, mdioVars, phyVars
<1> QED
  BY <1>1, <1>2, <1>3, <1>4, <1>5 DEF Next

\* The three invariants hold at the start.
LEMMA InitInv == Init => TypeInv /\ QueueInv /\ ReportInv
<1> SUFFICES ASSUME Init PROVE TypeInv /\ QueueInv /\ ReportInv
  OBVIOUS
<1>1. EngineTyped
  BY PhyAssumption DEF Init, EngineTyped, PhyStates
<1>2. RegsTyped
  BY DEF Init, RegsTyped, NoStatus, StatusValues, ControlValues, Modes, LowModes
<1>3. HwTyped
  <2>1. PICK b \in Boots : hw = [C |-> b.C, ANA |-> b.ANA, G |-> b.G, LPA |-> {}, GS |-> {}]
    BY DEF Init
  <2>2. b.C \in ControlValues /\ b.ANA \in SUBSET (LowModes \cup Flow) /\ b.G \in SUBSET GigaModes
    BY PhyAssumption DEF ControlValues, Modes
  <2> QED
    BY <2>1, <2>2 DEF HwTyped
<1>4. CableTyped
  BY DEF Init, CableTyped
<1>5. QueueInv
  BY InitCmdLength DEF Init, QueueInv, CommandInv, Command, WholeCommands
<1>6. ReportInv
  BY DEF Init, ReportInv, Modes, LowModes, GigaModes
<1> QED
  BY <1>1, <1>2, <1>3, <1>4, <1>5, <1>6 DEF TypeInv

-----------------------------------------------------------------------------
(* Reports *)

\* The two values of the link state that are not modes.
LEMMA NotAMode == "Disconnected" \notin Modes /\ "Unknown" \notin Modes
  BY DEF Modes, LowModes, GigaModes

\* A mode is reported on the way to LINK_UP and taken back on the way out.
LEMMA ReportPreserved == ReportInv /\ [Next]_vars => ReportInv'
<1> SUFFICES ASSUME ReportInv, [Next]_vars PROVE ReportInv'
  OBVIOUS
<1> USE DEF ReportInv
<1>1. CASE MII_StateEngine
  <2>1. CASE LinkUp
    BY <2>1, SelectedTyped, NotAMode DEF LinkUp, NextState, Engine, NoReport, Report
  <2>2. CASE LinkDownToUp
    BY <2>2 DEF LinkDownToUp, Reconfigure, NextState, Engine, NoReport, Report
  <2>3. CASE NotInitialized \/ Initialized \/ DefaultCfgRead \/ LinkDown
    BY <2>3 DEF NotInitialized, Initialized, DefaultCfgRead, LinkDown, Reconfigure, NextState,
                Engine, NoReport
  <2> QED
    BY <1>1, <2>1, <2>2, <2>3 DEF MII_StateEngine
<1>2. CASE FrameDone \/ Plug \/ Unplug \/ LinkComesUp \/ UNCHANGED vars
  BY <1>2 DEF FrameDone, ReadDone, WriteDone, InitFrameDone, Plug, Unplug, LinkComesUp, vars, engineVars
<1> QED
  BY <1>1, <1>2 DEF Next

\* The only step out of a reported mode is the loss of the link in LINK_UP.
LEMMA StepLostBeforeChanged ==
  ASSUME ReportInv, [Next]_vars,
         PHYDev_LinkState \in Modes, PHYDev_LinkState' # PHYDev_LinkState
  PROVE  PHYDev_LinkState' = "Disconnected"
<1>1. PHYDev_CurrentState = "LINK_UP"
  BY DEF ReportInv
<1>2. MII_StateEngine
  BY DEF Next, FrameDone, ReadDone, WriteDone, InitFrameDone, Plug, Unplug, LinkComesUp, vars, engineVars
<1>3. LinkUp
  BY <1>1, <1>2 DEF MII_StateEngine, NotInitialized, Initialized, DefaultCfgRead, LinkDownToUp,
                    LinkDown, Engine
<1> QED
  BY <1>3, SelectedTyped DEF LinkUp, NoReport, Report

-----------------------------------------------------------------------------
(* Theorems *)

\* The three invariants together.
LEMMA PhyInvariant == Spec => [](TypeInv /\ QueueInv /\ ReportInv)
  BY InitInv, TypePreserved, QueuePreserved, ReportPreserved, PTL DEF Spec

\* The engine's variables keep their types and its frames fit the frame list,
\* whatever PHY it meets and whatever the boot loader left in it.
THEOREM TypeCorrect == Spec => []TypeOK
<1>1. TypeInv /\ QueueInv => TypeOK
  BY DEF TypeInv, EngineTyped, QueueInv, TypeOK
<1> QED
  BY <1>1, PhyInvariant, PTL

\* MDIODev_CmdPending is cleared with the last frame of a command and with no
\* other, so the engine never decides on registers still to be read.
THEOREM CommandsWhole == Spec => []WholeCommands
<1>1. QueueInv => WholeCommands
  BY DEF QueueInv, CommandInv
<1> QED
  BY <1>1, PhyInvariant, PTL

\* Whatever is plugged in and pulled, the adapter sees the link lost before it
\* sees another mode (MII_StateEngine in LINK_UP).
THEOREM LossSeen == Spec => LostBeforeChanged
<1>1. ReportInv /\ [Next]_vars =>
        [(PHYDev_LinkState \in LowModes \cup GigaModes /\ PHYDev_LinkState' # PHYDev_LinkState)
            => PHYDev_LinkState' = "Disconnected"]_vars
  BY StepLostBeforeChanged DEF Modes
<1> QED
  BY <1>1, PhyInvariant, PTL DEF Spec, LostBeforeChanged


-----------------------------------------------------------------------------
(* The link that is reported is the link on the wire *)

Frames(a) == {a[i] : i \in 1..Len(a)}
Queued == Frames(pending)

\* A write to C makes the PHY start anew with the values written before it: it
\* is the last write of a command.
IsRestart(f) == f.op = "write" /\ f.reg = "C"
RestartLast(a) ==
    /\ \A i, j \in 1..Len(a) : i < j /\ IsRestart(a[i]) => a[j].op # "write"
    /\ \A i \in 1..Len(a) : a[i].op = "write" => \E j \in 1..Len(a) : IsRestart(a[j])
NoWrite(F) == \A f \in F : f.op # "write"

Ext == "EXT" \in phy.abilities

\* What MII_GetSupportedLinkProperties makes of a PHY, and what is asked of it.
Supports(p) == Flow \cup (p.abilities \cap {"AN"}) \cup Swap10(p.abilities \cap LowModes)
               \cup (IF "EXT" \in p.abilities THEN p.es ELSE {})
Asked(p) == Requested \cap Supports(p)

Early == PHYDev_CurrentState \in {"NOT_INITIALIZED", "INITIALIZED"}
Watching == PHYDev_CurrentState \in {"DEFAULT_CFG_RAED", "LINK_DOWN_TO_UP", "LINK_UP"}
Configured == PHYDev_CurrentState \in {"LINK_DOWN", "LINK_DOWN_TO_UP", "LINK_UP"}

\* What the engine has learnt of the PHY when it leaves INITIALIZED.
LearntInv ==
    /\ Early => LinkPropertiesToAdvertise = Requested
    /\ ~Early => /\ SupportedLinkProperties = Supports(phy)
                 /\ LinkPropertiesToAdvertise = Asked(phy)
    /\ PHYDev_CurrentState # "NOT_INITIALIZED" =>
          /\ Read("ES") \in Queued \/ MIIRegs.ES = phy.es
          /\ MIIRegs.S.abilities = phy.abilities \/ (Early /\ Read("S") \in Queued)

\* Registers are written in LINK_DOWN alone, and the other states that follow it
\* are entered, and kept, with the link up.
ShapeInv ==
    /\ RestartLast(pending)
    /\ PHYDev_CurrentState = "NOT_INITIALIZED" => pending = <<>>
    /\ PHYDev_CurrentState # "LINK_DOWN" => NoWrite(Queued)
    /\ Watching /\ pending # <<>> => MIIRegs.S.up

\* A link that is up is the best of what the registers and the partner allow,
\* but for the time between the write to ANA and the write to C.
WireInv ==
    /\ MIIRegs.S.up /\ ~link => latch
    /\ link => partner \in Partners \ {NoPartner}
    /\ link /\ NoWrite(Queued) =>
          /\ HasMode(Common) /\ wire = Best(Common)
          /\ hw.C.an => /\ hw.LPA = partner \cap (LowModes \cup Flow)
                        /\ hw.GS = partner \cap GigaModes

\* Values of C, ANA and 1000_C that offer what is asked of the PHY, 1 Gb/s
\* excepted, or force one mode of it.
Offers(v, props) ==
    IF v.C.an
    THEN /\ "AN" \in props
         /\ Swap10(v.ANA) = props \cap (LowModes \cup Flow)
         /\ Ext => v.G \subseteq props
    ELSE "AN" \notin props /\ v.C.mode \in props

\* Those values are in the registers, or on their way to them.
Values == [C : ControlValues, ANA : SUBSET (LowModes \cup Flow), G : SUBSET GigaModes]
OnTheirWay(v) ==
    /\ Offers(v, LinkPropertiesToAdvertise)
    /\ \A r \in {"C", "ANA", "G"} : hw[r] = v[r] \/ Write(r, v[r]) \in Queued
    /\ \A f \in Queued : f.op = "write" => f = Write(f.reg, v[f.reg])
ConfigInv == Configured => \E v \in Values : OnTheirWay(v)

\* The registers PHYDev_pGetLinkConfigCmd reads, the status apart: the PHY's own
\* and those that tell of its partner.
OwnRegs == {"C", "ANA"} \cup (IF Ext THEN {"G"} ELSE {})
PartnerRegs == {"LPA"} \cup (IF Ext THEN {"GS"} ELSE {})

\* The copies of the registers the engine has read are up to date; those that
\* tell of the partner are while the link has been up since the last status.
Reading == PHYDev_CurrentState \in {"DEFAULT_CFG_RAED", "LINK_DOWN_TO_UP"}
CopyInv ==
    /\ Reading => \A r \in OwnRegs : MIIRegs[r] = hw[r] \/ Read(r) \in Queued
    /\ Current => MIIRegs.S.complete = hw.C.an
    /\ Current /\ Reading => \A r \in PartnerRegs : MIIRegs[r] = hw[r] \/ Read(r) \in Queued

SoundInv == ReportedIsNegotiated /\ PausableAtGigabit

\* The exchange of the two 10BASE-T bits does no harm: whoever can do one of the
\* two duplex modes can do the other.
TensAlike ==
    \A s \in Partners \cup {Requested} \cup {p.abilities : p \in Phys} : "10HD" \in s <=> "10FD" \in s

\* Every PHY is asked to negotiate, or else for some mode and not for 1 Gb/s,
\* which cannot be refused without a negotiation.
Negotiable ==
    \A p \in Phys : "AN" \in Asked(p) \/ (HasMode(Asked(p)) /\ "1000FD" \notin Asked(p))

\* The frames of what is left of a command when its first frame is done.
LEMMA FramesTail ==
  ASSUME NEW a \in Seq(MiiFrames), a # <<>>
  PROVE  /\ Frames(a) = {Head(a)} \cup Frames(Tail(a))
         /\ RestartLast(a) => RestartLast(Tail(a))
         /\ RestartLast(a) /\ IsRestart(Head(a)) => NoWrite(Frames(Tail(a)))
         /\ RestartLast(a) /\ Head(a).op = "write" /\ ~IsRestart(Head(a)) => ~NoWrite(Frames(Tail(a)))
<1> DEFINE t == Tail(a)
           h == Head(a)
<1>1. /\ Len(a) \in Nat \ {0} /\ Len(t) = Len(a) - 1 /\ h = a[1]
      /\ \A i \in 1..Len(t) : t[i] = a[i + 1]
  OBVIOUS
<1> HIDE DEF t, h
<1>2. \A i \in 1..Len(t) : i + 1 \in 1..Len(a) /\ 1 < i + 1
  BY <1>1
<1>3. \A i \in 1..Len(a) : i = 1 \/ (i - 1 \in 1..Len(t) /\ a[i] = t[i - 1])
  BY <1>1
<1>4. 1 \in 1..Len(a)
  BY <1>1
<1>5. Frames(a) = {h} \cup Frames(t)
  <2>1. \A f \in Frames(t) : f \in Frames(a)
    BY <1>1, <1>2 DEF Frames
  <2>2. \A f \in Frames(a) : f = h \/ f \in Frames(t)
    BY <1>1, <1>3 DEF Frames
  <2>3. h \in Frames(a)
    BY <1>1, <1>4 DEF Frames
  <2> QED
    BY <2>1, <2>2, <2>3
<1>6. ASSUME RestartLast(a) PROVE RestartLast(t)
  <2>1. ASSUME NEW i \in 1..Len(t), NEW j \in 1..Len(t), i < j, IsRestart(t[i])
        PROVE  t[j].op # "write"
    <3>1. i + 1 < j + 1 /\ IsRestart(a[i + 1])
      BY <1>1, <2>1
    <3> QED
      BY <1>1, <1>2, <1>6, <3>1 DEF RestartLast
  <2>2. ASSUME NEW i \in 1..Len(t), t[i].op = "write"
        PROVE  \E j \in 1..Len(t) : IsRestart(t[j])
    <3>1. PICK j \in 1..Len(a) : IsRestart(a[j])
      BY <1>1, <1>2, <1>6, <2>2 DEF RestartLast
    <3>2. j # 1
      BY <1>1, <1>2, <1>6, <2>2, <3>1 DEF RestartLast
    <3> QED
      BY <1>3, <3>1, <3>2
  <2> QED
    BY <2>1, <2>2 DEF RestartLast
<1>7. ASSUME RestartLast(a), IsRestart(h) PROVE NoWrite(Frames(t))
  <2>1. \A i \in 1..Len(t) : t[i].op # "write"
    BY <1>1, <1>2, <1>4, <1>7 DEF RestartLast
  <2> QED
    BY <2>1 DEF NoWrite, Frames
<1>8. ASSUME RestartLast(a), h.op = "write", ~IsRestart(h) PROVE ~NoWrite(Frames(t))
  <2>1. PICK j \in 1..Len(a) : IsRestart(a[j])
    BY <1>1, <1>4, <1>8 DEF RestartLast
  <2>2. j - 1 \in 1..Len(t) /\ IsRestart(t[j - 1])
    BY <1>1, <1>3, <1>8, <2>1
  <2> QED
    BY <2>2 DEF NoWrite, Frames, IsRestart
<1> QED
  BY <1>5, <1>6, <1>7, <1>8 DEF t, h


\* A command without writes.
LEMMA NoWriteNoRestart ==
  ASSUME NEW a, NoWrite(Frames(a))
  PROVE  RestartLast(a)
  BY DEF NoWrite, Frames, RestartLast, IsRestart

\* The commands that only read.
LEMMA ReadCommands ==
  /\ Frames(PHYCmd_GetStatusRegCmd) = {Read("S")} /\ NoWrite(Frames(PHYCmd_GetStatusRegCmd))
  /\ NoWrite(Frames(InitCmd \o PHYCmd_GetStatusRegsCmd))
  /\ {Read("ES"), Read("S")} \subseteq Frames(InitCmd \o PHYCmd_GetStatusRegsCmd)
  /\ NoWrite(Frames(GetLinkConfigCmd))
  /\ \A r \in {"C", "ANA", "LPA"} : Read(r) \in Frames(GetLinkConfigCmd)
  /\ HasExtended => \A r \in {"G", "GS"} : Read(r) \in Frames(GetLinkConfigCmd)
<1>1. \A r \in Registers : Read(r).op # "write" /\ Read(r) \in MiiFrames
  BY DEF Read, MiiFrames
<1>2. Frames(PHYCmd_GetStatusRegCmd) = {Read("S")}
  BY DEF PHYCmd_GetStatusRegCmd, Frames
<1>3. NoWrite({Read("S")})
  BY <1>1 DEF NoWrite, Registers
<1>4. /\ NoWrite(Frames(InitCmd \o PHYCmd_GetStatusRegsCmd))
      /\ {Read("ES"), Read("S")} \subseteq Frames(InitCmd \o PHYCmd_GetStatusRegsCmd)
  <2> DEFINE e == PHYCmd_GetStatusRegsCmd
             c == InitCmd \o e
             n == Len(InitCmd)
  <2>1. /\ InitCmd \in Seq(MiiFrames) /\ n \in Nat /\ \A i \in 1..n : InitCmd[i].op # "write"
    <3>1. [op : {"init"}] \subseteq MiiFrames /\ \A f \in [op : {"init"}] : f.op # "write"
      BY DEF MiiFrames
    <3> QED
      BY <3>1, InitCmdLength, SeqMonotonic, ElementOfSeq
  <2>2. e \in Seq(MiiFrames) /\ Len(e) = 2 /\ e[1] = Read("ES") /\ e[2] = Read("S")
    BY <1>1 DEF PHYCmd_GetStatusRegsCmd, Registers
  <2> HIDE DEF e
  <2>3. /\ Len(c) = n + Len(e)
        /\ \A i \in 1..n + Len(e) : c[i] = IF i <= n THEN InitCmd[i] ELSE e[i - n]
    BY <2>1, <2>2, ConcatProperties, Zenon
  <2> HIDE DEF c, n
  <2>4. Len(c) = n + 2 /\ c[n + 1] = Read("ES") /\ c[n + 2] = Read("S")
    BY <2>1, <2>2, <2>3
  <2>5. \A i \in 1..n : c[i] = InitCmd[i]
    BY <2>1, <2>2, <2>3
  <2>6. ASSUME NEW i \in 1..Len(c) PROVE c[i].op # "write"
    <3>1. i \in 1..n \/ i = n + 1 \/ i = n + 2
      BY <2>1, <2>4
    <3> QED
      BY <1>1, <2>1, <2>4, <2>5, <3>1 DEF Registers
  <2>7. n + 1 \in 1..Len(c) /\ n + 2 \in 1..Len(c)
    BY <2>1, <2>4
  <2>8. NoWrite(Frames(c)) /\ Read("ES") \in Frames(c) /\ Read("S") \in Frames(c)
    BY <2>4, <2>6, <2>7 DEF NoWrite, Frames
  <2> QED
    BY <2>8 DEF c, e
<1>5. Frames(PHYCmd_GetConfig100Cmd) = {Read("C"), Read("ANA"), Read("LPA"), Read("S")}
  BY DEF PHYCmd_GetConfig100Cmd, Frames
<1>6. Frames(PHYCmd_GetConfig1000Cmd)
         = {Read("G"), Read("GS"), Read("C"), Read("ANA"), Read("LPA"), Read("S")}
  <2> DEFINE c == PHYCmd_GetConfig1000Cmd
  <2>1. /\ Len(c) = 6 /\ c[1] = Read("G") /\ c[2] = Read("GS") /\ c[3] = Read("C")
        /\ c[4] = Read("ANA") /\ c[5] = Read("LPA") /\ c[6] = Read("S")
    BY DEF PHYCmd_GetConfig1000Cmd, PHYCmd_GetConfig100Cmd
  <2>2. 1..6 = {1, 2, 3, 4, 5, 6}
    OBVIOUS
  <2> HIDE DEF c
  <2>3. Frames(c) = {Read("G"), Read("GS"), Read("C"), Read("ANA"), Read("LPA"), Read("S")}
    BY <2>1, <2>2 DEF Frames
  <2> QED
    BY <2>3 DEF c
<1>7. /\ NoWrite({Read("C"), Read("ANA"), Read("LPA"), Read("S")})
      /\ NoWrite({Read("G"), Read("GS"), Read("C"), Read("ANA"), Read("LPA"), Read("S")})
  BY <1>1 DEF NoWrite, Registers
<1>8. CASE HasExtended
  <2>1. GetLinkConfigCmd = PHYCmd_GetConfig1000Cmd
    BY <1>8 DEF GetLinkConfigCmd
  <2>2. /\ NoWrite(Frames(GetLinkConfigCmd))
        /\ \A r \in {"C", "ANA", "LPA", "G", "GS"} : Read(r) \in Frames(GetLinkConfigCmd)
    BY <1>6, <1>7, <2>1
  <2> QED
    BY <1>2, <1>3, <1>4, <2>2
<1>9. CASE ~HasExtended
  <2>1. GetLinkConfigCmd = PHYCmd_GetConfig100Cmd
    BY <1>9 DEF GetLinkConfigCmd
  <2>2. /\ NoWrite(Frames(GetLinkConfigCmd))
        /\ \A r \in {"C", "ANA", "LPA"} : Read(r) \in Frames(GetLinkConfigCmd)
    BY <1>5, <1>7, <2>1
  <2> QED
    BY <1>2, <1>3, <1>4, <1>9, <2>2
<1> QED
  BY <1>8, <1>9

\* One frame after others.
LEMMA FrameAppended ==
  ASSUME NEW T, NEW a \in Seq(T), NEW f \in T
  PROVE  /\ a \o <<f>> \in Seq(T) /\ Len(a \o <<f>>) = Len(a) + 1
         /\ (a \o <<f>>)[Len(a) + 1] = f
         /\ \A i \in 1..Len(a) : (a \o <<f>>)[i] = a[i]
  OBVIOUS

\* The values the registers have after MII_SetLinkPropertiesCmd.
SetValues(p) ==
    [C   |-> IF "AN" \in p THEN [an |-> TRUE, mode |-> "10HD"]
             ELSE [an |-> FALSE, mode |-> IF HasMode(p) THEN Best(p) ELSE "10HD"],
     ANA |-> IF "AN" \in p THEN Swap10(p \cap (LowModes \cup Flow)) ELSE hw.ANA,
     G   |-> IF "AN" \in p /\ HasExtended THEN p \cap GigaModes ELSE hw.G]

\* The command c sets the registers to v, C last.
Sets(c, v) ==
    /\ v \in Values /\ RestartLast(c)
    /\ \A r \in {"C", "ANA", "G"} : hw[r] = v[r] \/ Write(r, v[r]) \in Frames(c)
    /\ \A f \in Frames(c) : f.op = "write" => f = Write(f.reg, v[f.reg])

\* The command that sets the link properties writes these values.
LEMMA SetCommandWrites ==
  ASSUME HwTyped, NEW supported, NEW props,
         NEW c, c = MII_SetLinkPropertiesCmd(supported, props) \o PHYCmd_GetStatusRegCmd,
         NEW v, v = SetValues(supported \cap props)
  PROVE  Sets(c, v)
<1> USE DEF Sets
<1> DEFINE p == supported \cap props
           wA == Write("ANA", v.ANA)
           wG == Write("G", v.G)
           wC == Write("C", v.C)
           S  == Read("S")
<1>1. v \in Values
  <2>1. (IF HasMode(p) THEN Best(p) ELSE "10HD") \in Modes /\ "10HD" \in Modes
    BY BestIsMode DEF Modes, LowModes
  <2>2. v.C \in ControlValues
    BY <2>1 DEF SetValues, ControlValues
  <2>3. Swap10(p \cap (LowModes \cup Flow)) \in SUBSET (LowModes \cup Flow)
    BY DEF Swap10, LowModes, Flow
  <2>4. v.ANA \in SUBSET (LowModes \cup Flow) /\ v.G \in SUBSET GigaModes
    BY <2>3 DEF SetValues, HwTyped
  <2>5. v = [C |-> v.C, ANA |-> v.ANA, G |-> v.G]
    BY DEF SetValues
  <2> QED
    BY <2>2, <2>4, <2>5 DEF Values
<1>2. /\ wA.op = "write" /\ wG.op = "write" /\ wC.op = "write" /\ S.op = "read"
      /\ wA.reg = "ANA" /\ wG.reg = "G" /\ wC.reg = "C"
  BY DEF Write, Read
<1>3. /\ IsRestart(wC) /\ ~IsRestart(wA) /\ ~IsRestart(wG) /\ ~IsRestart(S)
  BY <1>2 DEF IsRestart
<1>4. CASE "AN" \in p /\ HasExtended
  <2>1. c = <<wA>> \o <<wG>> \o <<wC>> \o <<S>>
    BY <1>4 DEF MII_SetLinkPropertiesCmd, PHYCmd_GetStatusRegCmd, SetValues
  <2> HIDE DEF wA, wG, wC, S
  <2>2. Len(c) = 4 /\ c[1] = wA /\ c[2] = wG /\ c[3] = wC /\ c[4] = S /\ 1..4 = {1, 2, 3, 4}
    <3> DEFINE T == {wA, wG, wC, S}
               a == <<wA>> \o <<wG>>
               b == a \o <<wC>>
    <3>1. a \in Seq(T) /\ Len(a) = 2 /\ a[1] = wA /\ a[2] = wG
      OBVIOUS
    <3> HIDE DEF a
    <3>2. /\ b \in Seq(T) /\ Len(b) = Len(a) + 1
          /\ b[Len(a) + 1] = wC /\ \A i \in 1..Len(a) : b[i] = a[i]
      <4>1. wC \in T
        OBVIOUS
      <4>2. a \in Seq(T)
        BY <3>1
      <4> HIDE DEF T
      <4> QED
        BY <4>1, <4>2, FrameAppended
    <3>3. c = b \o <<S>>
      BY <2>1 DEF a
    <3> HIDE DEF b
    <3>4. /\ Len(c) = Len(b) + 1 /\ c[Len(b) + 1] = S /\ \A i \in 1..Len(b) : c[i] = b[i]
      <4>1. S \in T
        OBVIOUS
      <4>2. b \in Seq(T)
        BY <3>2
      <4> HIDE DEF T
      <4> QED
        BY <3>3, <4>1, <4>2, FrameAppended
    <3>5. Len(b) = 3 /\ b[1] = wA /\ b[2] = wG /\ b[3] = wC
      BY <3>1, <3>2
    <3> QED
      BY <3>4, <3>5
  <2>3. Frames(c) = {wA, wG, wC, S}
    BY <2>2 DEF Frames
  <2>4. RestartLast(c)
    BY <1>2, <1>3, <2>2 DEF RestartLast
  <2> QED
    BY <1>1, <1>2, <2>3, <2>4 DEF wA, wG, wC
<1>5. CASE "AN" \in p /\ ~HasExtended
  <2>1. c = <<wA>> \o <<>> \o <<wC>> \o <<S>>
    BY <1>5 DEF MII_SetLinkPropertiesCmd, PHYCmd_GetStatusRegCmd, SetValues
  <2> HIDE DEF wA, wG, wC, S
  <2>2. Len(c) = 3 /\ c[1] = wA /\ c[2] = wC /\ c[3] = S /\ 1..3 = {1, 2, 3}
    <3> DEFINE T == {wA, wC, S}
               a == <<wA>> \o <<>>
               b == a \o <<wC>>
    <3>1. a \in Seq(T) /\ Len(a) = 1 /\ a[1] = wA
      OBVIOUS
    <3> HIDE DEF a
    <3>2. /\ b \in Seq(T) /\ Len(b) = Len(a) + 1
          /\ b[Len(a) + 1] = wC /\ \A i \in 1..Len(a) : b[i] = a[i]
      <4>1. wC \in T
        OBVIOUS
      <4>2. a \in Seq(T)
        BY <3>1
      <4> HIDE DEF T
      <4> QED
        BY <4>1, <4>2, FrameAppended
    <3>3. c = b \o <<S>>
      BY <2>1 DEF a
    <3> HIDE DEF b
    <3>4. /\ Len(c) = Len(b) + 1 /\ c[Len(b) + 1] = S /\ \A i \in 1..Len(b) : c[i] = b[i]
      <4>1. S \in T
        OBVIOUS
      <4>2. b \in Seq(T)
        BY <3>2
      <4> HIDE DEF T
      <4> QED
        BY <3>3, <4>1, <4>2, FrameAppended
    <3>5. Len(b) = 2 /\ b[1] = wA /\ b[2] = wC
      BY <3>1, <3>2
    <3> QED
      BY <3>4, <3>5
  <2>3. Frames(c) = {wA, wC, S}
    BY <2>2 DEF Frames
  <2>4. RestartLast(c)
    BY <1>2, <1>3, <2>2 DEF RestartLast
  <2>5. v.G = hw.G
    BY <1>5 DEF SetValues
  <2> QED
    BY <1>1, <1>2, <2>3, <2>4, <2>5 DEF wA, wC
<1>6. CASE "AN" \notin p
  <2>1. c = <<wC>> \o <<S>>
    BY <1>6 DEF MII_SetLinkPropertiesCmd, PHYCmd_GetStatusRegCmd, SetValues
  <2> HIDE DEF wA, wG, wC, S
  <2>2. Len(c) = 2 /\ c[1] = wC /\ c[2] = S /\ 1..2 = {1, 2}
    BY <2>1
  <2>3. Frames(c) = {wC, S}
    BY <2>2 DEF Frames
  <2>4. RestartLast(c)
    BY <1>2, <1>3, <2>2 DEF RestartLast
  <2>5. v.G = hw.G /\ v.ANA = hw.ANA
    BY <1>6 DEF SetValues
  <2> QED
    BY <1>1, <1>2, <2>3, <2>4, <2>5 DEF wC
<1> QED
  BY <1>4, <1>5, <1>6


\* The best of a set is in it, and sets with the same modes have the same best.
LEMMA BestOfModes ==
  ASSUME NEW X, HasMode(X)
  PROVE  /\ Best(X) \in X \cap Modes
         /\ \A Y : (\A m \in Modes : m \in X <=> m \in Y) => HasMode(Y) /\ Best(Y) = Best(X)
<1> DEFINE P(i, Z) == Preference[i] \in Z /\ \A j \in 1..i - 1 : Preference[j] \notin Z
           First(Z) == CHOOSE i \in 1..6 : P(i, Z)
<1>1. \A i \in 1..6 : Preference[i] \in Modes
  BY DEF Preference, Modes, LowModes, GigaModes
<1>2. ASSUME NEW Z, HasMode(Z) PROVE First(Z) \in 1..6 /\ P(First(Z), Z)
  <2>1. \E i \in 1..6 : P(i, Z)
    BY <1>2 DEF HasMode, LowModes, GigaModes, Preference
  <2> QED
    BY <2>1
<1>3. \A Z : Best(Z) = Preference[First(Z)]
  BY DEF Best
<1> HIDE DEF First
<1>4. Best(X) \in X \cap Modes
  BY <1>1, <1>2, <1>3
<1>5. ASSUME NEW Y, \A m \in Modes : m \in X <=> m \in Y
      PROVE  HasMode(Y) /\ Best(Y) = Best(X)
  <2>1. HasMode(Y)
    BY <1>5 DEF HasMode, Modes
  <2>2. PICK i \in 1..6 : i = First(X) /\ P(i, X)
    BY <1>2
  <2>3. PICK k \in 1..6 : k = First(Y) /\ P(k, Y)
    BY <1>2, <2>1
  <2>4. P(k, X)
    <3>1. \A j \in 1..k - 1 : j \in 1..6
      OBVIOUS
    <3> QED
      BY <1>1, <1>5, <2>3, <3>1
  <2>5. i = k
    <3>1. ~(i < k)
      BY <2>2, <2>4
    <3>2. ~(k < i)
      BY <2>2, <2>4
    <3> QED
      BY <3>1, <3>2
  <2> QED
    BY <1>3, <2>1, <2>2, <2>3, <2>5
<1> QED
  BY <1>4, <1>5

\* What is asked of a PHY is among what it supports, and treats the two duplex
\* modes of 10BASE-T alike.
LEMMA AskedAlike ==
  ASSUME TensAlike, NEW p \in Phys
  PROVE  /\ Asked(p) \subseteq Supports(p)
         /\ "10HD" \in Asked(p) <=> "10FD" \in Asked(p)
<1>1. p.es \subseteq GigaModes /\ p.abilities \subseteq LowModes \cup {"AN", "EXT"}
  BY PhyAssumption
<1>2. ("10HD" \in Requested <=> "10FD" \in Requested) /\ ("10HD" \in p.abilities <=> "10FD" \in p.abilities)
  BY DEF TensAlike
<1>3. ("10HD" \in Supports(p) <=> "10HD" \in p.abilities) /\ ("10FD" \in Supports(p) <=> "10FD" \in p.abilities)
  BY <1>1, <1>2 DEF Supports, Swap10, Flow, LowModes, GigaModes
<1> QED
  BY <1>2, <1>3 DEF Asked

\* What the engine selects of what it has read in LINK_DOWN_TO_UP, if the link
\* has stayed up, is the mode on the wire; at 1 Gb/s the partner can be paused,
\* or else the mode is refused.
LEMMA SelectedIsWire ==
  ASSUME TensAlike, Negotiable, TypeInv, LearntInv, WireInv, ConfigInv, CopyInv,
         PHYDev_CurrentState = "LINK_DOWN_TO_UP", Current, Queued = {},
         NEW adv, adv = MII_GetAdvertisedLinkProperties,
         NEW lp, lp = MII_GetLinkPartnerLinkProperties
  PROVE  /\ MII_GetSelectedLinkProperties(adv, lp) = wire
         /\ wire = "1000FD" /\ ~GigabitRefused(adv, lp) => "PAUSE" \in partner
<1> DEFINE L == LinkPropertiesToAdvertise
           X == SupportedLinkProperties \cap adv \cap lp
<1>1. /\ SupportedLinkProperties = Supports(phy) /\ L = Asked(phy) /\ phy \in Phys
      /\ MIIRegs.S.abilities = phy.abilities /\ (HasExtended <=> Ext)
  BY DEF LearntInv, Early, TypeInv, CableTyped, HasExtended, Ext
<1>2. L \subseteq SupportedLinkProperties /\ ("10HD" \in L <=> "10FD" \in L)
  BY <1>1, AskedAlike
<1>3. /\ MIIRegs.S.complete = hw.C.an
      /\ MIIRegs.C = hw.C /\ MIIRegs.ANA = hw.ANA /\ MIIRegs.LPA = hw.LPA
      /\ Ext => MIIRegs.G = hw.G /\ MIIRegs.GS = hw.GS
  BY DEF CopyInv, Reading, OwnRegs, PartnerRegs
<1>4. NoWrite(Queued) /\ link
  BY DEF NoWrite, Current
<1>5. /\ HasMode(Common) /\ wire = Best(Common) /\ partner \in Partners
      /\ hw.C.an => hw.LPA = partner \cap (LowModes \cup Flow) /\ hw.GS = partner \cap GigaModes
  BY <1>4 DEF WireInv
<1>6. "10HD" \in partner <=> "10FD" \in partner
  BY <1>5 DEF TensAlike
<1>7. PICK v \in Values : OnTheirWay(v)
  BY DEF ConfigInv, Configured
<1>8. hw.C = v.C /\ hw.ANA = v.ANA /\ hw.G = v.G /\ Offers(v, L)
  BY <1>7 DEF OnTheirWay
<1>9. hw.ANA \subseteq LowModes \cup Flow /\ hw.G \subseteq GigaModes /\ hw.C \in ControlValues
  BY DEF TypeInv, HwTyped
<1>10. wire \in Common \cap Modes
  BY <1>5, BestOfModes
<1>11. (\A m \in Modes : m \in Common <=> m \in X) => MII_GetSelectedLinkProperties(adv, lp) = wire
  <2>1. ASSUME \A m \in Modes : m \in Common <=> m \in X PROVE HasMode(X) /\ Best(X) = wire
    BY <1>5, <2>1, BestOfModes
  <2> QED
    BY <2>1 DEF MII_GetSelectedLinkProperties
<1>12. CASE hw.C.an
  <2>1. /\ adv = {"AN"} \cup Swap10(hw.ANA) \cup (IF Ext THEN hw.G ELSE {})
        /\ lp = {"AN"} \cup Swap10(hw.LPA) \cup (IF Ext THEN hw.GS ELSE {})
    BY <1>1, <1>3, <1>12 DEF MII_GetAdvertisedLinkProperties, MII_GetLinkPartnerLinkProperties
  <2>2. "AN" \in L /\ Swap10(hw.ANA) = L \cap (LowModes \cup Flow) /\ (Ext => hw.G \subseteq L)
    BY <1>8, <1>12 DEF Offers
  <2>3. Common = partner \cap (hw.ANA \cup IF Ext THEN hw.G ELSE {})
    BY <1>12 DEF Common, Ext
  <2>4. hw.LPA = partner \cap (LowModes \cup Flow) /\ hw.GS = partner \cap GigaModes
    BY <1>5, <1>12
  <2> HIDE DEF L, X
  <2>5. ASSUME NEW m \in GigaModes PROVE m \in Common <=> m \in X
    <3>1. m \notin LowModes \cup Flow /\ m # "AN" /\ m \notin {"10HD", "10FD"}
      BY DEF GigaModes, LowModes, Flow
    <3>2. m \notin hw.ANA /\ m \notin Swap10(hw.ANA) /\ m \notin Swap10(hw.LPA)
      BY <1>9, <2>2, <2>4, <3>1 DEF Swap10
    <3> QED
      BY <1>2, <2>1, <2>2, <2>3, <2>4, <3>1, <3>2 DEF X
  <2>6. ASSUME NEW m \in {"100HD", "100FD"} PROVE m \in Common <=> m \in X
    <3>1. m \in LowModes \cup Flow /\ m # "AN" /\ m \notin {"10HD", "10FD"} /\ m \notin GigaModes
      BY DEF GigaModes, LowModes, Flow
    <3>2. (m \in Swap10(hw.ANA) <=> m \in hw.ANA) /\ (m \in Swap10(hw.LPA) <=> m \in hw.LPA)
      BY <3>1 DEF Swap10
    <3> QED
      BY <1>2, <1>9, <2>1, <2>2, <2>3, <2>4, <3>1, <3>2 DEF X
  <2>7. ASSUME NEW m \in {"10HD", "10FD"} PROVE m \in Common <=> m \in X
    <3>1. m \in LowModes \cup Flow /\ m # "AN" /\ m \notin GigaModes
      BY DEF GigaModes, LowModes, Flow
    <3>2. /\ "10HD" \in Swap10(hw.ANA) <=> "10FD" \in hw.ANA
          /\ "10FD" \in Swap10(hw.ANA) <=> "10HD" \in hw.ANA
          /\ "10HD" \in Swap10(hw.LPA) <=> "10FD" \in hw.LPA
          /\ "10FD" \in Swap10(hw.LPA) <=> "10HD" \in hw.LPA
      BY DEF Swap10
    <3>3. (m \in Swap10(hw.ANA) <=> m \in hw.ANA) /\ (m \in Swap10(hw.LPA) <=> m \in partner)
      BY <1>2, <1>6, <2>2, <2>4, <3>2 DEF LowModes
    <3> QED
      BY <1>2, <1>9, <2>1, <2>2, <2>3, <2>4, <3>1, <3>3 DEF X
  <2>8. \A m \in Modes : m \in Common <=> m \in X
    BY <2>5, <2>6, <2>7 DEF Modes, LowModes
  <2>9. ASSUME wire = "1000FD", ~GigabitRefused(adv, lp) PROVE "PAUSE" \in partner
    <3>1. "1000FD" \in X
      BY <1>10, <2>8, <2>9
    <3>2. "1000FD" \in adv \cap lp /\ "1000FD" \in hw.G /\ Ext
      BY <1>9, <1>10, <2>3, <2>9, <3>1 DEF X, LowModes, Flow
    <3>3. "PAUSE" \in lp
      BY <2>2, <2>9, <3>2 DEF GigabitRefused, L
    <3> QED
      BY <2>1, <2>4, <3>3 DEF Swap10, GigaModes
  <2> QED
    BY <1>11, <2>8, <2>9 DEF X
<1>13. CASE ~hw.C.an
  <2>1. adv = {hw.C.mode} /\ lp = LowModes \cup GigaModes
    BY <1>3, <1>13 DEF MII_GetAdvertisedLinkProperties, MII_GetLinkPartnerLinkProperties
  <2>2. "AN" \notin L /\ hw.C.mode \in L
    BY <1>8, <1>13 DEF Offers
  <2>3. Common = partner \cap {hw.C.mode}
    BY <1>13 DEF Common
  <2>4. wire = hw.C.mode /\ Common = {wire}
    BY <1>10, <2>3
  <2>5. \A m \in Modes : m \in Common <=> m \in X
    BY <1>2, <1>10, <2>1, <2>2, <2>4 DEF Modes
  <2>6. wire # "1000FD"
    BY <1>1, <2>2, <2>4 DEF Negotiable
  <2> QED
    BY <1>11, <2>5, <2>6
<1> QED
  BY <1>12, <1>13


-----------------------------------------------------------------------------
(* The steps of the cable *)

LinkInv == LearntInv /\ ShapeInv /\ WireInv /\ ConfigInv /\ CopyInv /\ SoundInv

\* A step that takes nothing from the engine and the queue, and that the link,
\* if the engine goes by it, does not see.
LEMMA CableStep ==
  ASSUME LinkInv, UNCHANGED <<engineVars, MIIRegs, mdioVars, phy>>,
         hw'.C = hw.C, hw'.ANA = hw.ANA, hw'.G = hw.G, Current' => FALSE, WireInv'
  PROVE  LinkInv'
<1> USE DEF engineVars, mdioVars
<1>1. LearntInv'
  BY DEF LinkInv, LearntInv, Early, Queued
<1>2. ShapeInv'
  BY DEF LinkInv, ShapeInv, Watching, Queued
<1>3. ConfigInv'
  <2>1. ASSUME NEW v \in Values, OnTheirWay(v) PROVE OnTheirWay(v)'
    BY <2>1 DEF OnTheirWay, Offers, Ext, Queued
  <2> QED
    BY <2>1 DEF LinkInv, ConfigInv, Configured
<1>4. CopyInv'
  BY DEF LinkInv, CopyInv, Reading, OwnRegs, Ext, Queued
<1>5. SoundInv'
  BY DEF SoundInv, ReportedIsNegotiated, PausableAtGigabit
<1> QED
  BY <1>1, <1>2, <1>3, <1>4, <1>5 DEF LinkInv

\* A partner comes and goes, and the link with it.
LEMMA CablePreserves ==
  ASSUME TypeInv, LinkInv, Plug \/ Unplug \/ LinkComesUp
  PROVE  LinkInv'
<1>0. WireInv
  BY DEF LinkInv
<1>1. CASE Plug
  <2>1. ~link /\ ~link'
    BY <1>0, <1>1 DEF Plug, WireInv
  <2>2. WireInv'
    BY <1>0, <1>1, <2>1 DEF Plug, WireInv
  <2> QED
    BY <1>1, <2>1, <2>2, CableStep DEF Plug, Current
<1>2. CASE Unplug
  <2>1. WireInv'
    BY <1>2 DEF Unplug, WireInv
  <2> QED
    BY <1>2, <2>1, CableStep DEF Unplug, Current
<1>3. CASE LinkComesUp
  <2>1. hw'.C = hw.C /\ hw'.ANA = hw.ANA /\ hw'.G = hw.G
    BY <1>3 DEF LinkComesUp, TypeInv, HwTyped
  <2>2. hw.C.an => /\ hw'.LPA = partner \cap (LowModes \cup Flow)
                   /\ hw'.GS = partner \cap GigaModes
    BY <1>3 DEF LinkComesUp, TypeInv, HwTyped
  <2>3. Common' = Common /\ HasMode(Common) /\ wire' = Best(Common)
    BY <1>3, <2>1 DEF LinkComesUp, Common
  <2>4. partner \in Partners \ {NoPartner}
    <3>1. Common \subseteq partner
      BY DEF Common
    <3> QED
      BY <2>3, <3>1 DEF HasMode, TypeInv, CableTyped, NoPartner
  <2>5. MIIRegs.S.up => latch
    BY <1>0, <1>3 DEF WireInv, LinkComesUp
  <2>6. UNCHANGED <<MIIRegs, latch, partner>>
    BY <1>3 DEF LinkComesUp
  <2>7. WireInv'
    BY <2>1, <2>2, <2>3, <2>4, <2>5, <2>6 DEF WireInv
  <2> QED
    BY <1>3, <2>1, <2>5, <2>6, <2>7, CableStep DEF LinkComesUp, Current
<1> QED
  BY <1>1, <1>2, <1>3

-----------------------------------------------------------------------------
(* The steps of the bus thread *)

\* What a frame that is done leaves in the queue.
LEMMA QueueShortens ==
  ASSUME QueueInv, FrameDone
  PROVE  /\ Head(pending) \in MiiFrames /\ pending # <<>> /\ UNCHANGED engineVars
         /\ Queued = {Head(pending)} \cup Queued'
         /\ RestartLast(pending) => RestartLast(pending)'
         /\ RestartLast(pending) /\ IsRestart(Head(pending)) => NoWrite(Queued)'
         /\ RestartLast(pending) /\ Head(pending).op = "write" /\ ~IsRestart(Head(pending))
               => ~NoWrite(Queued)'
         /\ pending' # <<>> => Head(pending) # Read("S")
<1>1. pending # <<>> /\ pending' = Tail(pending) /\ UNCHANGED engineVars
  BY DEF FrameDone, ReadDone, WriteDone, InitFrameDone
<1>2. pending \in Seq(MiiFrames) /\ Command(pending)
  BY DEF QueueInv, CommandInv, Command
<1>3. Queued' = Frames(Tail(pending)) /\ Queued = Frames(pending)
      /\ (RestartLast(pending)' <=> RestartLast(Tail(pending)))
  BY <1>1 DEF Queued, Frames, RestartLast
<1>4. Head(pending) \in MiiFrames /\ (pending' # <<>> => Head(pending) # Read("S"))
  BY <1>1, <1>2, TailCommand
<1>5. NoWrite(Queued)' <=> NoWrite(Frames(Tail(pending)))
  BY <1>3 DEF NoWrite
<1> QED
  BY <1>1, <1>2, <1>3, <1>4, <1>5, FramesTail, Zenon

\* A register is read.
LEMMA ReadPreserves ==
  ASSUME TypeInv, QueueInv, ReportInv, LinkInv, ReadDone
  PROVE  LinkInv'
<1> DEFINE h == Head(pending)
           reg == h.reg
<1>1. /\ h \in MiiFrames /\ pending # <<>> /\ UNCHANGED engineVars
      /\ Queued = {h} \cup Queued' /\ RestartLast(pending)'
      /\ pending' # <<>> => h # Read("S")
  BY QueueShortens DEF FrameDone, LinkInv, ShapeInv
<1>2. /\ h.op = "read" /\ MIIRegs' = [MIIRegs EXCEPT ![reg] = RegisterValue(reg)]
      /\ latch' = (IF reg = "S" THEN ~link ELSE latch)
      /\ UNCHANGED <<phy, hw, link, wire, partner>>
  BY DEF ReadDone
<1>3. h = Read(reg) /\ reg \in Registers
  BY <1>1, <1>2 DEF MiiFrames, Read
<1>4. \A r \in Registers : r # reg => Read(r) # h
  BY <1>3 DEF Read
<1>5. DOMAIN MIIRegs = Registers
  BY DEF TypeInv, RegsTyped, Registers
<1> HIDE DEF h, reg
<1>6. /\ \A r \in Registers : MIIRegs'[r] = IF r = reg THEN RegisterValue(r) ELSE MIIRegs[r]
      /\ \A r \in Registers : r # reg /\ Read(r) \in Queued => Read(r) \in Queued'
  BY <1>1, <1>2, <1>3, <1>4, <1>5
<1>7. /\ RegisterValue("S").up = (link /\ ~latch) /\ RegisterValue("S").complete = (link /\ hw.C.an)
      /\ RegisterValue("S").abilities = phy.abilities /\ RegisterValue("ES") = phy.es
      /\ \A r \in Registers \ {"S", "ES"} : RegisterValue(r) = hw[r]
  BY DEF RegisterValue, Registers
<1>8. MIIRegs'.S = IF reg = "S" THEN RegisterValue("S") ELSE MIIRegs.S
  BY <1>6 DEF Registers
<1>9. /\ NoWrite(Queued)' <=> NoWrite(Queued)
      /\ \A r, val : Write(r, val) \in Queued => Write(r, val) \in Queued'
  <2>1. \A r, val : Write(r, val).op = "write"
    BY DEF Write
  <2> QED
    BY <1>1, <1>2, <2>1 DEF NoWrite
<1> USE DEF engineVars
<1>10. LearntInv'
  <2>1. LearntInv
    BY DEF LinkInv
  <2>2. (Read("ES") \in Queued \/ MIIRegs.ES = phy.es) => (Read("ES") \in Queued \/ MIIRegs.ES = phy.es)'
    BY <1>2, <1>6, <1>7 DEF Registers
  <2>3. (MIIRegs.S.abilities = phy.abilities \/ (Early /\ Read("S") \in Queued))
           => (MIIRegs.S.abilities = phy.abilities \/ (Early /\ Read("S") \in Queued))'
    BY <1>1, <1>2, <1>6, <1>7, <1>8 DEF Registers, Early
  <2> QED
    BY <1>1, <1>2, <2>1, <2>2, <2>3 DEF LearntInv, Early
<1>11. ShapeInv'
  <2>1. ShapeInv
    BY DEF LinkInv
  <2>2. (Watching /\ pending # <<>> => MIIRegs.S.up)'
    BY <1>1, <1>3, <1>8, <2>1 DEF ShapeInv, Watching
  <2> QED
    BY <1>1, <1>9, <2>1, <2>2 DEF ShapeInv
<1>12. WireInv'
  <2>1. WireInv
    BY DEF LinkInv
  <2>2. (MIIRegs.S.up /\ ~link => latch)'
    BY <1>2, <1>8, <2>1 DEF WireInv
  <2>3. Common' = Common
    BY <1>2 DEF Common
  <2> QED
    BY <1>2, <1>9, <2>1, <2>2, <2>3 DEF WireInv
<1>13. ConfigInv'
  <2>1. ASSUME NEW v \in Values, OnTheirWay(v) PROVE OnTheirWay(v)'
    BY <1>1, <1>2, <1>9, <2>1 DEF OnTheirWay, Offers, Ext
  <2> QED
    BY <1>1, <2>1 DEF LinkInv, ConfigInv, Configured
<1>14. Current' /\ Watching => Current
  BY <1>1, <1>2, <1>7, <1>8 DEF Current, LinkInv, ShapeInv
<1>15. CopyInv'
  <2>0. CopyInv
    BY DEF LinkInv
  <2>1. ASSUME NEW r \in Registers \ {"S", "ES"}, MIIRegs[r] = hw[r] \/ Read(r) \in Queued
        PROVE  (MIIRegs[r] = hw[r] \/ Read(r) \in Queued)'
    BY <1>2, <1>6, <1>7, <2>1
  <2>2. OwnRegs' = OwnRegs /\ PartnerRegs' = PartnerRegs
        /\ OwnRegs \subseteq Registers \ {"S", "ES"} /\ PartnerRegs \subseteq Registers \ {"S", "ES"}
    BY <1>2 DEF OwnRegs, PartnerRegs, Ext, Registers
  <2>3. (Reading' <=> Reading) /\ (Reading => Watching)
    BY <1>1 DEF Reading, Watching
  <2>4. (Current => MIIRegs.S.complete = hw.C.an)'
    <3>1. hw.C.an \in BOOLEAN
      BY DEF TypeInv, HwTyped, ControlValues
    <3>2. CASE reg = "S"
      BY <1>2, <1>7, <1>8, <3>1, <3>2 DEF Current
    <3>3. CASE reg # "S"
      BY <1>2, <1>8, <2>0, <3>3 DEF Current, CopyInv
    <3> QED
      BY <3>2, <3>3
  <2>5. (Reading => \A r \in OwnRegs : MIIRegs[r] = hw[r] \/ Read(r) \in Queued)'
    BY <2>0, <2>1, <2>2, <2>3 DEF CopyInv
  <2>6. (Current /\ Reading => \A r \in PartnerRegs : MIIRegs[r] = hw[r] \/ Read(r) \in Queued)'
    BY <1>14, <2>0, <2>1, <2>2, <2>3 DEF CopyInv
  <2> QED
    BY <2>4, <2>5, <2>6 DEF CopyInv
<1>16. SoundInv'
  <2>1. "1000FD" \in Modes
    BY DEF Modes, GigaModes
  <2>2. PHYDev_LinkState = "1000FD" => Watching
    BY <2>1 DEF ReportInv, Watching
  <2>3. PHYDev_CurrentState = "LINK_UP" => Watching
    BY DEF Watching
  <2> QED
    BY <1>1, <1>2, <1>14, <2>2, <2>3 DEF LinkInv, SoundInv, ReportedIsNegotiated, PausableAtGigabit
<1> QED
  BY <1>10, <1>11, <1>12, <1>13, <1>15, <1>16 DEF LinkInv


\* A register is written.
LEMMA WritePreserves ==
  ASSUME TypeInv, QueueInv, ReportInv, LinkInv, WriteDone
  PROVE  LinkInv'
<1> DEFINE h == Head(pending)
           reg == h.reg
<1>1. /\ h \in MiiFrames /\ pending # <<>> /\ UNCHANGED engineVars
      /\ Queued = {h} \cup Queued' /\ RestartLast(pending)'
      /\ ~IsRestart(h) => ~NoWrite(Queued)'
  BY QueueShortens DEF FrameDone, LinkInv, ShapeInv, WriteDone
<1>2. /\ h.op = "write" /\ MIIRegs' = [MIIRegs EXCEPT ![reg] = h.val]
      /\ hw' = [hw EXCEPT ![reg] = h.val]
      /\ link' = (link /\ reg # "C") /\ latch' = (latch \/ reg = "C")
      /\ UNCHANGED <<phy, wire, partner>>
  BY DEF WriteDone
<1>3. reg \in {"C", "ANA", "G"} /\ (IsRestart(h) <=> reg = "C")
  BY <1>1, <1>2 DEF MiiFrames, IsRestart
<1>4. \A r : Read(r) \in Queued => Read(r) \in Queued'
  <2>1. \A r : Read(r).op = "read"
    BY DEF Read
  <2> QED
    BY <1>1, <1>2, <2>1
<1>5. DOMAIN MIIRegs = Registers /\ DOMAIN hw = {"C", "ANA", "G", "LPA", "GS"}
  BY DEF TypeInv, RegsTyped, HwTyped, Registers
<1> HIDE DEF h, reg
<1>6. MIIRegs'.S = MIIRegs.S /\ MIIRegs'.ES = MIIRegs.ES
  BY <1>2, <1>3, <1>5 DEF Registers
<1>7. \A r \in {"C", "ANA", "G"} : hw'[r] = IF r = reg THEN h.val ELSE hw[r]
  BY <1>2, <1>3, <1>5
<1>8. PHYDev_CurrentState = "LINK_DOWN"
  BY <1>1, <1>2 DEF LinkInv, ShapeInv, NoWrite
<1> USE DEF engineVars
<1>9. LearntInv'
  BY <1>1, <1>2, <1>4, <1>6 DEF LinkInv, LearntInv, Early
<1>10. ShapeInv'
  BY <1>1, <1>8 DEF ShapeInv, Watching
<1>11. WireInv'
  BY <1>1, <1>2, <1>3, <1>6 DEF LinkInv, WireInv
<1>12. ConfigInv'
  <2>1. PICK v \in Values : OnTheirWay(v)
    BY <1>8 DEF LinkInv, ConfigInv, Configured
  <2>2. h = Write(reg, v[reg])
    BY <1>1, <1>2, <2>1 DEF OnTheirWay, reg
  <2>3. h.val = v[reg]
    BY <2>2 DEF Write
  <2>4. \A r \in {"C", "ANA", "G"} : r # reg => Write(r, v[r]) # h
    BY <2>2 DEF Write
  <2>5. ASSUME NEW r \in {"C", "ANA", "G"} PROVE (hw[r] = v[r] \/ Write(r, v[r]) \in Queued)'
    BY <1>1, <1>7, <2>1, <2>3, <2>4 DEF OnTheirWay
  <2>6. OnTheirWay(v)'
    BY <1>1, <1>2, <2>1, <2>5 DEF OnTheirWay, Offers, Ext
  <2> QED
    BY <2>6 DEF ConfigInv
<1>13. CopyInv'
  <2>1. ~Reading'
    BY <1>1, <1>8 DEF Reading
  <2>2. Current' => Current /\ hw'.C = hw.C
    BY <1>2, <1>3, <1>6, <1>7 DEF Current
  <2> QED
    BY <1>6, <2>1, <2>2 DEF LinkInv, CopyInv
<1>14. SoundInv'
  <2>1. "1000FD" \in Modes
    BY DEF Modes, GigaModes
  <2> QED
    BY <1>1, <1>8, <2>1 DEF ReportInv, SoundInv, ReportedIsNegotiated, PausableAtGigabit
<1> QED
  BY <1>9, <1>10, <1>11, <1>12, <1>13, <1>14 DEF LinkInv

\* A frame of the ACPI command is done.
LEMMA InitFramePreserves ==
  ASSUME QueueInv, LinkInv, InitFrameDone
  PROVE  LinkInv'
<1> DEFINE h == Head(pending)
<1>1. /\ pending # <<>> /\ UNCHANGED engineVars
      /\ Queued = {h} \cup Queued' /\ RestartLast(pending)'
  BY QueueShortens DEF FrameDone, LinkInv, ShapeInv
<1>2. h.op = "init" /\ UNCHANGED <<MIIRegs, phyVars>>
  BY DEF InitFrameDone
<1> HIDE DEF h
<1>3. /\ NoWrite(Queued)' <=> NoWrite(Queued)
      /\ \A r, val : Write(r, val) \in Queued => Write(r, val) \in Queued'
      /\ \A r : Read(r) \in Queued => Read(r) \in Queued'
  <2>1. \A r, val : Write(r, val).op = "write" /\ Read(r).op = "read"
    BY DEF Write, Read
  <2> QED
    BY <1>1, <1>2, <2>1 DEF NoWrite
<1> USE DEF engineVars, phyVars
<1>4. LearntInv'
  BY <1>1, <1>2, <1>3 DEF LinkInv, LearntInv, Early
<1>5. ShapeInv'
  BY <1>1, <1>2, <1>3 DEF LinkInv, ShapeInv, Watching
<1>6. WireInv'
  BY <1>2, <1>3 DEF LinkInv, WireInv, Common
<1>7. ConfigInv'
  <2>1. ASSUME NEW v \in Values, OnTheirWay(v) PROVE OnTheirWay(v)'
    BY <1>1, <1>2, <1>3, <2>1 DEF OnTheirWay, Offers, Ext
  <2> QED
    BY <1>1, <2>1 DEF LinkInv, ConfigInv, Configured
<1>8. CopyInv'
  BY <1>1, <1>2, <1>3 DEF LinkInv, CopyInv, Current, Reading, OwnRegs, PartnerRegs, Ext
<1>9. SoundInv'
  BY <1>1, <1>2 DEF LinkInv, SoundInv, ReportedIsNegotiated, PausableAtGigabit, Current
<1> QED
  BY <1>4, <1>5, <1>6, <1>7, <1>8, <1>9 DEF LinkInv

-----------------------------------------------------------------------------
(* The steps of the engine *)

\* A command is queued when none is, and the PHY is left alone.
LEMMA EngineStep ==
  ASSUME QueueInv, LinkInv, ~CmdPending, NEW state, NEW c, NextState(state, c), GoodCommand(c)
  PROVE  /\ Queued = {} /\ NoWrite(Queued) /\ pending = <<>> /\ pending' = c /\ pending' # <<>>
         /\ Queued' = Frames(c) /\ UNCHANGED <<MIIRegs, phyVars>>
         /\ PHYDev_CurrentState' = state /\ (Current' <=> Current)
         /\ WireInv'
<1>1. pending = <<>> /\ UNCHANGED <<MIIRegs, phyVars>> /\ PHYDev_CurrentState' = state
  BY DEF QueueInv, CommandInv, WholeCommands, NextState
<1>2. c \in Seq(MiiFrames) /\ c # <<>> /\ pending' = <<>> \o c
  BY <1>1 DEF GoodCommand, Command, NextState, MDIODev_QueueCommand
<1>3. pending' = c
  BY <1>2, ConcatEmptySeq
<1>4. Queued = {} /\ NoWrite(Queued)
  BY <1>1 DEF Queued, Frames, NoWrite
<1>5. Queued' = Frames(c)
  BY <1>3 DEF Queued, Frames
<1>6. Current' <=> Current
  BY <1>1 DEF Current, phyVars
<1>7. WireInv'
  BY <1>1, <1>4 DEF LinkInv, WireInv, Common, phyVars
<1> QED
  BY <1>1, <1>2, <1>3, <1>4, <1>5, <1>6, <1>7

\* Values that are in the registers stay there while a command only reads.
LEMMA ConfigKept ==
  ASSUME ConfigInv, Configured, Queued = {}, NoWrite(Queued)', UNCHANGED <<hw, phy, LinkPropertiesToAdvertise>>
  PROVE  ConfigInv'
<1>1. PICK v \in Values : OnTheirWay(v)
  BY DEF ConfigInv
<1>2. OnTheirWay(v)'
  BY <1>1 DEF OnTheirWay, Offers, Ext, NoWrite
<1> QED
  BY <1>2 DEF ConfigInv

\* Exchanging the two bits twice changes nothing.
LEMMA Swap10Twice ==
  ASSUME NEW s
  PROVE  Swap10(Swap10(s)) = s
  BY DEF Swap10

\* The values the engine sets offer what is asked of the PHY.
LEMMA SetOffers ==
  ASSUME Negotiable, phy \in Phys, HasExtended <=> Ext, NEW L, L = Asked(phy),
         NEW p, p = L \/ ("AN" \in L /\ p = L \ {"1000FD"})
  PROVE  Offers(SetValues(p), L)
<1> DEFINE v == SetValues(p)
<1>1. ("AN" \in p <=> "AN" \in L) /\ p \subseteq L /\ p \cap (LowModes \cup Flow) = L \cap (LowModes \cup Flow)
  BY DEF LowModes, Flow
<1>2. CASE "AN" \in L
  <2>1. v.C.an = TRUE /\ v.ANA = Swap10(p \cap (LowModes \cup Flow)) /\ (Ext => v.G = p \cap GigaModes)
    BY <1>1, <1>2 DEF SetValues
  <2> HIDE DEF v
  <2>2. Swap10(v.ANA) = L \cap (LowModes \cup Flow) /\ (Ext => v.G \subseteq L)
    BY <1>1, <2>1, Swap10Twice
  <2>3. Offers(v, L)
    BY <1>2, <2>1, <2>2 DEF Offers
  <2> QED
    BY <2>3 DEF v
<1>3. CASE "AN" \notin L
  <2>1. p = L /\ HasMode(L)
    BY <1>3 DEF Negotiable
  <2>2. v.C.an = FALSE /\ v.C.mode = Best(L)
    BY <1>1, <1>3, <2>1 DEF SetValues
  <2>3. Best(L) \in L
    BY <2>1, BestOfModes
  <2> HIDE DEF v
  <2>4. Offers(v, L)
    BY <1>3, <2>2, <2>3 DEF Offers
  <2> QED
    BY <2>4 DEF v
<1> QED
  BY <1>2, <1>3


\* The negotiation starts anew with what is asked of the PHY, 1 Gb/s excepted or not.
LEMMA ReconfigurePreserves ==
  ASSUME Negotiable, TypeInv, QueueInv, LinkInv, ~CmdPending, ReportInv',
         NEW supported, NEW props,
         NextState("LINK_DOWN", MII_SetLinkPropertiesCmd(supported, props) \o PHYCmd_GetStatusRegCmd),
         MIIRegs.S.abilities = phy.abilities, MIIRegs.ES = phy.es,
         SupportedLinkProperties' = Supports(phy), LinkPropertiesToAdvertise' = Asked(phy),
         \/ supported \cap props = Asked(phy)
         \/ "AN" \in Asked(phy) /\ supported \cap props = Asked(phy) \ {"1000FD"}
  PROVE  LinkInv'
<1>0. PICK v, c : /\ v = SetValues(supported \cap props)
                  /\ c = MII_SetLinkPropertiesCmd(supported, props) \o PHYCmd_GetStatusRegCmd
  OBVIOUS
<1>1. /\ Queued' = Frames(c) /\ pending' = c /\ UNCHANGED <<MIIRegs, phyVars>>
      /\ PHYDev_CurrentState' = "LINK_DOWN" /\ (Current' <=> Current) /\ WireInv'
  BY <1>0, SetLinkCommand, EngineStep
<1>2. phy \in Phys /\ HwTyped /\ (HasExtended <=> Ext)
  BY DEF TypeInv, CableTyped, HasExtended, Ext
<1>3. Sets(c, v)
  BY <1>0, <1>2, SetCommandWrites
<1>4. Offers(v, Asked(phy))
  BY <1>0, <1>2, SetOffers
<1>5. LearntInv'
  BY <1>1 DEF LearntInv, Early, Asked, Supports, phyVars
<1>6. ShapeInv'
  BY <1>1, <1>3 DEF Sets, ShapeInv, Watching, RestartLast
<1>7. ConfigInv'
  <2>1. OnTheirWay(v)'
    BY <1>1, <1>3, <1>4 DEF Sets, OnTheirWay, Offers, Ext, phyVars
  <2> QED
    BY <1>3, <2>1 DEF Sets, ConfigInv
<1>8. CopyInv'
  BY <1>1 DEF LinkInv, CopyInv, Reading, phyVars
<1>9. SoundInv'
  <2>1. "1000FD" \in Modes
    BY DEF Modes, GigaModes
  <2> QED
    BY <1>1, <2>1 DEF ReportInv, SoundInv, ReportedIsNegotiated, PausableAtGigabit
<1> QED
  BY <1>1, <1>5, <1>6, <1>7, <1>8, <1>9 DEF LinkInv


\* A command that only reads is queued, and what is known of the PHY stays.
LEMMA ReadStepPreserves ==
  ASSUME QueueInv, LinkInv, ~Early, ~CmdPending, NEW state, NEW c, NextState(state, c),
         GoodCommand(c), NoWrite(Frames(c)), UNCHANGED <<LinkPropertiesToAdvertise, SupportedLinkProperties>>,
         state \in {"LINK_DOWN", "LINK_DOWN_TO_UP", "LINK_UP"},
         state \in {"LINK_DOWN_TO_UP", "LINK_UP"} => MIIRegs.S.up
  PROVE  LearntInv' /\ ShapeInv' /\ WireInv'
<1>1. /\ Queued = {} /\ Queued' = Frames(c) /\ pending' = c /\ UNCHANGED <<MIIRegs, phyVars>>
      /\ PHYDev_CurrentState' = state /\ WireInv' /\ pending' # <<>>
  BY EngineStep
<1>2. LearntInv'
  <2>1. /\ SupportedLinkProperties = Supports(phy) /\ LinkPropertiesToAdvertise = Asked(phy)
        /\ MIIRegs.ES = phy.es /\ MIIRegs.S.abilities = phy.abilities
    BY <1>1 DEF LinkInv, LearntInv, Early
  <2> QED
    BY <1>1, <2>1 DEF LearntInv, Early, Asked, Supports, phyVars
<1>3. ShapeInv'
  <2>1. RestartLast(c)
    BY NoWriteNoRestart
  <2>2. RestartLast(pending)'
    BY <1>1, <2>1 DEF RestartLast
  <2>3. NoWrite(Queued)'
    BY <1>1 DEF NoWrite
  <2> QED
    BY <1>1, <2>2, <2>3 DEF ShapeInv, Watching
<1> QED
  BY <1>1, <1>2, <1>3

\* In the first state what the PHY can do is read ...
LEMMA NotInitializedPreserves ==
  ASSUME TypeInv, QueueInv, LinkInv, ReportInv', NotInitialized
  PROVE  LinkInv'
<1> DEFINE c == InitCmd \o PHYCmd_GetStatusRegsCmd
<1>0. /\ ~CmdPending /\ PHYDev_CurrentState = "NOT_INITIALIZED" /\ NextState("INITIALIZED", c)
      /\ UNCHANGED LinkPropertiesToAdvertise
  BY DEF NotInitialized, Engine
<1>1. NoWrite(Frames(c)) /\ {Read("ES"), Read("S")} \subseteq Frames(c) /\ GoodCommand(c)
  BY ReadCommands, StatusCommands
<1> HIDE DEF c
<1>2. /\ Queued' = Frames(c) /\ pending' = c /\ UNCHANGED <<MIIRegs, phyVars>>
      /\ PHYDev_CurrentState' = "INITIALIZED" /\ WireInv' /\ (Current' <=> Current)
  BY <1>0, <1>1, EngineStep
<1>3. LearntInv'
  BY <1>0, <1>1, <1>2 DEF LinkInv, LearntInv, Early
<1>4. ShapeInv'
  BY <1>1, <1>2, NoWriteNoRestart DEF ShapeInv, Watching, RestartLast, NoWrite
<1>5. ConfigInv' /\ CopyInv'
  BY <1>2 DEF LinkInv, ConfigInv, Configured, CopyInv, Reading, phyVars
<1>6. SoundInv'
  <2>1. "1000FD" \in Modes
    BY DEF Modes, GigaModes
  <2> QED
    BY <1>2, <2>1 DEF ReportInv, SoundInv, ReportedIsNegotiated, PausableAtGigabit
<1> QED
  BY <1>2, <1>3, <1>4, <1>5, <1>6 DEF LinkInv

\* ... and in the second what is asked of it is cut down to that.
LEMMA InitializedPreserves ==
  ASSUME Negotiable, TypeInv, QueueInv, LinkInv, ReportInv', Initialized
  PROVE  LinkInv'
<1> DEFINE c == GetLinkConfigCmd
<1>0. ~CmdPending /\ PHYDev_CurrentState = "INITIALIZED" /\ Queued = {}
  BY DEF Initialized, Engine, QueueInv, CommandInv, WholeCommands, Queued, Frames
<1>1. /\ MIIRegs.ES = phy.es /\ MIIRegs.S.abilities = phy.abilities
      /\ LinkPropertiesToAdvertise = Requested /\ (HasExtended <=> Ext)
  BY <1>0 DEF LinkInv, LearntInv, Early, HasExtended, Ext
<1>2. SupportedLinkProperties' = Supports(phy) /\ LinkPropertiesToAdvertise' = Asked(phy)
  BY <1>1 DEF Initialized, MII_GetSupportedLinkProperties, Supports, Asked, HasExtended
<1>3. CASE MIIRegs.S.up
  <2>1. NextState("DEFAULT_CFG_RAED", c) /\ GoodCommand(c) /\ NoWrite(Frames(c))
    BY <1>3, ConfigCommand, ReadCommands DEF Initialized
  <2>2. \A r \in OwnRegs \cup PartnerRegs : Read(r) \in Frames(c)
    BY <1>1, ReadCommands DEF OwnRegs, PartnerRegs
  <2> HIDE DEF c
  <2>3. PICK d : d = c
    OBVIOUS
  <2>4. /\ Queued' = Frames(d) /\ pending' = d /\ UNCHANGED <<MIIRegs, phyVars>>
        /\ PHYDev_CurrentState' = "DEFAULT_CFG_RAED" /\ WireInv' /\ (Current' <=> Current)
    BY <1>0, <2>1, <2>3, EngineStep
  <2>5. LearntInv'
    BY <1>1, <1>2, <2>4 DEF LearntInv, Early, Asked, Supports, phyVars
  <2>6. ShapeInv'
    <3>1. RestartLast(pending)' /\ NoWrite(Queued)'
      BY <2>1, <2>3, <2>4, NoWriteNoRestart DEF RestartLast, NoWrite
    <3> QED
      BY <1>3, <2>4, <3>1 DEF ShapeInv, Watching
  <2>7. ConfigInv'
    BY <2>4 DEF ConfigInv, Configured
  <2>8. CopyInv'
    <3>1. OwnRegs' = OwnRegs /\ PartnerRegs' = PartnerRegs
      BY <2>4 DEF OwnRegs, PartnerRegs, Ext, phyVars
    <3>2. \A r \in OwnRegs \cup PartnerRegs : Read(r) \in Queued'
      BY <2>2, <2>3, <2>4
    <3> QED
      BY <2>4, <3>1, <3>2 DEF LinkInv, CopyInv, phyVars
  <2>9. SoundInv'
    <3>1. "1000FD" \in Modes
      BY DEF Modes, GigaModes
    <3> QED
      BY <2>4, <3>1 DEF ReportInv, SoundInv, ReportedIsNegotiated, PausableAtGigabit
  <2> QED
    BY <2>4, <2>5, <2>6, <2>7, <2>8, <2>9 DEF LinkInv
<1>4. CASE ~MIIRegs.S.up
  <2>1. PICK supported, props : supported = SupportedLinkProperties' /\ props = LinkPropertiesToAdvertise'
    OBVIOUS
  <2>2. NextState("LINK_DOWN", MII_SetLinkPropertiesCmd(supported, props) \o PHYCmd_GetStatusRegCmd)
    BY <1>4, <2>1 DEF Initialized
  <2>3. supported \cap props = Asked(phy)
    BY <1>2, <2>1 DEF Asked
  <2> QED
    BY <1>0, <1>1, <1>2, <2>2, <2>3, ReconfigurePreserves
<1> QED
  BY <1>3, <1>4


\* What the engine knows of the PHY after the first two states, between commands.
LEMMA Learnt ==
  ASSUME QueueInv, LinkInv, ~Early, ~CmdPending
  PROVE  /\ SupportedLinkProperties = Supports(phy) /\ LinkPropertiesToAdvertise = Asked(phy)
         /\ Asked(phy) \subseteq Supports(phy)
         /\ MIIRegs.ES = phy.es /\ MIIRegs.S.abilities = phy.abilities
         /\ (HasExtended <=> Ext) /\ Queued = {}
<1>1. Queued = {}
  BY DEF QueueInv, CommandInv, WholeCommands, Queued, Frames
<1> QED
  BY <1>1 DEF LinkInv, LearntInv, Early, HasExtended, Ext, Asked

\* The engine starts the negotiation anew, for the reason the state gives.
LEMMA ReconfigureStep ==
  ASSUME Negotiable, TypeInv, QueueInv, LinkInv, ~Early, ~CmdPending, ReportInv',
         UNCHANGED <<LinkPropertiesToAdvertise, SupportedLinkProperties>>,
         \/ Reconfigure(LinkPropertiesToAdvertise)
         \/ /\ "1000FD" \in LinkPropertiesToAdvertise
            /\ Reconfigure(LinkPropertiesToAdvertise \cup {"1000FD"})
         \/ /\ "AN" \in LinkPropertiesToAdvertise
            /\ Reconfigure(LinkPropertiesToAdvertise \ {"1000FD"})
  PROVE  LinkInv'
<1>1. /\ SupportedLinkProperties = Supports(phy) /\ LinkPropertiesToAdvertise = Asked(phy)
      /\ Asked(phy) \subseteq Supports(phy)
      /\ MIIRegs.ES = phy.es /\ MIIRegs.S.abilities = phy.abilities
  BY Learnt
<1>2. PICK supported, props :
        /\ supported = SupportedLinkProperties
        /\ \/ props = Asked(phy)
           \/ "1000FD" \in Asked(phy) /\ props = Asked(phy) \cup {"1000FD"}
           \/ "AN" \in Asked(phy) /\ props = Asked(phy) \ {"1000FD"}
        /\ NextState("LINK_DOWN", MII_SetLinkPropertiesCmd(supported, props) \o PHYCmd_GetStatusRegCmd)
  BY <1>1, Zenon DEF Reconfigure
<1>3. \/ supported \cap props = Asked(phy)
      \/ "AN" \in Asked(phy) /\ supported \cap props = Asked(phy) \ {"1000FD"}
  BY <1>1, <1>2
<1>4. SupportedLinkProperties' = Supports(phy) /\ LinkPropertiesToAdvertise' = Asked(phy)
  BY <1>1
<1> QED
  BY <1>1, <1>2, <1>3, <1>4, ReconfigurePreserves

\* The configuration of the boot loader is kept if it is the requested one.
LEMMA DefaultCfgPreserves ==
  ASSUME Negotiable, TypeInv, QueueInv, LinkInv, ReportInv', DefaultCfgRead
  PROVE  LinkInv'
<1> DEFINE L == LinkPropertiesToAdvertise
<1>0. /\ ~CmdPending /\ PHYDev_CurrentState = "DEFAULT_CFG_RAED" /\ ~Early /\ Reading
      /\ UNCHANGED <<LinkPropertiesToAdvertise, SupportedLinkProperties>>
  BY DEF DefaultCfgRead, Engine, Early, Reading
<1>1. CASE Reconfigure(L)
  BY <1>0, <1>1, ReconfigureStep
<1>2. CASE /\ MIIRegs.S.up /\ L = MII_GetAdvertisedLinkProperties
           /\ NextState("LINK_DOWN_TO_UP", PHYCmd_GetStatusRegCmd)
  <2>1. GoodCommand(PHYCmd_GetStatusRegCmd) /\ NoWrite(Frames(PHYCmd_GetStatusRegCmd))
    BY StatusCommands, ReadCommands
  <2>2. LearntInv' /\ ShapeInv' /\ WireInv'
    BY <1>0, <1>2, <2>1, ReadStepPreserves
  <2>3. /\ Queued = {} /\ Queued' = Frames(PHYCmd_GetStatusRegCmd) /\ UNCHANGED <<MIIRegs, phyVars>>
        /\ PHYDev_CurrentState' = "LINK_DOWN_TO_UP" /\ (Current' <=> Current)
    BY <1>0, <1>2, <2>1, EngineStep
  <2>4. /\ MIIRegs.C = hw.C /\ MIIRegs.ANA = hw.ANA /\ (Ext => MIIRegs.G = hw.G)
        /\ Current => /\ MIIRegs.LPA = hw.LPA /\ (Ext => MIIRegs.GS = hw.GS)
                      /\ MIIRegs.S.complete = hw.C.an
    BY <1>0, <2>3 DEF LinkInv, CopyInv, OwnRegs, PartnerRegs
  <2>5. HasExtended <=> Ext
    BY <1>0, Learnt
  <2>6. PICK v : v = [C |-> hw.C, ANA |-> hw.ANA, G |-> hw.G]
    OBVIOUS
  <2>7. v \in Values
    BY <2>6 DEF TypeInv, HwTyped, Values
  <2>8. Offers(v, L)
    <3>1. v.C = hw.C /\ v.ANA = hw.ANA /\ v.G = hw.G
      BY <2>6
    <3>2. hw.ANA \subseteq LowModes \cup Flow /\ hw.G \subseteq GigaModes /\ hw.C.mode \in Modes
      BY DEF TypeInv, HwTyped, ControlValues
    <3>3. CASE hw.C.an
      <4>1. L = {"AN"} \cup Swap10(hw.ANA) \cup (IF Ext THEN hw.G ELSE {})
        BY <1>2, <2>4, <2>5, <3>3 DEF MII_GetAdvertisedLinkProperties
      <4>2. Swap10(hw.ANA) \subseteq LowModes \cup Flow
        BY <3>2 DEF Swap10, LowModes
      <4>3. GigaModes \cap (LowModes \cup Flow) = {} /\ "AN" \notin LowModes \cup Flow
        BY DEF GigaModes, LowModes, Flow
      <4>4. Swap10(hw.ANA) = L \cap (LowModes \cup Flow)
        BY <3>2, <4>1, <4>2, <4>3
      <4> HIDE DEF L
      <4> QED
        BY <3>1, <3>3, <4>1, <4>4 DEF Offers
    <3>4. CASE ~hw.C.an
      <4>1. L = {hw.C.mode}
        BY <1>2, <2>4, <3>4 DEF MII_GetAdvertisedLinkProperties
      <4>2. hw.C.mode # "AN"
        BY <3>2 DEF Modes, LowModes, GigaModes
      <4> HIDE DEF L
      <4> QED
        BY <3>1, <3>4, <4>1, <4>2 DEF Offers
    <3> QED
      BY <3>3, <3>4
  <2>9. ConfigInv'
    <3>1. hw'.C = v.C /\ hw'.ANA = v.ANA /\ hw'.G = v.G
      BY <2>3, <2>6 DEF phyVars
    <3>2. NoWrite(Queued')
      BY <2>1, <2>3
    <3>3. OnTheirWay(v)'
      BY <1>0, <2>3, <2>8, <3>1, <3>2 DEF OnTheirWay, Offers, Ext, NoWrite, phyVars
    <3> QED
      BY <2>7, <3>3 DEF ConfigInv
  <2>10. CopyInv'
    BY <2>3, <2>4 DEF CopyInv, OwnRegs, PartnerRegs, Ext, phyVars
  <2>11. SoundInv'
    <3>1. "1000FD" \in Modes
      BY DEF Modes, GigaModes
    <3> QED
      BY <2>3, <3>1 DEF ReportInv, SoundInv, ReportedIsNegotiated, PausableAtGigabit
  <2> QED
    BY <2>2, <2>9, <2>10, <2>11 DEF LinkInv
<1> QED
  BY <1>1, <1>2 DEF DefaultCfgRead

\* The link is watched, and lost.
LEMMA LinkUpPreserves ==
  ASSUME TypeInv, QueueInv, LinkInv, ReportInv', LinkUp
  PROVE  LinkInv'
<1> DEFINE c == PHYCmd_GetStatusRegCmd
<1>0. /\ ~CmdPending /\ PHYDev_CurrentState = "LINK_UP" /\ ~Early /\ Configured
      /\ UNCHANGED <<LinkPropertiesToAdvertise, SupportedLinkProperties>>
  BY DEF LinkUp, Engine, Early, Configured
<1>1. GoodCommand(c) /\ NoWrite(Frames(c))
  BY StatusCommands, ReadCommands
<1>2. PICK state : /\ NextState(state, c)
                   /\ \/ state = "LINK_UP" /\ MIIRegs.S.up /\ NoReport
                      \/ state = "LINK_DOWN"
  BY DEF LinkUp
<1>3. LearntInv' /\ ShapeInv' /\ WireInv'
  BY <1>0, <1>1, <1>2, ReadStepPreserves
<1>4. /\ Queued = {} /\ Queued' = Frames(c) /\ UNCHANGED <<MIIRegs, phyVars>>
      /\ PHYDev_CurrentState' = state /\ (Current' <=> Current)
  BY <1>0, <1>1, <1>2, EngineStep
<1>5. ConfigInv'
  BY <1>0, <1>1, <1>4, ConfigKept DEF LinkInv, NoWrite, phyVars
<1>6. CopyInv'
  BY <1>2, <1>4 DEF LinkInv, CopyInv, Reading, phyVars
<1>7. SoundInv'
  <2>1. "1000FD" \in Modes
    BY DEF Modes, GigaModes
  <2>2. CASE state = "LINK_DOWN"
    BY <1>4, <2>1, <2>2 DEF ReportInv, SoundInv, ReportedIsNegotiated, PausableAtGigabit
  <2>3. CASE state = "LINK_UP" /\ NoReport
    BY <1>0, <1>4, <2>3
    DEF LinkInv, SoundInv, ReportedIsNegotiated, PausableAtGigabit, NoReport, phyVars
  <2> QED
    BY <1>2, <2>2, <2>3
<1> QED
  BY <1>3, <1>5, <1>6, <1>7 DEF LinkInv

\* The link comes up; its configuration is to be read.
LEMMA LinkDownPreserves ==
  ASSUME TypeInv, QueueInv, LinkInv, ReportInv', LinkDown
  PROVE  LinkInv'
<1>0. /\ ~CmdPending /\ PHYDev_CurrentState = "LINK_DOWN" /\ ~Early /\ Configured
      /\ UNCHANGED <<LinkPropertiesToAdvertise, SupportedLinkProperties>>
  BY DEF LinkDown, Engine, Early, Configured
<1>1. PICK state, c : /\ NextState(state, c)
                      /\ \/ state = "LINK_DOWN_TO_UP" /\ MIIRegs.S.up /\ c = GetLinkConfigCmd
                         \/ state = "LINK_DOWN" /\ c = PHYCmd_GetStatusRegCmd
  BY DEF LinkDown
<1>2. GoodCommand(c) /\ NoWrite(Frames(c))
  BY <1>1, StatusCommands, ConfigCommand, ReadCommands
<1>3. LearntInv' /\ ShapeInv' /\ WireInv'
  BY <1>0, <1>1, <1>2, ReadStepPreserves
<1>4. /\ Queued = {} /\ Queued' = Frames(c) /\ UNCHANGED <<MIIRegs, phyVars>>
      /\ PHYDev_CurrentState' = state /\ (Current' <=> Current)
  BY <1>0, <1>1, <1>2, EngineStep
<1>5. ConfigInv'
  BY <1>0, <1>2, <1>4, ConfigKept DEF LinkInv, NoWrite, phyVars
<1>6. CopyInv'
  <2>1. CASE state = "LINK_DOWN"
    BY <1>4, <2>1 DEF LinkInv, CopyInv, Reading, phyVars
  <2>2. CASE c = GetLinkConfigCmd
    <3>1. HasExtended <=> Ext
      BY <1>0, Learnt
    <3>2. \A r \in OwnRegs \cup PartnerRegs : Read(r) \in Queued'
      BY <1>4, <2>2, <3>1, ReadCommands DEF OwnRegs, PartnerRegs
    <3>3. OwnRegs' = OwnRegs /\ PartnerRegs' = PartnerRegs
      BY <1>4 DEF OwnRegs, PartnerRegs, Ext, phyVars
    <3> QED
      BY <1>4, <3>2, <3>3 DEF LinkInv, CopyInv, phyVars
  <2> QED
    BY <1>1, <2>1, <2>2
<1>7. SoundInv'
  <2>1. "1000FD" \in Modes
    BY DEF Modes, GigaModes
  <2> QED
    BY <1>1, <1>4, <2>1 DEF ReportInv, SoundInv, ReportedIsNegotiated, PausableAtGigabit
<1> QED
  BY <1>3, <1>5, <1>6, <1>7 DEF LinkInv

\* The link is reported, or 1 Gb/s is refused or wanted, or the link is lost again.
LEMMA LinkDownToUpPreserves ==
  ASSUME TensAlike, Negotiable, TypeInv, QueueInv, LinkInv, ReportInv', LinkDownToUp
  PROVE  LinkInv'
<1> DEFINE c == PHYCmd_GetStatusRegCmd
<1>0. /\ ~CmdPending /\ PHYDev_CurrentState = "LINK_DOWN_TO_UP" /\ ~Early /\ Configured
      /\ UNCHANGED <<LinkPropertiesToAdvertise, SupportedLinkProperties>>
  BY DEF LinkDownToUp, Engine, Early, Configured
<1>1. PICK adv, lp : adv = MII_GetAdvertisedLinkProperties /\ lp = MII_GetLinkPartnerLinkProperties
  OBVIOUS
<1>2. CASE \/ GigabitRefused(adv, lp) /\ Reconfigure(LinkPropertiesToAdvertise \ {"1000FD"})
           \/ GigabitWanted(adv, lp) /\ Reconfigure(LinkPropertiesToAdvertise \cup {"1000FD"})
  BY <1>0, <1>2, ReconfigureStep DEF GigabitRefused, GigabitWanted
<1>3. ASSUME NEW state, NextState(state, c),
             \/ state = "LINK_DOWN"
             \/ /\ state = "LINK_UP" /\ MIIRegs.S.up /\ ~GigabitRefused(adv, lp)
                /\ Report(MII_GetSelectedLinkProperties(adv, lp))
      PROVE  LinkInv'
  <2>1. GoodCommand(c) /\ NoWrite(Frames(c))
    BY StatusCommands, ReadCommands
  <2>2. LearntInv' /\ ShapeInv' /\ WireInv'
    BY <1>0, <1>3, <2>1, ReadStepPreserves
  <2>3. /\ Queued = {} /\ Queued' = Frames(c) /\ UNCHANGED <<MIIRegs, phyVars>>
        /\ PHYDev_CurrentState' = state /\ (Current' <=> Current)
    BY <1>0, <1>3, <2>1, EngineStep
  <2>4. ConfigInv'
    BY <1>0, <2>1, <2>3, ConfigKept DEF LinkInv, NoWrite, phyVars
  <2>5. CopyInv'
    BY <1>3, <2>3 DEF LinkInv, CopyInv, Reading, phyVars
  <2>6. SoundInv'
    <3>1. "1000FD" \in Modes
      BY DEF Modes, GigaModes
    <3>2. CASE state = "LINK_DOWN"
      BY <2>3, <3>1, <3>2 DEF ReportInv, SoundInv, ReportedIsNegotiated, PausableAtGigabit
    <3>3. CASE ~Current
      BY <2>3, <3>3 DEF SoundInv, ReportedIsNegotiated, PausableAtGigabit
    <3>4. CASE state = "LINK_UP" /\ Current
      <4>1. ~GigabitRefused(adv, lp) /\ Report(MII_GetSelectedLinkProperties(adv, lp))
        BY <1>3, <3>4
      <4>2. /\ MII_GetSelectedLinkProperties(adv, lp) = wire
            /\ wire = "1000FD" => "PAUSE" \in partner
        <5>1. /\ LearntInv /\ WireInv /\ ConfigInv /\ CopyInv /\ Current /\ Queued = {}
              /\ adv = MII_GetAdvertisedLinkProperties /\ lp = MII_GetLinkPartnerLinkProperties
          BY <1>1, <2>3, <3>4 DEF LinkInv
        <5>2. /\ MII_GetSelectedLinkProperties(adv, lp) = wire
              /\ wire = "1000FD" /\ ~GigabitRefused(adv, lp) => "PAUSE" \in partner
          BY <1>0, <5>1, SelectedIsWire, Zenon
        <5> QED
          BY <4>1, <5>2
      <4>3. PHYDev_LinkState' = wire /\ EnetOnLinkStateChanged(wire)
        BY <4>1, <4>2 DEF Report
      <4>4. /\ mac'.half = (wire \in {"10HD", "100HD", "1000HD"})
            /\ (mac'.speed = 1000) = (wire \in GigaModes)
        <5>1. mac'.half = (wire \in {"10HD", "100HD", "1000HD"})
          BY <4>3 DEF EnetOnLinkStateChanged
        <5>2. ASSUME wire \in GigaModes PROVE mac'.speed = 1000
          BY <4>3, <5>2 DEF EnetOnLinkStateChanged, GigaModes
        <5>3. ASSUME wire \notin GigaModes PROVE mac'.speed \in {10, 100}
          BY <4>3, <5>3 DEF EnetOnLinkStateChanged
        <5>4. 1000 \notin {10, 100}
          OBVIOUS
        <5> QED
          BY <5>1, <5>2, <5>3, <5>4
      <4> QED
        BY <2>3, <4>2, <4>3, <4>4 DEF SoundInv, ReportedIsNegotiated, PausableAtGigabit, phyVars
    <3> QED
      BY <1>3, <3>2, <3>3, <3>4
  <2> QED
    BY <2>2, <2>4, <2>5, <2>6 DEF LinkInv
<1>4. \/ \E state : /\ NextState(state, c)
                    /\ \/ state = "LINK_DOWN"
                       \/ /\ state = "LINK_UP" /\ MIIRegs.S.up /\ ~GigabitRefused(adv, lp)
                          /\ Report(MII_GetSelectedLinkProperties(adv, lp))
      \/ GigabitRefused(adv, lp) /\ Reconfigure(LinkPropertiesToAdvertise \ {"1000FD"})
      \/ GigabitWanted(adv, lp) /\ Reconfigure(LinkPropertiesToAdvertise \cup {"1000FD"})
  BY <1>1 DEF LinkDownToUp
<1> QED
  BY <1>2, <1>3, <1>4

\* Every step keeps what the reported link rests on.
LEMMA LinkPreserved ==
  TensAlike /\ Negotiable => (TypeInv /\ QueueInv /\ ReportInv /\ LinkInv /\ [Next]_vars => LinkInv')
<1> SUFFICES ASSUME TensAlike, Negotiable, TypeInv, QueueInv, ReportInv, LinkInv, [Next]_vars
             PROVE  LinkInv'
  OBVIOUS
<1>1. ReportInv'
  BY ReportPreserved
<1>2. CASE MII_StateEngine
  BY <1>1, <1>2, NotInitializedPreserves, InitializedPreserves, DefaultCfgPreserves, LinkUpPreserves,
     LinkDownToUpPreserves, LinkDownPreserves DEF MII_StateEngine
<1>3. CASE FrameDone
  BY <1>3, ReadPreserves, WritePreserves, InitFramePreserves DEF FrameDone
<1>4. CASE Plug \/ Unplug \/ LinkComesUp
  BY <1>4, CablePreserves
<1>5. CASE UNCHANGED vars
  <2> USE <1>5 DEF vars, engineVars, mdioVars, phyVars
  <2>1. Queued' = Queued /\ (RestartLast(pending)' <=> RestartLast(pending))
    BY DEF Queued, Frames, RestartLast
  <2>2. (NoWrite(Queued)' <=> NoWrite(Queued)) /\ Common' = Common /\ (Current' <=> Current)
    BY <2>1 DEF NoWrite, Common, Current
  <2>3. LearntInv' /\ ShapeInv' /\ WireInv'
    BY <2>1, <2>2 DEF LinkInv, LearntInv, ShapeInv, WireInv, Early, Watching, Asked, Supports
  <2>4. ConfigInv'
    <3>1. \A v \in Values : OnTheirWay(v) => OnTheirWay(v)'
      BY <2>1 DEF OnTheirWay, Offers, Ext
    <3> QED
      BY <3>1 DEF LinkInv, ConfigInv, Configured
  <2>5. CopyInv' /\ SoundInv'
    BY <2>1, <2>2 DEF LinkInv, CopyInv, SoundInv, Reading, OwnRegs, PartnerRegs, Ext,
                      ReportedIsNegotiated, PausableAtGigabit
  <2> QED
    BY <2>3, <2>4, <2>5 DEF LinkInv
<1> QED
  BY <1>2, <1>3, <1>4, <1>5 DEF Next

\* It holds at the start, whatever the boot loader left.
LEMMA LinkInit == Init => LinkInv
<1> SUFFICES ASSUME Init PROVE LinkInv
  OBVIOUS
<1>1. /\ PHYDev_CurrentState = "NOT_INITIALIZED" /\ pending = <<>> /\ link = FALSE
      /\ LinkPropertiesToAdvertise = Requested /\ MIIRegs.S.up = FALSE
  BY DEF Init, NoStatus
<1>2. Queued = {}
  BY <1>1 DEF Queued, Frames
<1>3. LearntInv /\ ConfigInv
  BY <1>1 DEF LearntInv, ConfigInv, Early, Configured
<1>4. ShapeInv
  BY <1>1, <1>2 DEF ShapeInv, Watching, NoWrite, RestartLast
<1>5. WireInv /\ CopyInv /\ SoundInv
  BY <1>1 DEF WireInv, CopyInv, SoundInv, Current, Reading, ReportedIsNegotiated, PausableAtGigabit
<1> QED
  BY <1>3, <1>4, <1>5 DEF LinkInv

\* Whoever is plugged in and pulled between any two frames of a command, the
\* link the engine reports and sets the MAC up for is the one on the wire while
\* it lasts, and 1 Gb/s is never used with a partner that cannot be paused, as
\* long as the exchange of the two 10BASE-T bits makes no difference (TensAlike)
\* and 1 Gb/s is not forced without a negotiation (Negotiable).
THEOREM LinkSound == TensAlike /\ Negotiable /\ Spec => []LinkIsSound
<1>1. LinkInv => ReportedIsNegotiated /\ PausableAtGigabit
  BY DEF LinkInv, SoundInv
<1>2. TensAlike /\ Negotiable /\ Spec => [](TypeInv /\ QueueInv /\ ReportInv /\ LinkInv)
  <2>1. SUFFICES ASSUME TensAlike, Negotiable PROVE Spec => [](TypeInv /\ QueueInv /\ ReportInv /\ LinkInv)
    OBVIOUS
  <2>2. TypeInv /\ QueueInv /\ ReportInv /\ LinkInv /\ [Next]_vars => LinkInv'
    BY <2>1, LinkPreserved
  <2> QED
    BY <2>2, LinkInit, PhyInvariant, PTL DEF Spec
<1> QED
  BY <1>1, <1>2, TypeCorrect, PTL DEF LinkIsSound
=============================================================================
