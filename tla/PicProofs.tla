----------------------------- MODULE PicProofs -----------------------------
(***************************************************************************)
(* Theorems about the interrupt controllers of PicDevice, for any number   *)
(* of lines and any set of guest commands.                                 *)
(***************************************************************************)
EXTENDS PicDevice, PicChipProofs

LEMMA DeviceStep ==
    ASSUME TypeOK, [Next]_vars
    PROVE  TypeOK'
<1> USE DEF TypeOK
<1>0. \A c \in Chips : pic[c] \in ChipType /\ IsMaster(c) \in BOOLEAN
  BY DEF PairType, IsMaster
<1>1. ASSUME NEW c \in Chips, NEW ic4 \in Icw1Used[c], CommandWriteIcw1(c, ic4)
      PROVE  TypeOK'
  <2>1. ic4 \in BOOLEAN
    BY <1>1, BoundsAssumption
  <2> QED
    BY <1>0, <1>1, <2>1, Icw1Type, ReplaceChipType DEF CommandWriteIcw1
<1>2. ASSUME NEW c \in Chips, NEW command \in Ocw2Used[c], NEW line \in Lines,
             CommandWriteOcw2(c, command, line)
      PROVE  TypeOK'
  <2>1. command \in Ocw2Commands
    BY <1>2, BoundsAssumption
  <2> QED
    BY <1>0, <1>2, <2>1, Ocw2Type, ReplaceChipType DEF CommandWriteOcw2
<1>3. ASSUME NEW c \in Chips, NEW word \in Ocw3Used[c], CommandWriteOcw3(c, word)
      PROVE  TypeOK'
  <2>1. word \in Ocw3Words
    BY <1>3, BoundsAssumption
  <2> QED
    BY <1>0, <1>3, <2>1, Ocw3Type, ReplaceChipType DEF CommandWriteOcw3
<1>4. ASSUME NEW c \in Chips,
             NEW byte \in [base : VectorBases, mask : MasksUsed[c], aeoi : BOOLEAN, sfnm : BOOLEAN],
             DataWrite(c, byte)
      PROVE  TypeOK'
  <2>1. byte \in DataBytes
    BY <1>4, BoundsAssumption DEF DataBytes
  <2> QED
    BY <1>0, <1>4, <2>1, DataWriteType, ReplaceChipType DEF DataWrite
<1>5. ASSUME NEW c \in Chips, CommandRead(c)
      PROVE  TypeOK'
  BY <1>0, <1>5, CommandReadType, ReplaceChipType DEF CommandRead
<1>6. ASSUME NEW irq \in RaisedIrqs, HostStep(irq)
      PROVE  TypeOK'
  <2>1. irq \in Irqs
    BY <1>6, BoundsAssumption
  <2> QED
    BY <1>6, <2>1, RaiseType, AcknowledgePairType, AcknowledgeAutoEoiType, EndOfInterruptType
       DEF HostStep, Raise, Deliver, DeliverAutoEoi, EndOfInterrupt
<1>7. CASE Reset
  BY <1>7, ResetType DEF Reset
<1>8. CASE UNCHANGED vars
  BY <1>8 DEF vars
<1> QED
  BY <1>1, <1>2, <1>3, <1>4, <1>5, <1>6, <1>7, <1>8 DEF Next, GuestStep

(* Whatever a guest writes to ports 20h, 21h, A0h and A1h, in any order,   *)
(* the registers of both controllers stay in range.                        *)
THEOREM PicTypeCorrect == Spec => []TypeOK
<1>1. Init => TypeOK
  BY ResetType DEF Init, TypeOK
<1>2. TypeOK /\ [Next]_vars => TypeOK'
  BY DeviceStep
<1> QED
  BY <1>1, <1>2, PTL DEF Spec

(* For any number of lines, rotation, mask mode and nesting mode: a poll   *)
(* read (PicPollRead) offers a line exactly when some request is takeable, *)
(* and then the highest-priority takeable one.                             *)
THEOREM PicPollOffersHighest == Spec => []PollOffersHighest
<1>1. TypeOK => PollOffersHighest
  BY PollLineIsTopTakeable DEF TypeOK, PollOffersHighest, PairType, Takeable, IsMaster
<1> QED
  BY <1>1, PicTypeCorrect, PTL

-----------------------------------------------------------------------------
(* Fully nested mode.                                                      *)

(* A step that only removes lines from service, on every chip, satisfies   *)
(* EntryOutranks trivially; so does one that adds an open line.            *)
LEMMA EntryByOpenLine ==
    ASSUME TypeOK,
           \A c \in Chips : \A l \in pic'[c].Isr \ pic[c].Isr :
               l \in Lines /\ PicIsLineOpen(pic[c], l, IsMaster(c))
    PROVE  EntryOutranks
<1> SUFFICES ASSUME NEW c \in Chips, NEW l \in pic'[c].Isr \ pic[c].Isr,
                    ~ pic[c].IsSpecialMaskMode
             PROVE  \A o \in pic[c].Isr : PicRank(pic[c], l) < PicRank(pic[c], o)
  BY DEF EntryOutranks
<1>1. pic[c] \in ChipType /\ IsMaster(c) \in BOOLEAN
  BY DEF TypeOK, PairType, IsMaster
<1>2. l \in Lines /\ PicIsLineOpen(pic[c], l, IsMaster(c)) /\ l \notin pic[c].Isr
  OBVIOUS
<1> QED
  BY <1>1, <1>2, OpenOutranksInService

LEMMA HostStepEntry ==
    ASSUME TypeOK, NEW irq \in RaisedIrqs, HostStep(irq)
    PROVE  EntryOutranks
<1>1. irq \in Irqs /\ pic \in PairType
  BY BoundsAssumption DEF TypeOK
<1>2. LineOf(irq) \in Lines /\ CascadeLine \in Lines
  BY <1>1, LineOfType, LinesAssumption DEF Lines
<1>3. CASE Raise(irq)
  <2>1. \A c \in Chips : pic'[c].Isr = pic[c].Isr
    BY <1>1, <1>3 DEF Raise, VddPicRaise, PairType, ChipType
  <2> QED
    BY <2>1 DEF EntryOutranks
<1>4. CASE EndOfInterrupt(irq)
  <2>1. \A c \in Chips : pic'[c].Isr \subseteq pic[c].Isr
    BY <1>1, <1>4, EndOfInterruptIsr DEF EndOfInterrupt
  <2> QED
    BY <2>1 DEF EntryOutranks
<1>5. ASSUME VddPicCanDeliver(pic, irq),
             \A c \in Chips : pic'[c].Isr \subseteq VddPicAcknowledge(pic, irq)[c].Isr
      PROVE  EntryOutranks
  <2>1. /\ pic'["slave"].Isr \subseteq
                 pic["slave"].Isr \cup (IF ChipOf(irq) = "slave" THEN {LineOf(irq)} ELSE {})
        /\ pic'["master"].Isr \subseteq
                 pic["master"].Isr \cup {IF ChipOf(irq) = "slave" THEN CascadeLine ELSE LineOf(irq)}
    BY <1>1, <1>5, AcknowledgePairIsr DEF Chips
  <2>2. \A c \in Chips : \A l \in pic'[c].Isr \ pic[c].Isr :
            l \in Lines /\ PicIsLineOpen(pic[c], l, IsMaster(c))
    BY <1>2, <1>5, <2>1 DEF VddPicCanDeliver, ChipOf, Chips, IsMaster
  <2> QED
    BY <2>2, EntryByOpenLine
<1>6. CASE Deliver(irq)
  BY <1>1, <1>5, <1>6 DEF Deliver
<1>7. CASE DeliverAutoEoi(irq)
  <2>1. CASE ChipOf(irq) = "slave"
    <3>1. VddPicAcknowledge(pic, irq) \in PairType
      BY <1>1, AcknowledgePairType
    <3>2. \A c \in Chips : pic'[c].Isr \subseteq VddPicAcknowledge(pic, irq)[c].Isr
      BY <1>1, <1>7, <2>1, <3>1, EndOfInterruptIsr DEF DeliverAutoEoi, VddPicAcknowledgeAutoEoi
    <3> QED
      BY <1>1, <1>5, <1>7, <3>2 DEF DeliverAutoEoi
  <2>2. CASE ChipOf(irq) # "slave"
    <3>1. \A c \in Chips : pic'[c].Isr = pic[c].Isr
      BY <1>1, <1>7, <2>2 DEF DeliverAutoEoi, VddPicAcknowledgeAutoEoi, PairType, ChipType, Chips
    <3> QED
      BY <3>1 DEF EntryOutranks
  <2> QED
    BY <2>1, <2>2
<1> QED
  BY <1>3, <1>4, <1>6, <1>7 DEF HostStep

LEMMA GuestStepEntry ==
    ASSUME TypeOK, NEW c \in Chips, GuestStep(c)
    PROVE  EntryOutranks
<1>0. pic \in PairType /\ pic[c] \in ChipType /\ IsMaster(c) \in BOOLEAN
  BY DEF TypeOK, PairType, IsMaster
<1>1. ASSUME NEW chip, pic' = [pic EXCEPT ![c] = chip], chip.Isr \subseteq pic[c].Isr
      PROVE  EntryOutranks
  <2>1. \A d \in Chips : pic'[d].Isr \subseteq pic[d].Isr
    BY <1>0, <1>1 DEF PairType
  <2> QED
    BY <2>1 DEF EntryOutranks
<1>2. ASSUME NEW ic4, CommandWriteIcw1(c, ic4)
      PROVE  EntryOutranks
  <2>1. PicIcw1(pic[c], ic4).Isr \subseteq pic[c].Isr
    BY <1>0 DEF PicIcw1, ChipType
  <2> QED
    BY <1>1, <1>2, <2>1 DEF CommandWriteIcw1
<1>3. ASSUME NEW command, NEW line, CommandWriteOcw2(c, command, line)
      PROVE  EntryOutranks
  <2>1. \A l : PicEndLine(pic[c], l).Isr \subseteq pic[c].Isr /\ PicEndLine(pic[c], l) \in ChipType
    BY <1>0, EndLineIsr, EndLineType
  <2>2. \A l : [PicEndLine(pic[c], l) EXCEPT !.LowestPriority = l].Isr \subseteq pic[c].Isr
    BY <2>1 DEF ChipType
  <2>3. PicOcw2(pic[c], command, line).Isr \subseteq pic[c].Isr
    BY <1>0, <2>1, <2>2 DEF PicOcw2, ChipType
  <2> QED
    BY <1>1, <1>3, <2>3 DEF CommandWriteOcw2
<1>4. ASSUME NEW word, CommandWriteOcw3(c, word)
      PROVE  EntryOutranks
  <2>1. PicOcw3(pic[c], word).Isr \subseteq pic[c].Isr
    BY <1>0 DEF PicOcw3, ChipType
  <2> QED
    BY <1>1, <1>4, <2>1 DEF CommandWriteOcw3
<1>5. ASSUME NEW byte, DataWrite(c, byte)
      PROVE  EntryOutranks
  <2>1. PicDataWrite(pic[c], byte).Isr \subseteq pic[c].Isr
    BY <1>0 DEF PicDataWrite, ChipType, IcwSteps
  <2> QED
    BY <1>1, <1>5, <2>1 DEF DataWrite
<1>6. CASE CommandRead(c)
  <2> DEFINE unarmed == [pic[c] EXCEPT !.IsPollArmed = FALSE]
             line == PicPollLine(unarmed, IsMaster(c))
  <2>1. unarmed \in ChipType /\ unarmed.Isr = pic[c].Isr /\ unarmed.Irr \in SUBSET Lines
    BY <1>0 DEF ChipType
  <2>2. \A l : PicIsLineOpen(unarmed, l, IsMaster(c)) => PicIsLineOpen(pic[c], l, IsMaster(c))
    BY <1>0 DEF PicIsLineOpen, PicBlockers, PicRank, ChipType
  <2>3. line # NoLine => line \in Lines /\ PicIsLineOpen(pic[c], line, IsMaster(c))
    BY <1>0, <2>1, <2>2, PollLineIsTopTakeable
  <2>4. PicPollRead(unarmed, IsMaster(c)).Isr \subseteq
            pic[c].Isr \cup (IF line = NoLine THEN {} ELSE {line})
    <3>1. CASE line = NoLine
      BY <2>1, <3>1 DEF PicPollRead
    <3>2. CASE line # NoLine
      <4> HIDE DEF unarmed
      <4> QED BY <2>1, <2>3, <3>2, AckedIsr DEF PicPollRead
    <3> QED
      BY <3>1, <3>2
  <2>5. pic'[c].Isr \subseteq pic[c].Isr \cup (IF line = NoLine THEN {} ELSE {line})
    BY <1>0, <1>6, <2>4 DEF CommandRead, PicCommandRead, PairType
  <2>6. \A d \in Chips \ {c} : pic'[d].Isr = pic[d].Isr
    BY <1>0, <1>6 DEF CommandRead, PairType
  <2> HIDE DEF line
  <2>7. \A d \in Chips : \A l \in pic'[d].Isr \ pic[d].Isr :
            l \in Lines /\ PicIsLineOpen(pic[d], l, IsMaster(d))
    BY <2>3, <2>5, <2>6
  <2> QED
    BY <2>7, EntryByOpenLine
<1> QED
  BY <1>2, <1>3, <1>4, <1>5, <1>6 DEF GuestStep

(* For any number of lines and any guest: outside special mask mode no     *)
(* line ever enters service over one of the same or a higher priority.     *)
THEOREM PicNestingRespected == Spec => NestingRespected
<1>1. TypeOK /\ [Next]_vars => [EntryOutranks]_vars
  <2> SUFFICES ASSUME TypeOK, Next
               PROVE  EntryOutranks
    BY DEF vars
  <2>1. CASE Reset
    <3>1. \A c \in Chips : pic'[c].Isr = {}
      BY <2>1 DEF Reset, VddPicReset, PicChipReset
    <3> QED
      BY <3>1 DEF EntryOutranks
  <2> QED
    BY <2>1, GuestStepEntry, HostStepEntry DEF Next
<1> QED
  BY <1>1, PicTypeCorrect, PTL DEF Spec, NestingRespected
-----------------------------------------------------------------------------
(* The cascade.                                                            *)

LockedOut ==
    /\ CascadeLine \in pic["master"].Isr
    /\ ~ pic["master"].IsSpecialFullyNested
    /\ ~ pic["master"].IsSpecialMaskMode
    /\ ~ pic["slave"].IsPollArmed

(* Its own line in service blocks the slave's request at the master.       *)
LEMMA CascadeBlocked ==
    ASSUME TypeOK, LockedOut
    PROVE  ~ PicIsLineOpen(pic["master"], CascadeLine, TRUE)
<1>1. pic["master"] \in ChipType /\ CascadeLine \in Lines
  BY LinesAssumption DEF TypeOK, PairType, Chips, Lines
<1>2. PicRank(pic["master"], CascadeLine) <= PicRank(pic["master"], CascadeLine)
  BY <1>1, RankRange, LinesAssumption DEF Lines
<1> QED
  BY <1>1, <1>2 DEF LockedOut, PicIsLineOpen, PicBlockers

LEMMA GuestStepLocked ==
    ASSUME TypeOK, NEW c \in Chips, GuestStep(c), LockedOut
    PROVE  pic'["slave"].Isr \subseteq pic["slave"].Isr
<1> DEFINE s == pic["slave"]
<1>0. pic \in PairType /\ s \in ChipType
  BY DEF TypeOK, PairType, Chips
<1>1. CASE c = "master"
  <2>1. pic'["slave"] = s
    BY <1>0, <1>1 DEF GuestStep, CommandWriteIcw1, CommandWriteOcw2, CommandWriteOcw3, DataWrite,
                      CommandRead, PairType, Chips
  <2> QED
    BY <2>1
<1>2. CASE c = "slave"
  <2>1. \A l : PicEndLine(s, l).Isr \subseteq s.Isr /\ PicEndLine(s, l) \in ChipType
    BY <1>0, EndLineIsr, EndLineType
  <2>2. \A command, line : PicOcw2(s, command, line).Isr \subseteq s.Isr
    BY <1>0, <2>1 DEF PicOcw2, ChipType
  <2>3. \A ic4 : PicIcw1(s, ic4).Isr \subseteq s.Isr
    BY <1>0 DEF PicIcw1, ChipType
  <2>4. \A word : PicOcw3(s, word).Isr \subseteq s.Isr
    BY <1>0 DEF PicOcw3, ChipType
  <2>5. \A byte : PicDataWrite(s, byte).Isr \subseteq s.Isr
    BY <1>0 DEF PicDataWrite, ChipType, IcwSteps
  <2>6. \A isMaster : PicCommandRead(s, isMaster) = s
    BY DEF PicCommandRead, LockedOut
  <2> HIDE DEF s
  <2>7. \/ \E ic4 : pic'["slave"] = PicIcw1(s, ic4)
        \/ \E command, line : pic'["slave"] = PicOcw2(s, command, line)
        \/ \E word : pic'["slave"] = PicOcw3(s, word)
        \/ \E byte : pic'["slave"] = PicDataWrite(s, byte)
        \/ pic'["slave"] = PicCommandRead(s, IsMaster(c))
    BY <1>0, <1>2 DEF s, GuestStep, CommandWriteIcw1, CommandWriteOcw2, CommandWriteOcw3, DataWrite,
                      CommandRead, PairType, Chips
  <2>8. pic'["slave"].Isr \subseteq s.Isr
    BY <2>2, <2>3, <2>4, <2>5, <2>6, <2>7
  <2> QED
    BY <2>8 DEF s
<1> QED
  BY <1>1, <1>2 DEF Chips

LEMMA HostStepLocked ==
    ASSUME TypeOK, NEW irq \in RaisedIrqs, HostStep(irq), LockedOut
    PROVE  pic'["slave"].Isr \subseteq pic["slave"].Isr
<1>1. irq \in Irqs /\ pic \in PairType
  BY BoundsAssumption DEF TypeOK
<1>2. CASE Raise(irq)
  BY <1>1, <1>2 DEF Raise, VddPicRaise, PairType, ChipType, Chips
<1>3. CASE EndOfInterrupt(irq)
  BY <1>1, <1>3, EndOfInterruptIsr DEF EndOfInterrupt, Chips
<1>4. VddPicCanDeliver(pic, irq) => ChipOf(irq) = "master"
  BY CascadeBlocked DEF VddPicCanDeliver, ChipOf
<1>5. CASE Deliver(irq)
  <2>1. ChipOf(irq) = "master"
    BY <1>4, <1>5 DEF Deliver
  <2> QED
    BY <1>1, <1>5, <2>1 DEF Deliver, VddPicAcknowledge, PairType, Chips
<1>6. CASE DeliverAutoEoi(irq)
  <2>1. ChipOf(irq) = "master"
    BY <1>4, <1>6 DEF DeliverAutoEoi
  <2> QED
    BY <1>1, <1>6, <2>1 DEF DeliverAutoEoi, VddPicAcknowledgeAutoEoi, PairType, Chips
<1> QED
  BY <1>2, <1>3, <1>5, <1>6 DEF HostStep

(* For any guest: while the master holds the cascade line in service,      *)
(* outside special fully nested and special mask mode, no delivery puts a  *)
(* second slave line in service; only a poll of the slave can.             *)
THEOREM PicSlaveLockedOut == Spec => SlaveLockedOut
<1> DEFINE A == LockedOut => pic'["slave"].Isr \subseteq pic["slave"].Isr
<1>1. TypeOK /\ [Next]_vars => [A]_vars
  <2> SUFFICES ASSUME TypeOK, Next, LockedOut
               PROVE  pic'["slave"].Isr \subseteq pic["slave"].Isr
    BY DEF vars
  <2>1. CASE Reset
    BY <2>1 DEF Reset, VddPicReset, PicChipReset, Chips
  <2> QED
    BY <2>1, GuestStepLocked, HostStepLocked DEF Next
<1>2. [A]_vars <=> [/\ CascadeLine \in pic["master"].Isr
                   /\ ~ pic["master"].IsSpecialFullyNested
                   /\ ~ pic["master"].IsSpecialMaskMode
                   /\ ~ pic["slave"].IsPollArmed
                   => pic'["slave"].Isr \subseteq pic["slave"].Isr]_vars
  BY DEF LockedOut
<1> QED
  BY <1>1, <1>2, PicTypeCorrect, PTL DEF Spec, SlaveLockedOut
=============================================================================
