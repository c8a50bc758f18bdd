--------------------------- MODULE PicChipProofs ---------------------------
(***************************************************************************)
(* Lemmas about the routines of PicChip, for any number of lines: what the *)
(* priority resolver finds, that every routine keeps the registers in      *)
(* range, and which lines a routine can put in service.                    *)
(***************************************************************************)
EXTENDS PicChip, SetFacts

(* Every rank is one of 0 .. LinesPerChip - 1: the closed form of          *)
(* PicRank's "& PIC_LINE_MASK".                                            *)
LEMMA RankRange ==
    ASSUME NEW chip \in ChipType, NEW line \in Lines
    PROVE  PicRank(chip, line) \in Lines
<1>1. chip.LowestPriority \in Lines
  BY DEF ChipType
<1> QED
  BY <1>1, LinesAssumption DEF PicRank, Lines

(* PicTopLine's scan in rank order finds a line of the mask that outranks  *)
(* every other one.                                                        *)
LEMMA TopLineOutranks ==
    ASSUME NEW chip \in ChipType, NEW mask \in SUBSET Lines, mask # {}
    PROVE  /\ PicTopLine(chip, mask) \in mask
           /\ \A o \in mask : PicRank(chip, PicTopLine(chip, mask)) <= PicRank(chip, o)
<1> DEFINE T == {PicRank(chip, l) : l \in mask}
<1>1. T \in SUBSET Nat /\ T # {}
  <2>1. Lines \subseteq Nat
    BY LinesAssumption DEF Lines
  <2>2. \A l \in mask : PicRank(chip, l) \in Nat
    BY <2>1, RankRange
  <2>3. T # {}
    BY Zenon
  <2> QED
    BY <2>2, <2>3
<1>2. PICK r \in T : \A q \in T : r <= q
  BY <1>1, LeastNatural
<1>3. \E l \in mask : \A o \in mask : PicRank(chip, l) <= PicRank(chip, o)
  BY <1>2
<1> QED
  BY <1>3 DEF PicTopLine

(* PicPollRead's comment, for one chip in any state: looking only at the   *)
(* highest-priority unmasked request loses nothing.                        *)
LEMMA PollLineIsTopTakeable ==
    ASSUME NEW chip \in ChipType, NEW isMaster \in BOOLEAN
    PROVE  LET open == {l \in chip.Irr : PicIsLineOpen(chip, l, isMaster)}
               line == PicPollLine(chip, isMaster)
           IN  /\ line = NoLine <=> open = {}
               /\ line # NoLine => /\ line \in open
                                   /\ \A o \in open : PicRank(chip, line) <= PicRank(chip, o)
<1> DEFINE open == {l \in chip.Irr : PicIsLineOpen(chip, l, isMaster)}
           ready == chip.Irr \ chip.Imr
           top == PicTopLine(chip, ready)
<1>1. ready \in SUBSET Lines /\ open \subseteq ready /\ NoLine \notin Lines
  BY LinesAssumption DEF ChipType, PicIsLineOpen, NoLine, Lines
<1>2. CASE ready = {}
  BY <1>1, <1>2 DEF PicPollLine, PicTopLine
<1>3. CASE ready # {}
  <2>1. top \in ready /\ \A o \in ready : PicRank(chip, top) <= PicRank(chip, o)
    BY <1>1, <1>3, TopLineOutranks
  <2>2. CASE PicIsLineOpen(chip, top, isMaster)
    BY <1>1, <2>1, <2>2 DEF PicPollLine
  <2>3. CASE ~ PicIsLineOpen(chip, top, isMaster)
    <3>1. PICK b \in PicBlockers(chip, top, isMaster) : TRUE
      BY <2>1, <2>3 DEF PicIsLineOpen
    <3>2. b \in Lines /\ PicRank(chip, b) <= PicRank(chip, top)
      BY <3>1 DEF PicBlockers, ChipType
    <3>3. ASSUME NEW l \in open
          PROVE  FALSE
      <4>1. l \in Lines /\ top \in Lines /\ PicRank(chip, top) <= PicRank(chip, l)
        BY <1>1, <2>1, <3>3
      <4>2. PicRank(chip, b) <= PicRank(chip, l)
        BY <3>2, <4>1, RankRange, LinesAssumption DEF Lines
      <4>3. l # top
        BY <2>3, <3>3
      <4>4. PicRank(chip, l) # PicRank(chip, top)
        BY <4>1, <4>3, LinesAssumption DEF PicRank, Lines, ChipType
      <4>5. b # l
        BY <3>2, <4>1, <4>4, RankRange, LinesAssumption DEF Lines
      <4>6. b \in PicBlockers(chip, l, isMaster)
        BY <3>1, <4>2, <4>5 DEF PicBlockers
      <4> QED
        BY <3>3, <4>6 DEF PicIsLineOpen
    <3> QED
      BY <2>3, <3>3 DEF PicPollLine
  <2> QED
    BY <2>2, <2>3
<1> QED
  BY <1>2, <1>3

-----------------------------------------------------------------------------
(* Every routine keeps a chip's registers in range.                        *)

LEMMA TopLineType ==
    ASSUME NEW chip \in ChipType, NEW mask \in SUBSET Lines
    PROVE  PicTopLine(chip, mask) \in mask \cup {NoLine}
<1>1. CASE mask = {}
  BY <1>1 DEF PicTopLine
<1>2. CASE mask # {}
  BY <1>2, TopLineOutranks
<1> QED
  BY <1>1, <1>2

LEMMA EndLineType ==
    ASSUME NEW chip \in ChipType, NEW line
    PROVE  PicEndLine(chip, line) \in ChipType
  BY DEF PicEndLine, ChipType

LEMMA AcknowledgeType ==
    ASSUME NEW chip \in ChipType, NEW line \in Lines
    PROVE  PicInterruptAcknowledge(chip, line) \in ChipType
  BY DEF PicInterruptAcknowledge, ChipType

(* Clearing the request and acknowledging it, the pair of updates a poll   *)
(* and a delivery share.                                                   *)
LEMMA AckedType ==
    ASSUME NEW chip \in ChipType, NEW line \in Lines
    PROVE  PicInterruptAcknowledge([chip EXCEPT !.Irr = @ \ {line}], line) \in ChipType
<1>1. [chip EXCEPT !.Irr = @ \ {line}] \in ChipType
  BY DEF ChipType
<1> QED
  BY <1>1, AcknowledgeType

LEMMA Icw1Type ==
    ASSUME NEW chip \in ChipType, NEW ic4 \in BOOLEAN
    PROVE  PicIcw1(chip, ic4) \in ChipType
<1>1. FixedLowest \in Lines
  BY LinesAssumption DEF FixedLowest, Lines
<1>2. /\ (ic4 /\ chip.IsAutoEoi) \in BOOLEAN
      /\ (ic4 /\ chip.IsSpecialFullyNested) \in BOOLEAN
  BY Zenon
<1> QED
  BY <1>1, <1>2 DEF PicIcw1, ChipType, IcwSteps

LEMMA Ocw3Type ==
    ASSUME NEW chip \in ChipType, NEW word \in Ocw3Words
    PROVE  PicOcw3(chip, word) \in ChipType
<1>1. /\ (IF word.select = "keep" THEN chip.IsIsrSelected ELSE word.select = "isr") \in BOOLEAN
      /\ (IF word.smm = "keep" THEN chip.IsSpecialMaskMode ELSE word.smm = "set") \in BOOLEAN
      /\ (chip.IsPollArmed \/ word.poll) \in BOOLEAN
  BY DEF ChipType
<1>2. ASSUME NEW i \in BOOLEAN, NEW s \in BOOLEAN, NEW p \in BOOLEAN
      PROVE  [chip EXCEPT !.IsIsrSelected = i, !.IsSpecialMaskMode = s, !.IsPollArmed = p] \in ChipType
  BY <1>2 DEF ChipType
<1> QED
  BY <1>1, <1>2, Zenon DEF PicOcw3

LEMMA Ocw2Type ==
    ASSUME NEW chip \in ChipType, NEW command \in Ocw2Commands, NEW line \in Lines
    PROVE  PicOcw2(chip, command, line) \in ChipType
<1> DEFINE top == PicTopLine(chip, chip.Isr)
<1>1. top = NoLine \/ top \in Lines
  BY TopLineType DEF ChipType
<1>2. \A l : PicEndLine(chip, l) \in ChipType
  BY EndLineType
<1>3. \A l \in Lines : [PicEndLine(chip, l) EXCEPT !.LowestPriority = l] \in ChipType
  BY <1>2 DEF ChipType
<1>4. /\ [chip EXCEPT !.LowestPriority = line] \in ChipType
      /\ [chip EXCEPT !.IsRotateInAutoEoi = TRUE] \in ChipType
      /\ [chip EXCEPT !.IsRotateInAutoEoi = FALSE] \in ChipType
  BY DEF ChipType
<1> QED
  BY <1>1, <1>2, <1>3, <1>4 DEF PicOcw2, Ocw2Commands

LEMMA DataWriteType ==
    ASSUME NEW chip \in ChipType, NEW byte \in DataBytes
    PROVE  PicDataWrite(chip, byte) \in ChipType
  BY DEF PicDataWrite, ChipType, DataBytes, IcwSteps

LEMMA CommandReadType ==
    ASSUME NEW chip \in ChipType, NEW isMaster \in BOOLEAN
    PROVE  PicCommandRead(chip, isMaster) \in ChipType
<1> DEFINE unarmed == [chip EXCEPT !.IsPollArmed = FALSE]
           line == PicPollLine(unarmed, isMaster)
<1>1. unarmed \in ChipType
  BY DEF ChipType
<1>2. line = NoLine \/ line \in Lines
  <2>1. unarmed.Irr \ unarmed.Imr \in SUBSET Lines
    BY <1>1 DEF ChipType
  <2>2. PicTopLine(unarmed, unarmed.Irr \ unarmed.Imr) \in Lines \cup {NoLine}
    BY <1>1, <2>1, TopLineType
  <2> QED
    BY <2>2 DEF PicPollLine
<1>3. PicPollRead(unarmed, isMaster) \in ChipType
  BY <1>1, <1>2, AckedType DEF PicPollRead
<1> QED
  BY <1>3 DEF PicCommandRead

-----------------------------------------------------------------------------
(* The pair.                                                               *)

LEMMA LineOfType ==
    ASSUME NEW irq \in Irqs
    PROVE  LineOf(irq) \in Lines /\ ChipOf(irq) \in Chips
  BY LinesAssumption DEF LineOf, ChipOf, Chips, Irqs, Lines

LEMMA ReplaceChipType ==
    ASSUME NEW pair \in PairType, NEW c \in Chips, NEW chip \in ChipType
    PROVE  [pair EXCEPT ![c] = chip] \in PairType
  BY DEF PairType

LEMMA RaiseType ==
    ASSUME NEW pair \in PairType, NEW irq \in Irqs
    PROVE  VddPicRaise(pair, irq) \in PairType
<1> DEFINE c == ChipOf(irq)
           raised == [pair[c] EXCEPT !.Irr = @ \cup {LineOf(irq)}]
<1>1. pair[c] \in ChipType /\ c \in Chips
  BY LineOfType DEF PairType
<1>2. raised \in ChipType
  BY <1>1, LineOfType DEF ChipType
<1>3. VddPicRaise(pair, irq) = [pair EXCEPT ![c] = raised]
  BY DEF VddPicRaise
<1> QED
  BY <1>1, <1>2, <1>3, ReplaceChipType

LEMMA AcknowledgePairType ==
    ASSUME NEW pair \in PairType, NEW irq \in Irqs
    PROVE  VddPicAcknowledge(pair, irq) \in PairType
<1> DEFINE acked(c) == PicInterruptAcknowledge([pair[c] EXCEPT !.Irr = @ \ {LineOf(irq)}], LineOf(irq))
           cascade == PicInterruptAcknowledge(pair["master"], CascadeLine)
<1>1. \A c \in Chips : pair[c] \in ChipType
  BY DEF PairType
<1>2. \A c \in Chips : acked(c) \in ChipType
  BY <1>1, LineOfType, AckedType
<1>3. cascade \in ChipType
  BY <1>1, AcknowledgeType, LinesAssumption DEF Chips, Lines
<1>4. VddPicAcknowledge(pair, irq) =
        IF ChipOf(irq) = "master" THEN [pair EXCEPT !["master"] = acked("master")]
        ELSE [pair EXCEPT !["slave"] = acked("slave"), !["master"] = cascade]
  BY DEF VddPicAcknowledge, PairType, Chips
<1> HIDE DEF acked, cascade
<1> QED
  BY <1>2, <1>3, <1>4 DEF PairType, Chips

LEMMA EndOfInterruptType ==
    ASSUME NEW pair \in PairType, NEW irq
    PROVE  VddPicEndOfInterrupt(pair, irq) \in PairType
<1>1. \A c \in Chips : \A l : PicEndLine(pair[c], l) \in ChipType
  BY EndLineType DEF PairType
<1>2. pair["master"] \in ChipType
  BY DEF PairType, Chips
<1> QED
  BY <1>1, <1>2 DEF VddPicEndOfInterrupt, PairType, Chips

LEMMA AcknowledgeAutoEoiType ==
    ASSUME NEW pair \in PairType, NEW irq \in Irqs
    PROVE  VddPicAcknowledgeAutoEoi(pair, irq) \in PairType
<1>1. CASE ChipOf(irq) = "slave"
  BY <1>1, AcknowledgePairType, EndOfInterruptType DEF VddPicAcknowledgeAutoEoi
<1>2. CASE ChipOf(irq) # "slave"
  <2> DEFINE m == pair["master"]
             low == IF m.IsAutoEoi /\ m.IsRotateInAutoEoi THEN irq ELSE m.LowestPriority
             chip == [m EXCEPT !.Irr = @ \ {irq}, !.LowestPriority = low]
  <2>1. m \in ChipType /\ "master" \in Chips
    BY DEF PairType, Chips
  <2>2. irq \in Lines
    BY <1>2, LinesAssumption DEF ChipOf, Irqs, Lines
  <2>3. low \in Lines
    BY <2>1, <2>2 DEF ChipType
  <2>4. chip \in ChipType
    <3> HIDE DEF low
    <3> QED BY <2>1, <2>3 DEF ChipType
  <2>5. VddPicAcknowledgeAutoEoi(pair, irq) = [pair EXCEPT !["master"] = chip]
    BY <1>2, <2>1 DEF VddPicAcknowledgeAutoEoi, PairType, ChipType
  <2> HIDE DEF chip
  <2> QED
    BY <2>1, <2>4, <2>5, ReplaceChipType
<1> QED
  BY <1>1, <1>2

LEMMA ResetType == VddPicReset \in PairType
<1>1. \A base \in VectorBases : PicChipReset(base) \in ChipType
  BY LinesAssumption DEF PicChipReset, ChipType, FixedLowest, Lines, IcwSteps
<1>2. PicChipReset(8) \in ChipType /\ PicChipReset(112) \in ChipType
  BY <1>1, VectorAssumption
<1>3. [PicChipReset(8) EXCEPT !.Imr = Lines \ {0, 1}] \in ChipType
  BY <1>2 DEF ChipType
<1> QED
  BY <1>2, <1>3 DEF VddPicReset, PairType

-----------------------------------------------------------------------------
(* Which lines are in service.                                             *)

(* What PicIsLineOpen grants: a line not yet in service outranks all that  *)
(* is in service.                                                          *)
LEMMA OpenOutranksInService ==
    ASSUME NEW chip \in ChipType, NEW line \in Lines, NEW isMaster \in BOOLEAN,
           PicIsLineOpen(chip, line, isMaster), ~ chip.IsSpecialMaskMode,
           line \notin chip.Isr
    PROVE  \A o \in chip.Isr : PicRank(chip, line) < PicRank(chip, o)
<1> SUFFICES ASSUME NEW o \in chip.Isr
             PROVE  PicRank(chip, line) < PicRank(chip, o)
  OBVIOUS
<1>1. ~ (PicRank(chip, o) <= PicRank(chip, line))
  BY DEF PicIsLineOpen, PicBlockers
<1>2. PicRank(chip, o) \in Int /\ PicRank(chip, line) \in Int
  BY RankRange, LinesAssumption DEF ChipType, Lines
<1> QED
  BY <1>1, <1>2

(* The lines a host operation or a poll can put in service.                *)
LEMMA AcknowledgeIsr ==
    ASSUME NEW chip \in ChipType, NEW line \in Lines
    PROVE  PicInterruptAcknowledge(chip, line).Isr \subseteq chip.Isr \cup {line}
  BY DEF PicInterruptAcknowledge, ChipType

LEMMA AckedIsr ==
    ASSUME NEW chip \in ChipType, NEW line \in Lines
    PROVE  PicInterruptAcknowledge([chip EXCEPT !.Irr = @ \ {line}], line).Isr
              \subseteq chip.Isr \cup {line}
<1> DEFINE cleared == [chip EXCEPT !.Irr = @ \ {line}]
<1>1. cleared \in ChipType /\ cleared.Isr = chip.Isr
  BY DEF ChipType
<1> HIDE DEF cleared
<1>2. PicInterruptAcknowledge(cleared, line).Isr \subseteq chip.Isr \cup {line}
  BY <1>1, AcknowledgeIsr
<1> QED
  BY <1>2 DEF cleared

LEMMA EndLineIsr ==
    ASSUME NEW chip \in ChipType, NEW line
    PROVE  PicEndLine(chip, line).Isr \subseteq chip.Isr
  BY DEF PicEndLine, ChipType

LEMMA AcknowledgePairIsr ==
    ASSUME NEW pair \in PairType, NEW irq \in Irqs
    PROVE  /\ VddPicAcknowledge(pair, irq)["slave"].Isr \subseteq
                 pair["slave"].Isr \cup (IF ChipOf(irq) = "slave" THEN {LineOf(irq)} ELSE {})
           /\ VddPicAcknowledge(pair, irq)["master"].Isr \subseteq
                 pair["master"].Isr \cup {IF ChipOf(irq) = "slave" THEN CascadeLine ELSE LineOf(irq)}
<1> DEFINE acked(c) == PicInterruptAcknowledge([pair[c] EXCEPT !.Irr = @ \ {LineOf(irq)}], LineOf(irq))
           cascade == PicInterruptAcknowledge(pair["master"], CascadeLine)
<1>1. "master" \in Chips /\ "slave" \in Chips /\ (ChipOf(irq) = "master" \/ ChipOf(irq) = "slave")
  BY DEF Chips, ChipOf
<1>2. \A c \in Chips : pair[c] \in ChipType
  BY DEF PairType
<1>3. \A c \in Chips : acked(c).Isr \subseteq pair[c].Isr \cup {LineOf(irq)}
  BY <1>2, LineOfType, AckedIsr
<1>4. cascade.Isr \subseteq pair["master"].Isr \cup {CascadeLine}
  BY <1>1, <1>2, AcknowledgeIsr, LinesAssumption DEF Lines
<1>5. VddPicAcknowledge(pair, irq) =
        IF ChipOf(irq) = "master" THEN [pair EXCEPT !["master"] = acked("master")]
        ELSE [pair EXCEPT !["slave"] = acked("slave"), !["master"] = cascade]
  BY DEF VddPicAcknowledge, PairType, Chips
<1> HIDE DEF acked, cascade
<1> QED
  BY <1>1, <1>3, <1>4, <1>5 DEF PairType

LEMMA EndOfInterruptIsr ==
    ASSUME NEW pair \in PairType, NEW irq \in Irqs
    PROVE  \A c \in Chips : VddPicEndOfInterrupt(pair, irq)[c].Isr \subseteq pair[c].Isr
<1>1. \A c \in Chips : \A l : PicEndLine(pair[c], l).Isr \subseteq pair[c].Isr
  BY EndLineIsr DEF PairType
<1> QED
  BY <1>1 DEF VddPicEndOfInterrupt, PairType, Chips

(* The same, exactly, for a line of a master that is not in auto-EOI mode. *)
LEMMA MasterLine ==
    ASSUME NEW pair \in PairType, NEW irq \in Lines, ~ pair["master"].IsAutoEoi
    PROVE  /\ VddPicRaise(pair, irq)["master"].Isr = pair["master"].Isr
           /\ ~ VddPicRaise(pair, irq)["master"].IsAutoEoi
           /\ VddPicAcknowledge(pair, irq)["master"].Isr = pair["master"].Isr \cup {irq}
           /\ ~ VddPicAcknowledge(pair, irq)["master"].IsAutoEoi
           /\ VddPicEndOfInterrupt(pair, irq)["master"].Isr = pair["master"].Isr \ {irq}
           /\ ~ VddPicEndOfInterrupt(pair, irq)["master"].IsAutoEoi
           /\ VddPicAcknowledgeAutoEoi(pair, irq)["master"].Isr = pair["master"].Isr
           /\ ~ VddPicAcknowledgeAutoEoi(pair, irq)["master"].IsAutoEoi
<1> DEFINE m == pair["master"]
           cleared == [m EXCEPT !.Irr = @ \ {irq}]
<1>0. /\ m \in ChipType /\ "master" \in Chips /\ ChipOf(irq) = "master" /\ LineOf(irq) = irq
      /\ ChipOf(irq) # "slave" /\ DOMAIN pair = Chips
  BY LinesAssumption DEF PairType, Chips, ChipOf, LineOf, Lines
<1>1. cleared \in ChipType /\ cleared.Isr = m.Isr /\ ~ cleared.IsAutoEoi
  BY <1>0 DEF ChipType
<1>2. VddPicRaise(pair, irq)["master"] = [m EXCEPT !.Irr = @ \cup {irq}]
  BY <1>0 DEF VddPicRaise
<1>3. VddPicAcknowledge(pair, irq)["master"] = [cleared EXCEPT !.Isr = @ \cup {irq}]
  <2>1. VddPicAcknowledge(pair, irq)["master"] = PicInterruptAcknowledge(cleared, irq)
    BY <1>0 DEF VddPicAcknowledge
  <2> HIDE DEF cleared
  <2> QED
    BY <1>1, <2>1 DEF PicInterruptAcknowledge
<1>4. VddPicEndOfInterrupt(pair, irq)["master"] = [m EXCEPT !.Isr = @ \ {irq}]
  BY <1>0 DEF VddPicEndOfInterrupt, PicEndLine
<1>5. /\ VddPicAcknowledgeAutoEoi(pair, irq)["master"].Isr = m.Isr
      /\ VddPicAcknowledgeAutoEoi(pair, irq)["master"].IsAutoEoi = m.IsAutoEoi
  BY <1>0 DEF VddPicAcknowledgeAutoEoi, ChipType
<1> HIDE DEF cleared
<1>6. /\ VddPicRaise(pair, irq)["master"].Isr = m.Isr
      /\ ~ VddPicRaise(pair, irq)["master"].IsAutoEoi
  BY <1>0, <1>2 DEF ChipType
<1>7. /\ VddPicAcknowledge(pair, irq)["master"].Isr = m.Isr \cup {irq}
      /\ ~ VddPicAcknowledge(pair, irq)["master"].IsAutoEoi
  BY <1>1, <1>3 DEF ChipType
<1>8. /\ VddPicEndOfInterrupt(pair, irq)["master"].Isr = m.Isr \ {irq}
      /\ ~ VddPicEndOfInterrupt(pair, irq)["master"].IsAutoEoi
  BY <1>0, <1>4 DEF ChipType
<1> QED
  BY <1>5, <1>6, <1>7, <1>8

=============================================================================
