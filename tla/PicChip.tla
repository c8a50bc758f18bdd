------------------------------ MODULE PicChip ------------------------------
(***************************************************************************)
(* One 8259A interrupt controller and the cascaded pair a PC has, as       *)
(* vdd_pic.c implements them.  This module has no variables: a chip is a   *)
(* record and every routine of vdd_pic.c is an operator from the old chip  *)
(* (or pair) to the new one.  The byte-wide registers IMR, IRR and ISR are *)
(* sets of lines.                                                          *)
(***************************************************************************)
EXTENDS Integers, FiniteSets

CONSTANTS
    LinesPerChip,   \* PIC_LINES_PER_CHIP: 8 on the real part
    CascadeLine,    \* PIC_CASCADE_LINE: the master input that carries the slave
    VectorBases     \* the ICW2 bytes a guest may program

ASSUME LinesAssumption ==
    /\ LinesPerChip \in Nat \ {0, 1}
    /\ CascadeLine \in 0 .. LinesPerChip - 1

ASSUME VectorAssumption == VectorBases \subseteq 0 .. 255 /\ {8, 112} \subseteq VectorBases

Lines == 0 .. LinesPerChip - 1

NoLine == -1

FixedLowest == LinesPerChip - 1

(* The steps of an initialisation sequence (PIC_ICW_...). *)
IcwSteps == {"running", "expectIcw2", "expectIcw3", "expectIcw4"}

ChipType ==
    [Imr : SUBSET Lines, Irr : SUBSET Lines, Isr : SUBSET Lines,
     VectorBase : VectorBases, IcwStep : IcwSteps,
     IsIcw4Needed : BOOLEAN, IsIsrSelected : BOOLEAN, IsAutoEoi : BOOLEAN,
     IsPollArmed : BOOLEAN, LowestPriority : Lines,
     IsRotateInAutoEoi : BOOLEAN, IsSpecialMaskMode : BOOLEAN,
     IsSpecialFullyNested : BOOLEAN]

-----------------------------------------------------------------------------
(* The priority resolver.                                                  *)

(* (line - LowestPriority - 1) modulo the number of lines: rank 0 is the   *)
(* highest priority.                                                       *)
PicRank(chip, line) ==
    IF line > chip.LowestPriority
      THEN line - chip.LowestPriority - 1
      ELSE line - chip.LowestPriority - 1 + LinesPerChip

(* Seeded fault: the order before rotation existed, lowest line first.     *)
PicTopLine_NoRotation(chip, mask) ==
    IF mask = {} THEN NoLine ELSE CHOOSE l \in mask : \A o \in mask : l <= o

PicTopLine(chip, mask) ==
    IF mask = {} THEN NoLine
    ELSE CHOOSE l \in mask : \A o \in mask : PicRank(chip, l) <= PicRank(chip, o)

(* Seeded fault: priority compared by line number instead of rank.         *)
PicBlockers_ByLine(chip, line, isMaster) == {o \in chip.Isr : o <= line}

(* The in-service lines that stop `line'.                                  *)
PicBlockers(chip, line, isMaster) ==
    LET effective == IF chip.IsSpecialMaskMode THEN chip.Isr \ chip.Imr ELSE chip.Isr
    IN  {o \in effective :
            /\ ~ (/\ isMaster
                  /\ chip.IsSpecialFullyNested
                  /\ line = CascadeLine
                  /\ o = CascadeLine)
            /\ PicRank(chip, o) <= PicRank(chip, line)}

PicIsLineOpen(chip, line, isMaster) ==
    /\ line \notin chip.Imr
    /\ PicBlockers(chip, line, isMaster) = {}

-----------------------------------------------------------------------------
(* One chip's registers.                                                   *)

PicChipReset(base) ==
    [Imr |-> Lines, Irr |-> {}, Isr |-> {}, VectorBase |-> base,
     IcwStep |-> "running", IsIcw4Needed |-> FALSE, IsIsrSelected |-> FALSE,
     IsAutoEoi |-> FALSE, IsPollArmed |-> FALSE, LowestPriority |-> FixedLowest,
     IsRotateInAutoEoi |-> FALSE, IsSpecialMaskMode |-> FALSE,
     IsSpecialFullyNested |-> FALSE]

PicInterruptAcknowledge(chip, line) ==
    IF ~ chip.IsAutoEoi
      THEN [chip EXCEPT !.Isr = @ \cup {line}]
      ELSE IF chip.IsRotateInAutoEoi
             THEN [chip EXCEPT !.LowestPriority = line]
             ELSE chip

(* ICW1; poll arming is the one flag it leaves alone.                      *)
PicIcw1(chip, ic4) ==
    [chip EXCEPT
        !.IcwStep = "expectIcw2", !.IsIcw4Needed = ic4,
        !.Isr = {}, !.Irr = {}, !.Imr = {},
        !.IsIsrSelected = FALSE, !.LowestPriority = FixedLowest,
        !.IsSpecialMaskMode = FALSE, !.IsRotateInAutoEoi = FALSE,
        !.IsAutoEoi = ic4 /\ @, !.IsSpecialFullyNested = ic4 /\ @]

(* The fields of an OCW3 that mean something.                              *)
Ocw3Words == [select : {"keep", "irr", "isr"}, smm : {"keep", "set", "clear"}, poll : BOOLEAN]

PicOcw3(chip, word) ==
    [chip EXCEPT
        !.IsIsrSelected = IF word.select = "keep" THEN @ ELSE word.select = "isr",
        !.IsSpecialMaskMode = IF word.smm = "keep" THEN @ ELSE word.smm = "set",
        !.IsPollArmed = @ \/ word.poll]

Ocw2Commands == {"nonspecificEoi", "specificEoi", "rotateNonspecificEoi", "rotateSpecificEoi",
                 "setPriority", "rotateAeoiSet", "rotateAeoiClear", "nop"}

PicEndLine(chip, line) == [chip EXCEPT !.Isr = @ \ {line}]

(* Seeded fault: rotate on non-specific EOI with nothing in service.       *)
PicOcw2_RotateUnchecked(chip, command, line) ==
    LET top == PicTopLine(chip, chip.Isr)
    IN  [PicEndLine(chip, top) EXCEPT !.LowestPriority = top]

PicOcw2(chip, command, line) ==
    LET top == PicTopLine(chip, chip.Isr)
    IN  CASE command = "nonspecificEoi"       -> PicEndLine(chip, top)
          [] command = "specificEoi"          -> PicEndLine(chip, line)
          [] command = "rotateNonspecificEoi" ->
                IF top = NoLine THEN chip
                ELSE [PicEndLine(chip, top) EXCEPT !.LowestPriority = top]
          [] command = "rotateSpecificEoi"    -> [PicEndLine(chip, line) EXCEPT !.LowestPriority = line]
          [] command = "setPriority"          -> [chip EXCEPT !.LowestPriority = line]
          [] command = "rotateAeoiSet"        -> [chip EXCEPT !.IsRotateInAutoEoi = TRUE]
          [] command = "rotateAeoiClear"      -> [chip EXCEPT !.IsRotateInAutoEoi = FALSE]
          [] OTHER                            -> chip

(* The data port: which register a byte reaches depends on the ICW step.   *)
(* `byte' carries what each register would take from it.                   *)
DataBytes == [base : VectorBases, mask : SUBSET Lines, aeoi : BOOLEAN, sfnm : BOOLEAN]

PicDataWrite(chip, byte) ==
    CASE chip.IcwStep = "expectIcw2" ->
            [chip EXCEPT !.VectorBase = byte.base, !.IcwStep = "expectIcw3"]
      [] chip.IcwStep = "expectIcw3" ->
            [chip EXCEPT !.IcwStep = IF chip.IsIcw4Needed THEN "expectIcw4" ELSE "running"]
      [] chip.IcwStep = "expectIcw4" ->
            [chip EXCEPT !.IsAutoEoi = byte.aeoi, !.IsSpecialFullyNested = byte.sfnm,
                         !.IcwStep = "running"]
      [] chip.IcwStep = "running" -> [chip EXCEPT !.Imr = byte.mask]

(* A poll read: the line it offers (NoLine when bit 7 reads clear) and the *)
(* chip after it.                                                          *)
PicPollLine(chip, isMaster) ==
    LET top == PicTopLine(chip, chip.Irr \ chip.Imr)
    IN  IF top # NoLine /\ PicIsLineOpen(chip, top, isMaster) THEN top ELSE NoLine

PicPollRead(chip, isMaster) ==
    LET line == PicPollLine(chip, isMaster)
    IN  IF line = NoLine THEN chip
        ELSE PicInterruptAcknowledge([chip EXCEPT !.Irr = @ \ {line}], line)

(* An IN from the command port, which only a poll makes destructive.       *)
PicCommandRead(chip, isMaster) ==
    IF chip.IsPollArmed
      THEN PicPollRead([chip EXCEPT !.IsPollArmed = FALSE], isMaster)
      ELSE chip

-----------------------------------------------------------------------------
(* The cascaded pair: the host-side interface of vdd_pic.c.                *)

Chips == {"master", "slave"}

PairType == [Chips -> ChipType]

Irqs == 0 .. 2 * LinesPerChip - 1

ChipOf(irq) == IF irq < LinesPerChip THEN "master" ELSE "slave"

LineOf(irq) == IF irq < LinesPerChip THEN irq ELSE irq - LinesPerChip

VddPicRaise(pair, irq) == [pair EXCEPT ![ChipOf(irq)].Irr = @ \cup {LineOf(irq)}]

(* Seeded fault: the slave asks only the master's mask and the lines above *)
(* the cascade, as the code did before SFNM was modelled.                  *)
VddPicCanDeliver_CascadeUnchecked(pair, irq) ==
    /\ PicIsLineOpen(pair[ChipOf(irq)], LineOf(irq), ChipOf(irq) = "master")
    /\ ChipOf(irq) = "slave" =>
            /\ CascadeLine \notin pair["master"].Imr
            /\ pair["master"].Isr \cap (0 .. CascadeLine - 1) = {}

VddPicCanDeliver(pair, irq) ==
    /\ PicIsLineOpen(pair[ChipOf(irq)], LineOf(irq), ChipOf(irq) = "master")
    /\ ChipOf(irq) = "slave" => PicIsLineOpen(pair["master"], CascadeLine, TRUE)

VddPicAcknowledge(pair, irq) ==
    LET acked(chip, line) == PicInterruptAcknowledge([chip EXCEPT !.Irr = @ \ {line}], line)
    IN  IF ChipOf(irq) = "master"
          THEN [pair EXCEPT !["master"] = acked(@, LineOf(irq))]
          ELSE [pair EXCEPT !["slave"] = acked(@, LineOf(irq)),
                            !["master"] = PicInterruptAcknowledge(@, CascadeLine)]

VddPicEndOfInterrupt(pair, irq) ==
    IF ChipOf(irq) = "master"
      THEN [pair EXCEPT !["master"] = PicEndLine(@, irq)]
      ELSE LET slave == PicEndLine(pair["slave"], LineOf(irq))
           IN  [pair EXCEPT !["slave"] = slave,
                            !["master"] = IF slave.Isr = {} THEN PicEndLine(@, CascadeLine) ELSE @]

VddPicAcknowledgeAutoEoi(pair, irq) ==
    IF ChipOf(irq) = "slave"
      THEN VddPicEndOfInterrupt(VddPicAcknowledge(pair, irq), irq)
      ELSE [pair EXCEPT
              !["master"].Irr = @ \ {irq},
              !["master"].LowestPriority =
                    IF pair["master"].IsAutoEoi /\ pair["master"].IsRotateInAutoEoi THEN irq ELSE @]

VddPicVector(pair, irq) == (pair[ChipOf(irq)].VectorBase + LineOf(irq)) % 256

(* The state a PC BIOS leaves: on the master IRQ0 and IRQ1 unmasked.       *)
VddPicReset ==
    [c \in Chips |->
        IF c = "master" THEN [PicChipReset(8) EXCEPT !.Imr = Lines \ {0, 1}]
                        ELSE PicChipReset(112)]
=============================================================================
