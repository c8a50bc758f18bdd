----------------------------- MODULE PicDevice -----------------------------
(***************************************************************************)
(* The PIC pair as a device under a guest that may program it in any way,  *)
(* and a host that delivers through VddPicCanDeliver: every port access    *)
(* and every host call of vdd_pic.c is an action.                          *)
(***************************************************************************)
EXTENDS PicChip

CONSTANTS
    RaisedIrqs,     \* bound: the lines a device may raise and the host deliver
    Icw1Used,       \* bounds, per chip: the ICW1 words (IC4 bit), OCW1 masks,
    MasksUsed,      \*   OCW2 commands and OCW3 words the guest writes
    Ocw2Used,
    Ocw3Used

ASSUME BoundsAssumption ==
    /\ RaisedIrqs \subseteq Irqs
    /\ Icw1Used \in [Chips -> SUBSET BOOLEAN]
    /\ MasksUsed \in [Chips -> SUBSET SUBSET Lines]
    /\ Ocw2Used \in [Chips -> SUBSET Ocw2Commands]
    /\ Ocw3Used \in [Chips -> SUBSET Ocw3Words]

VARIABLE pic

vars == <<pic>>

Init == pic = VddPicReset

IsMaster(c) == c = "master"

-----------------------------------------------------------------------------
(* The guest's port accesses: OUT 20h/A0h, OUT 21h/A1h and IN 20h/A0h (an  *)
(* IN from 21h/A1h returns the mask and changes nothing).                  *)

CommandWriteIcw1(c, ic4) == pic' = [pic EXCEPT ![c] = PicIcw1(@, ic4)]

CommandWriteOcw2(c, command, line) == pic' = [pic EXCEPT ![c] = PicOcw2(@, command, line)]

CommandWriteOcw3(c, word) == pic' = [pic EXCEPT ![c] = PicOcw3(@, word)]

DataWrite(c, byte) == pic' = [pic EXCEPT ![c] = PicDataWrite(@, byte)]

CommandRead(c) == pic' = [pic EXCEPT ![c] = PicCommandRead(@, IsMaster(c))]

(* The host's calls.                                                       *)

Raise(irq) == pic' = VddPicRaise(pic, irq)

Deliver(irq) == VddPicCanDeliver(pic, irq) /\ pic' = VddPicAcknowledge(pic, irq)

DeliverAutoEoi(irq) == VddPicCanDeliver(pic, irq) /\ pic' = VddPicAcknowledgeAutoEoi(pic, irq)

EndOfInterrupt(irq) == pic' = VddPicEndOfInterrupt(pic, irq)

Reset == pic' = VddPicReset

GuestStep(c) ==
    \/ \E ic4 \in Icw1Used[c] : CommandWriteIcw1(c, ic4)
    \/ \E command \in Ocw2Used[c], line \in Lines : CommandWriteOcw2(c, command, line)
    \/ \E word \in Ocw3Used[c] : CommandWriteOcw3(c, word)
    \/ \E byte \in [base : VectorBases, mask : MasksUsed[c], aeoi : BOOLEAN, sfnm : BOOLEAN] : DataWrite(c, byte)
    \/ CommandRead(c)

HostStep(irq) ==
    \/ Raise(irq)
    \/ Deliver(irq)
    \/ DeliverAutoEoi(irq)
    \/ EndOfInterrupt(irq)

Next ==
    \/ \E c \in Chips : GuestStep(c)
    \/ \E irq \in RaisedIrqs : HostStep(irq)
    \/ Reset

Spec == Init /\ [][Next]_vars

-----------------------------------------------------------------------------
(* Properties.                                                             *)

(* The registers stay in range whatever the guest writes: LowestPriority   *)
(* is always a line, an ICW sequence is always in one of its four steps.   *)
TypeOK == pic \in PairType

(* The lines of a chip a delivery could take now.                          *)
Takeable(c) == {l \in pic[c].Irr : PicIsLineOpen(pic[c], l, IsMaster(c))}

(* PicPollRead looks at one candidate only, the highest-priority unmasked  *)
(* request, and answers "none" when that one is blocked.  Its comment      *)
(* claims nothing is lost: the poll finds a line exactly when some line is *)
(* takeable, and it is the one that outranks every other takeable line, in *)
(* any rotation, special mask mode and special fully nested mode.          *)
PollOffersHighest ==
    \A c \in Chips :
        LET line == PicPollLine(pic[c], IsMaster(c))
        IN  /\ line = NoLine <=> Takeable(c) = {}
            /\ line # NoLine => /\ line \in Takeable(c)
                                /\ \A o \in Takeable(c) : PicRank(pic[c], line) <= PicRank(pic[c], o)

(* Every line that enters service outranks all that is in service.         *)
EntryOutranks ==
    \A c \in Chips : \A l \in pic'[c].Isr \ pic[c].Isr :
        ~ pic[c].IsSpecialMaskMode => \A o \in pic[c].Isr : PicRank(pic[c], l) < PicRank(pic[c], o)

(* Fully nested mode (no special mask mode): a step that puts a line in    *)
(* service finds nothing of the same or a higher priority in service on    *)
(* that chip, whether the step is a poll, a delivery (VddPicCanDeliver     *)
(* then VddPicAcknowledge) or the slave's cascade into the master's IR2.   *)
NestingRespected == [][EntryOutranks]_vars

(* Outside special fully nested and special mask mode the slave is locked  *)
(* out while the master holds IR2 in service: the only way a slave line    *)
(* enters service is a poll of the slave itself, which bypasses the        *)
(* master.                                                                 *)
SlaveLockedOut ==
    [][/\ CascadeLine \in pic["master"].Isr
       /\ ~ pic["master"].IsSpecialFullyNested
       /\ ~ pic["master"].IsSpecialMaskMode
       /\ ~ pic["slave"].IsPollArmed
       => pic'["slave"].Isr \subseteq pic["slave"].Isr]_vars
=============================================================================
