-------------------------------- MODULE Pit --------------------------------
(***************************************************************************)
(* The 8254 interval timer (vdd_pit.c): counter 0 with the IRQ0 engine,     *)
(* and counter 2 with its gate and the PC speaker's own copy of its         *)
(* divisor.  The crystal (HostPitGenerate) and the guest's port accesses    *)
(* take the same lock (PIT_GUARD, g_PitCs), so each is one step; the        *)
(* question is what any order of clocks, control words, half-written        *)
(* counts, latches and gate changes leaves behind.                          *)
(*                                                                          *)
(* A byte has PitByte values (256 in the machine) and a count two bytes.    *)
(* Counter 1 runs counter 2's code with its gate tied high and is not       *)
(* repeated.  Binary counting only: BCD changes the bytes at the port and   *)
(* not the counting element.                                                *)
(***************************************************************************)
EXTENDS Naturals

CONSTANTS PitByte,          \* the number of values of a byte
          MaxTotalClocks,   \* bound: the behaviour ends when the crystal has run this long
          MaxSyncClocks,    \* bound: most clocks one synchronisation adds
          GuestModes,       \* the modes the guest programs
          PitBudgets        \* bound: the accesses the guest makes to each counter's ports

ASSUME PitAssumption == /\ PitByte \in Nat \ {0, 1}
                        /\ MaxTotalClocks \in Nat /\ MaxSyncClocks \in Nat \ {0}
                        /\ GuestModes \subseteq 0 .. 5
                        /\ PitBudgets \subseteq [{0, 2} -> Nat]

VARIABLES pit,         \* counter 0: the flat fields of PIT_STATE
          pit2,        \* counter 2: its PIT_COUNTER
          pitSpeaker,  \* the speaker's view of counter 2: Counter2Reload and its write phase
          pitClocks,   \* TotalClocks
          pitOps,      \* accesses left to the guest for each counter (bound)
          pitIrqs,     \* IRQ0 edges since the count in force was loaded
          pitWritten,  \* the last count each counter was given in full, 0 before the first
          pitGateRun   \* clocks counter 2's gate was high since its count was loaded

pitVars == <<pit, pit2, pitSpeaker, pitClocks, pitOps, pitIrqs, pitWritten, pitGateRun>>

PitBytes == 0 .. PitByte - 1
PitWrap  == PitByte * PitByte
PitWords == 0 .. PitWrap - 1
PitModes == 0 .. 5
PitAccess == {"low", "high", "lowhigh"}
IsPeriodic(mode) == mode \in {2, 3}

\* A reload of zero is the largest count.
EffectiveCount(count) == IF count = 0 THEN PitWrap ELSE count
EffectiveReload(c) == EffectiveCount(c.reload)

(***************************************************************************)
(* What a counter shows.  The counting element is not stored: the count and *)
(* the OUT pin are functions of the clocks elapsed since the load.          *)
(***************************************************************************)
PitCountLaw(mode, reload, elapsed) ==
    CASE mode \in {0, 1, 4, 5} -> (reload + PitWrap - (elapsed % PitWrap)) % PitWrap
      [] mode = 3 -> (reload - 2 * (elapsed % ((reload + 1) \div 2))) % PitWrap
      [] mode = 2 -> (reload - (elapsed % reload)) % PitWrap

PitOutPin(mode, reload, elapsed) ==
    CASE mode \in {0, 1} -> elapsed >= reload
      [] mode = 2 -> elapsed % reload # reload - 1
      [] mode = 3 -> elapsed % reload < (reload + 1) \div 2
      [] mode \in {4, 5} -> elapsed # reload

PitElapsed == pitClocks - pit.load
PitCurrentCount == PitCountLaw(pit.mode, EffectiveReload(pit), PitElapsed)

\* A low gate holds the count except in modes 1 and 5, where it is a trigger.
PitCounterElapsed ==
    IF ~pit2.gate /\ pit2.mode \notin {1, 5} THEN pit2.gateElapsed ELSE pitClocks - pit2.load

PitCounterCount == PitCountLaw(pit2.mode, EffectiveReload(pit2), PitCounterElapsed)

PitCounterOut ==
    \/ pit2.mode \in {1, 5} /\ ~pit2.triggered
    \/ IsPeriodic(pit2.mode) /\ ~pit2.gate
    \/ PitOutPin(pit2.mode, EffectiveReload(pit2), PitCounterElapsed)

(***************************************************************************)
(* The crystal.                                                             *)
(***************************************************************************)
\* A one-shot raises IRQ0 once per count; a periodic mode once per period, and a count
\* written without a control word takes over at the end of the period in flight.
VddPitAddClocks(clocks) ==
    LET acc == pit.acc + clocks
        reload == EffectiveReload(pit)
        next == EffectiveCount(pit.nextReload)
        isDue == pit.irqArmed /\ PitElapsed + clocks >= reload
    IN  /\ pitClocks' = pitClocks + clocks
        /\ IF ~IsPeriodic(pit.mode)
           THEN /\ pit' = [pit EXCEPT !.acc = 0, !.irqArmed = @ /\ ~isDue]
                /\ pitIrqs' = pitIrqs + (IF isDue THEN 1 ELSE 0)
           ELSE IF pit.nextPending /\ acc >= reload
           THEN /\ pit' = [pit EXCEPT !.acc = (acc - reload) % next, !.reload = pit.nextReload,
                                      !.nextPending = FALSE,
                                      !.load = pitClocks + clocks - (acc - reload)]
                /\ pitIrqs' = (acc - reload) \div next
           ELSE /\ pit' = [pit EXCEPT !.acc = acc % reload]
                /\ pitIrqs' = pitIrqs + acc \div reload

PitTick ==
    \E clocks \in 1 .. MaxSyncClocks :
        /\ pitClocks + clocks <= MaxTotalClocks
        /\ VddPitAddClocks(clocks)
        /\ pitGateRun' = pitGateRun + (IF pit2.gate THEN clocks ELSE 0)
        /\ UNCHANGED <<pit2, pitSpeaker, pitOps, pitWritten>>

GuestOp(c) == pitOps[c] > 0 /\ pitOps' = [pitOps EXCEPT ![c] = @ - 1]

(***************************************************************************)
(* Counter 0's ports.                                                       *)
(***************************************************************************)
\* A control word arms the next count to restart the period, in every mode.
PitControl0 ==
    /\ GuestOp(0)
    /\ \E access \in PitAccess, mode \in GuestModes :
           pit' = [pit EXCEPT !.access = access, !.mode = mode, !.writeHighNext = FALSE,
                              !.cwArmed = TRUE, !.nextPending = FALSE, !.irqArmed = FALSE]
    /\ UNCHANGED <<pit2, pitSpeaker, pitClocks, pitIrqs, pitWritten, pitGateRun>>

\* A count without a control word waits for the end of a periodic mode's period.
PitLoad_AccKept(count) ==
    IF IsPeriodic(pit.mode) /\ ~pit.cwArmed
    THEN /\ pit' = [pit EXCEPT !.nextReload = count, !.nextPending = TRUE, !.writeHighNext = FALSE]
         /\ UNCHANGED pitIrqs
    ELSE /\ pit' = [pit EXCEPT !.reload = count, !.load = pitClocks, !.cwArmed = FALSE,
                               !.nextPending = FALSE,
                               !.irqArmed = pit.mode \in {0, 4}, !.writeHighNext = FALSE]
         /\ pitIrqs' = 0

PitLoad(count) ==
    IF IsPeriodic(pit.mode) /\ ~pit.cwArmed
    THEN /\ pit' = [pit EXCEPT !.nextReload = count, !.nextPending = TRUE, !.writeHighNext = FALSE]
         /\ UNCHANGED pitIrqs
    ELSE /\ pit' = [pit EXCEPT !.reload = count, !.load = pitClocks, !.acc = 0, !.cwArmed = FALSE,
                               !.nextPending = FALSE, !.irqArmed = pit.mode \in {0, 4},
                               !.writeHighNext = FALSE]
         /\ pitIrqs' = 0

\* The value the bytes written so far and this one make, when they make one.
IsCountComplete(c) == c.access # "lowhigh" \/ c.writeHighNext
CountOf(c, byte) == CASE c.access = "low"  -> byte
                      [] c.access = "high" -> byte * PitByte
                      [] OTHER             -> byte * PitByte + c.writeLow

PitWrite0 ==
    /\ GuestOp(0)
    /\ \E byte \in PitBytes :
           IF IsCountComplete(pit)
           THEN /\ PitLoad(CountOf(pit, byte))
                /\ pitWritten' = [pitWritten EXCEPT ![0] = CountOf(pit, byte)]
           ELSE /\ pit' = [pit EXCEPT !.writeLow = byte, !.writeHighNext = TRUE]
                /\ UNCHANGED <<pitIrqs, pitWritten>>
    /\ UNCHANGED <<pit2, pitSpeaker, pitClocks, pitGateRun>>

\* Both ways to freeze a count: a counter latch command replaces the snapshot, a
\* read-back keeps the first.
LatchCount(c, count) == [c EXCEPT !.latch = count, !.latched = TRUE, !.readHighNext = FALSE]

PitLatch0 ==
    /\ GuestOp(0)
    /\ pit' = LatchCount(pit, PitCurrentCount)
    /\ UNCHANGED <<pit2, pitSpeaker, pitClocks, pitIrqs, pitWritten, pitGateRun>>

\* A read-back latches counts, or status bytes, of the counters it selects; the status is
\* OUT and NULL COUNT here.
NullCount0 == pit.cwArmed \/ pit.nextPending

ReadBackStatus(c, out, null) ==
    IF c.statusLatched THEN c ELSE [c EXCEPT !.statusLatched = TRUE, !.status = <<out, null>>]
ReadBackCount(c, count) == IF c.latched THEN c ELSE LatchCount(c, count)

PitReadBack ==
    \E selected \in (SUBSET {0, 2}) \ {{}}, isStatus \in BOOLEAN :
           /\ GuestOp(IF 0 \in selected THEN 0 ELSE 2)
           /\ pit' = IF 0 \notin selected THEN pit
                     ELSE IF isStatus
                     THEN ReadBackStatus(pit, PitOutPin(pit.mode, EffectiveReload(pit), PitElapsed),
                                         NullCount0)
                     ELSE ReadBackCount(pit, PitCurrentCount)
           /\ pit2' = IF 2 \notin selected THEN pit2
                      ELSE IF isStatus
                      THEN ReadBackStatus(pit2, PitCounterOut, pit2.nullCount)
                      ELSE ReadBackCount(pit2, PitCounterCount)
           /\ UNCHANGED <<pitSpeaker, pitClocks, pitIrqs, pitWritten, pitGateRun>>

\* A status byte is read before the count; a two-byte read ends with the high byte, which
\* frees the snapshot.
ReadCounter(c) ==
    IF c.statusLatched THEN [c EXCEPT !.statusLatched = FALSE]
    ELSE IF c.access # "lowhigh" THEN [c EXCEPT !.latched = FALSE]
    ELSE IF c.readHighNext THEN [c EXCEPT !.readHighNext = FALSE, !.latched = FALSE]
    ELSE [c EXCEPT !.readHighNext = TRUE]

PitRead ==
    /\ \/ GuestOp(0) /\ pit' = ReadCounter(pit) /\ UNCHANGED pit2
       \/ GuestOp(2) /\ pit2' = ReadCounter(pit2) /\ UNCHANGED pit
    /\ UNCHANGED <<pitSpeaker, pitClocks, pitIrqs, pitWritten, pitGateRun>>

(***************************************************************************)
(* Counter 2's ports and its gate (port 61h bit 0).                         *)
(***************************************************************************)
PitCounterControl ==
    /\ GuestOp(2)
    /\ \E access \in PitAccess, mode \in GuestModes :
           /\ pit2' = [pit2 EXCEPT !.access = access, !.mode = mode, !.triggered = FALSE,
                                   !.writeHighNext = FALSE, !.nullCount = TRUE,
                                   !.load = pitClocks, !.gateElapsed = 0]
           /\ pitSpeaker' = [pitSpeaker EXCEPT !.access = access, !.writeHighNext = FALSE]
    /\ pitGateRun' = 0
    /\ UNCHANGED <<pit, pitClocks, pitIrqs, pitWritten>>

PitLatch2 ==
    /\ GuestOp(2)
    /\ pit2' = LatchCount(pit2, PitCounterCount)
    /\ UNCHANGED <<pit, pitSpeaker, pitClocks, pitIrqs, pitWritten, pitGateRun>>

\* The speaker's copy: the divisor changes when its high byte commits it.
SpeakerWrite_LowAtOnce(byte) ==
    [pitSpeaker EXCEPT !.reload = CountOf(pitSpeaker, byte),
                       !.writeLow = IF IsCountComplete(pitSpeaker) THEN @ ELSE byte,
                       !.writeHighNext = ~IsCountComplete(pitSpeaker)]

SpeakerWrite(byte) ==
    IF IsCountComplete(pitSpeaker)
    THEN [pitSpeaker EXCEPT !.reload = CountOf(pitSpeaker, byte), !.writeHighNext = FALSE]
    ELSE [pitSpeaker EXCEPT !.writeLow = byte, !.writeHighNext = TRUE]

PitWrite2 ==
    /\ GuestOp(2)
    /\ \E byte \in PitBytes :
           /\ pitSpeaker' = SpeakerWrite(byte)
           /\ IF IsCountComplete(pit2)
              THEN /\ pit2' = [pit2 EXCEPT !.reload = CountOf(pit2, byte), !.writeHighNext = FALSE,
                                           !.triggered = @ /\ pit2.mode \notin {1, 5},
                                           !.nullCount = FALSE, !.load = pitClocks,
                                           !.gateElapsed = 0]
                   /\ pitWritten' = [pitWritten EXCEPT ![2] = CountOf(pit2, byte)]
                   /\ pitGateRun' = 0
              ELSE /\ pit2' = [pit2 EXCEPT !.writeLow = byte, !.writeHighNext = TRUE]
                   /\ UNCHANGED <<pitWritten, pitGateRun>>
    /\ UNCHANGED <<pit, pitClocks, pitIrqs>>

\* A rising gate triggers modes 1 and 5, restarts modes 2 and 3 and resumes modes 0 and 4;
\* a falling one stops all but modes 1 and 5.
GateRise_Restarts ==
    [pit2 EXCEPT !.gate = TRUE, !.triggered = @ \/ pit2.mode \in {1, 5}, !.load = pitClocks]

GateRise ==
    [pit2 EXCEPT !.gate = TRUE, !.triggered = @ \/ pit2.mode \in {1, 5},
                 !.load = IF pit2.mode \in {0, 4} THEN pitClocks - pit2.gateElapsed ELSE pitClocks]

GateFall ==
    [pit2 EXCEPT !.gate = FALSE,
                 !.gateElapsed = IF pit2.mode \in {1, 5} THEN @ ELSE PitCounterElapsed]

VddPitCounter2Gate ==
    /\ GuestOp(2)
    /\ pit2' = IF pit2.gate THEN GateFall ELSE GateRise
    /\ UNCHANGED <<pit, pitSpeaker, pitClocks, pitIrqs, pitWritten, pitGateRun>>

(***************************************************************************)
(* VddPitReset.                                                             *)
(***************************************************************************)
PitInit ==
    /\ pit = [reload |-> 0, access |-> "lowhigh", mode |-> 3, writeHighNext |-> FALSE,
              writeLow |-> 0, readHighNext |-> FALSE, latched |-> FALSE, latch |-> 0, load |-> 0,
              acc |-> 0, cwArmed |-> FALSE, nextPending |-> FALSE, nextReload |-> 0,
              irqArmed |-> FALSE, statusLatched |-> FALSE, status |-> <<FALSE, FALSE>>]
    /\ pit2 = [reload |-> 0, access |-> "lowhigh", mode |-> 0, writeHighNext |-> FALSE,
               writeLow |-> 0, readHighNext |-> FALSE, latched |-> FALSE, latch |-> 0, load |-> 0,
               nullCount |-> FALSE, gate |-> FALSE, gateElapsed |-> 0, triggered |-> FALSE,
               statusLatched |-> FALSE, status |-> <<FALSE, FALSE>>]
    /\ pitSpeaker = [reload |-> 0, access |-> "lowhigh", writeHighNext |-> FALSE, writeLow |-> 0]
    /\ pitClocks = 0 /\ pitOps \in PitBudgets /\ pitIrqs = 0
    /\ pitWritten = [c \in {0, 2} |-> 0] /\ pitGateRun = 0

PitNext == PitTick \/ PitControl0 \/ PitWrite0 \/ PitLatch0 \/ PitReadBack \/ PitRead
              \/ PitCounterControl \/ PitLatch2 \/ PitWrite2 \/ VddPitCounter2Gate

PitSpec == PitInit /\ [][PitNext]_pitVars

(***************************************************************************)
(* Properties.                                                              *)
(***************************************************************************)
\* The interrupts the guest was given and the count it reads agree (VddPitAddClocks,
\* PitCurrentCount): since the count in force was loaded, a periodic mode has raised IRQ0
\* once per whole period of the clocks the read-back is computed from, a one-shot once at
\* terminal count, and modes 1 and 5 never.
IrqsMatchElapsed ==
    ~pit.cwArmed =>
        pitIrqs = CASE IsPeriodic(pit.mode) -> PitElapsed \div EffectiveReload(pit)
                    [] pit.mode \in {0, 4}  -> IF PitElapsed >= EffectiveReload(pit) THEN 1 ELSE 0
                    [] OTHER                -> 0

\* Every view of a count agrees on which count is in force: when the status byte would not
\* report NULL COUNT it is the last one the guest wrote in full, so no older pending count
\* can come back later (PitStatusOf, PitLoad), and the speaker's divisor is counter 2's
\* reload, half-written in both or in neither (Counter2Reload, PitCounterWriteCount).
CountsInForce ==
    /\ ~NullCount0 => pit.reload = pitWritten[0]
    /\ ~pit2.nullCount => pit2.reload = pitWritten[2]
    /\ pitSpeaker.reload = pit2.reload
    /\ pitSpeaker.writeHighNext = pit2.writeHighNext
    /\ pitSpeaker.writeHighNext => pitSpeaker.writeLow = pit2.writeLow

\* A gate that falls and rises again pauses modes 0 and 4 and loses no clock: counter 2 has
\* counted exactly the clocks its gate was high (GateElapsed in VddPitCounter2Gate).
GatePauses == pit2.mode \in {0, 4} => PitCounterElapsed = pitGateRun
=============================================================================
