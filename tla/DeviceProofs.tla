---------------------------- MODULE DeviceProofs ----------------------------
(***************************************************************************)
(* Theorems about the devices behind the ports: the real-time clock and    *)
(* the interval timer, each for every length of a second and a period,     *)
(* every reload, every mode and any order of the crystal's clocks and the  *)
(* guest's port accesses; and the keyboard controller, for every size of   *)
(* its queues that a packet of the mouse fits and any order of the host's  *)
(* events and the guest's accesses.                                        *)
(***************************************************************************)
EXTENDS Rtc, Pit, Keyboard, SetFacts, Integers, TLAPS

-----------------------------------------------------------------------------
(* The real-time clock.                                                    *)

(* The two threads' program counters and what they carry.                  *)
RtcShape ==
    /\ rtcPace = [at |-> rtcPace.at, load |-> rtcPace.load, fired |-> rtcPace.fired, clocks |-> rtcPace.clocks]
    /\ rtcExec = [at |-> rtcExec.at, flags |-> rtcExec.flags, b |-> rtcExec.b]
    /\ rtcPace.fired \in BOOLEAN

(* Status C only loses flags between the load and the store of a `|=', as  *)
(* nobody else sets one.                                                   *)
RtcLoads ==
    rtcPace.at \in {"updateStore", "alarmStore", "irqStore", "ticksStore"} => rtcC \subseteq rtcPace.load

(* IRQF is missing only inside a second's edge, from its first flag on.    *)
IrqfStands == rtcC # {} => "IRQF" \in rtcC

RtcIrqf ==
    /\ rtcPace.at \in {"idle", "second", "update", "updateStore", "periodic", "ticks", "ticksStore"} =>
          ~ rtcPace.fired /\ IrqfStands
    /\ rtcPace.at = "alarm" /\ ~ rtcPace.fired => IrqfStands

(* A flag still owed to the guest stands, or the read in progress has it,  *)
(* or it was raised too late for that read.                                *)
RtcOwedInv ==
    /\ rtcOwed \subseteq rtcC \cup (IF rtcExec.at = "clear" THEN rtcExec.flags ELSE {})
    /\ rtcExec.at = "clear" => rtcOwed \subseteq rtcExec.flags \cup rtcLate

RtcInv == RtcShape /\ RtcLoads /\ RtcIrqf /\ RtcOwedInv

(* A store of flags, by either thread's order.                             *)
LEMMA PaceStoreKeeps ==
    ASSUME RtcInv, NEW flags, NEW at, PaceStore(flags, at), UNCHANGED rtcExec,
           rtcPace.at \in {"updateStore", "alarmStore", "irqStore", "ticksStore"},
           at \in {"alarm", "irq", "second", "ticks"},
           at \in {"second", "ticks"} => "IRQF" \in flags
    PROVE  RtcInv'
<1> USE DEF RtcInv, PaceStore, Raised
<1> DEFINE fired == at \in {"alarm", "irq"}
<1>0. fired \in BOOLEAN /\ rtcPace' = [rtcPace EXCEPT !.at = at, !.fired = fired]
  OBVIOUS
<1> HIDE DEF fired
<1>1. RtcShape' /\ rtcPace'.at = at /\ rtcPace'.fired = fired
  BY <1>0 DEF RtcShape
<1> USE DEF fired
<1>2. RtcLoads'
  BY <1>1 DEF RtcLoads
<1>3. RtcIrqf'
  BY <1>1 DEF RtcIrqf, IrqfStands
<1>4. RtcOwedInv'
  BY DEF RtcOwedInv, RtcLoads
<1> QED
  BY <1>1, <1>2, <1>3, <1>4

(* A step of the pacer that stores nothing.                                *)
LEMMA PaceMoveKeeps ==
    ASSUME RtcInv, UNCHANGED <<rtcExec, rtcC, rtcGhost>>,
           NEW at, rtcPace'.at = at, RtcShape', rtcPace'.fired = rtcPace.fired,
           at \in {"updateStore", "alarmStore", "irqStore", "ticksStore"} => rtcPace'.load = rtcC,
           at \in {"idle", "second", "update", "updateStore", "periodic", "ticks", "ticksStore"} =>
               ~ rtcPace.fired /\ IrqfStands,
           at = "alarm" /\ ~ rtcPace.fired => IrqfStands
    PROVE  RtcInv'
  BY DEF RtcInv, RtcLoads, RtcIrqf, RtcOwedInv, IrqfStands, rtcGhost

LEMMA RtcStep ==
    ASSUME RtcInv, [RtcNext]_rtcVars
    PROVE  RtcInv'
<1>0. RtcShape /\ RtcLoads /\ RtcIrqf /\ RtcOwedInv
  BY DEF RtcInv
<1>1. CASE AddClocks
  <2>1. RtcShape' /\ rtcPace'.at = "second" /\ rtcPace'.fired = rtcPace.fired
    BY <1>0, <1>1 DEF AddClocks, RtcShape, rtcGuest
  <2>2. ~ rtcPace.fired /\ IrqfStands
    BY <1>0, <1>1 DEF AddClocks, RtcIrqf
  <2> QED
    BY <1>1, <2>1, <2>2, PaceMoveKeeps DEF AddClocks, rtcGuest
<1>2. CASE CmosSecondEdge
  <2>1. RtcShape' /\ rtcPace'.at \in {"second", "update", "periodic"} /\ rtcPace'.fired = rtcPace.fired
    BY <1>0, <1>2 DEF CmosSecondEdge, PaceTo, RtcShape, rtcGuest
  <2>2. ~ rtcPace.fired /\ IrqfStands
    BY <1>0, <1>2 DEF CmosSecondEdge, RtcIrqf
  <2> QED
    BY <1>2, <2>1, <2>2, PaceMoveKeeps DEF CmosSecondEdge, rtcGuest
<1>3. CASE UpdateEnded
  <2>1. CASE rtcPace.at = "update"
    <3>1. RtcShape' /\ rtcPace'.at \in {"updateStore", "alarm"} /\ rtcPace'.fired = rtcPace.fired
          /\ (rtcPace'.at = "updateStore" => rtcPace'.load = rtcC) /\ UNCHANGED <<rtcExec, rtcC, rtcGhost>>
      BY <1>0, <1>3, <2>1 DEF UpdateEnded, PaceTo, PaceLoad, RtcShape, rtcGuest
    <3>2. ~ rtcPace.fired /\ IrqfStands
      BY <1>0, <2>1 DEF RtcIrqf
    <3> QED
      BY <3>1, <3>2, PaceMoveKeeps
  <2>2. CASE rtcPace.at = "updateStore"
    <3>1. PaceStore({"UF"}, "alarm") /\ UNCHANGED rtcExec
      BY <1>3, <2>2 DEF UpdateEnded, rtcGuest
    <3> QED
      BY <2>2, <3>1, PaceStoreKeeps
  <2> QED
    BY <1>3, <2>1, <2>2 DEF UpdateEnded
<1>4. CASE Alarm
  <2>1. CASE rtcPace.at = "alarm"
    <3>1. RtcShape' /\ rtcPace'.at \in {"alarmStore", "irq", "second"} /\ rtcPace'.fired = rtcPace.fired
          /\ (rtcPace'.at = "alarmStore" => rtcPace'.load = rtcC) /\ UNCHANGED <<rtcExec, rtcC, rtcGhost>>
          /\ (rtcPace'.at = "second" => ~ rtcPace.fired)
      BY <1>0, <1>4, <2>1 DEF Alarm, PaceTo, PaceLoad, RtcShape, rtcGuest
    <3>2. ~ rtcPace.fired => IrqfStands
      BY <1>0, <2>1 DEF RtcIrqf
    <3> QED
      BY <3>1, <3>2, PaceMoveKeeps
  <2>2. CASE rtcPace.at = "alarmStore"
    <3>1. PaceStore({"AF"}, "irq") /\ UNCHANGED rtcExec
      BY <1>4, <2>2 DEF Alarm, rtcGuest
    <3> QED
      BY <2>2, <3>1, PaceStoreKeeps
  <2> QED
    BY <1>4, <2>1, <2>2 DEF Alarm
<1>5. CASE SecondIrq
  <2>1. CASE rtcPace.at = "irq"
    <3>1. RtcShape' /\ rtcPace'.at = "irqStore" /\ rtcPace'.fired = rtcPace.fired
          /\ rtcPace'.load = rtcC /\ UNCHANGED <<rtcExec, rtcC, rtcGhost>>
      BY <1>0, <1>5, <2>1 DEF SecondIrq, PaceLoad, RtcShape, rtcGuest
    <3> QED
      BY <3>1, PaceMoveKeeps
  <2>2. CASE rtcPace.at = "irqStore"
    <3>1. PaceStore({"IRQF"}, "second") /\ UNCHANGED rtcExec
      BY <1>5, <2>2 DEF SecondIrq, rtcGuest
    <3> QED
      BY <2>2, <3>1, PaceStoreKeeps
  <2> QED
    BY <1>5, <2>1, <2>2 DEF SecondIrq
<1>6. CASE Periodic
  <2>1. CASE rtcPace.at \in {"periodic", "ticks"}
    <3>1. RtcShape' /\ rtcPace'.at \in {"ticks", "idle", "ticksStore"} /\ rtcPace'.fired = rtcPace.fired
          /\ (rtcPace'.at = "ticksStore" => rtcPace'.load = rtcC) /\ UNCHANGED <<rtcExec, rtcC, rtcGhost>>
      BY <1>0, <1>6, <2>1 DEF Periodic, PaceTo, PaceLoad, RtcShape, rtcGuest
    <3>2. ~ rtcPace.fired /\ IrqfStands
      BY <1>0, <2>1 DEF RtcIrqf
    <3> QED
      BY <3>1, <3>2, PaceMoveKeeps
  <2>2. CASE rtcPace.at = "ticksStore"
    <3>1. PaceStore({"PF", "IRQF"}, "ticks") /\ UNCHANGED rtcExec
      BY <1>6, <2>2 DEF Periodic, rtcGuest
    <3> QED
      BY <2>2, <3>1, PaceStoreKeeps
  <2> QED
    BY <1>6, <2>1, <2>2 DEF Periodic
<1>7. CASE ReadStatusC
  <2>1. /\ rtcExec.at = "idle" /\ RtcShape'
        /\ rtcExec'.at = "clear" /\ rtcExec'.flags = rtcC
        /\ UNCHANGED <<rtcC, rtcPace, rtcOwed, rtcLate>>
    BY <1>0, <1>7 DEF ReadStatusC, GuestStarts, RtcShape, rtcGhost
  <2> QED
    BY <1>0, <2>1 DEF RtcInv, RtcLoads, RtcIrqf, IrqfStands, RtcOwedInv
<1>8. CASE ClearStatusC
  <2>1. /\ rtcExec.at = "clear" /\ RtcShape' /\ rtcExec'.at = "idle"
        /\ rtcC' = {} /\ rtcOwed' = rtcOwed \ (rtcExec.flags \cup rtcLate)
        /\ UNCHANGED rtcPace
    BY <1>0, <1>8 DEF ClearStatusC, RtcShape
  <2> QED
    BY <1>0, <2>1 DEF RtcInv, RtcLoads, RtcIrqf, IrqfStands, RtcOwedInv
<1>9. CASE WriteStatusB \/ StoreStatusB
  <2>1. /\ rtcExec.at # "clear" /\ RtcShape' /\ rtcExec'.at # "clear"
        /\ UNCHANGED <<rtcC, rtcPace, rtcOwed, rtcLate>>
    <3>1. CASE WriteStatusB
      BY <1>0, <3>1 DEF WriteStatusB, RtcShape, rtcGhost
    <3>2. CASE StoreStatusB
      BY <1>0, <3>2 DEF StoreStatusB, RtcShape, rtcGhost
    <3> QED
      BY <1>9, <3>1, <3>2
  <2> QED
    BY <1>0, <2>1 DEF RtcInv, RtcLoads, RtcIrqf, IrqfStands, RtcOwedInv
<1>10. CASE WriteStatusA \/ RtcTimePasses \/ UNCHANGED rtcVars
  <2>1. UNCHANGED <<rtcC, rtcPace, rtcExec, rtcOwed, rtcLate>>
    BY <1>10 DEF WriteStatusA, RtcTimePasses, rtcVars, rtcGuest, rtcGhost
  <2> QED
    BY <1>0, <2>1 DEF RtcInv, RtcShape, RtcLoads, RtcIrqf, IrqfStands, RtcOwedInv
<1> QED
  BY <1>1, <1>2, <1>3, <1>4, <1>5, <1>6, <1>7, <1>8, <1>9, <1>10 DEF RtcNext, RtcPacer

(* For any lengths of a second and a period, and whatever accesses of the  *)
(* pacer and of the guest fall between each other: a flag of the clock     *)
(* stands until a read returns it, but for the one window between that     *)
(* read's load and its clear, and never without IRQF after a               *)
(* synchronisation (VddCmosAddClocks, CmosRead).                           *)
THEOREM RtcFlagsReachReader == RtcSpec => []FlagsReachReader
<1>1. RtcInit => RtcInv
  BY DEF RtcInit, RtcInv, RtcShape, RtcLoads, RtcIrqf, IrqfStands, RtcOwedInv
<1>2. RtcInv => FlagsReachReader
  BY DEF RtcInv, RtcIrqf, IrqfStands, RtcOwedInv, FlagsReachReader
<1> QED
  BY <1>1, <1>2, RtcStep, PTL DEF RtcSpec
-----------------------------------------------------------------------------
(* The interval timer: division as its counters use it.                    *)

LEMMA DivMod ==
    ASSUME NEW x \in Int, NEW r \in Int, r > 0
    PROVE  x \div r \in Int /\ x % r \in 0 .. r - 1 /\ x = r * (x \div r) + (x % r)
<1>1. x = r * (x \div r) + (x % r)
  BY SMT
<1>2. x \div r \in Int /\ x % r \in 0 .. r - 1
  OBVIOUS
<1> QED
  BY <1>1, <1>2

(* Clocks added to a period in flight complete as many periods as they     *)
(* would if all clocks since the load were divided again.                  *)
LEMMA DivAdvance ==
    ASSUME NEW elapsed \in Nat, NEW clocks \in Nat, NEW r \in Nat \ {0}
    PROVE  /\ (elapsed + clocks) % r = ((elapsed % r) + clocks) % r
           /\ (elapsed + clocks) \div r = (elapsed \div r) + (((elapsed % r) + clocks) \div r)
<1> DEFINE q == elapsed \div r
           a == elapsed % r
           p == (a + clocks) \div r
           b == (a + clocks) % r
<1>1. q \in Int /\ a \in 0 .. r - 1 /\ elapsed = r * q + a
  BY DivMod
<1>2. a + clocks \in Int
  BY <1>1
<1>3. p \in Int /\ b \in 0 .. r - 1 /\ a + clocks = r * p + b
  BY <1>2, DivMod
<1>4. q >= 0 /\ p >= 0
  BY <1>1, <1>2
<1> HIDE DEF q, a, p, b
<1>5. elapsed + clocks = r * (q + p) + b
  BY <1>1, <1>3
<1>6. q + p \in Nat
  BY <1>1, <1>3, <1>4
<1>7. (elapsed + clocks) \div r = q + p /\ (elapsed + clocks) % r = b
  <2>1. PICK x \in Nat : x = elapsed + clocks
    OBVIOUS
  <2>2. PICK k \in Nat : k = q + p
    BY <1>6
  <2>3. x = r * k + b
    BY <1>5, <2>1, <2>2
  <2>4. x \div r = k /\ x % r = b
    BY <1>3, <2>3, DivUnique
  <2> QED
    BY <2>1, <2>2, <2>4
<1> QED
  BY <1>7 DEF q, a, p, b

LEMMA DivNat ==
    ASSUME NEW x \in Nat, NEW r \in Nat \ {0}
    PROVE  x \div r \in Nat /\ x % r \in Nat /\ x % r < r
  OBVIOUS
-----------------------------------------------------------------------------
(* The counters' records.                                                  *)

Fields0(p) ==
    p = [reload |-> p.reload, access |-> p.access, mode |-> p.mode, writeHighNext |-> p.writeHighNext,
         writeLow |-> p.writeLow, readHighNext |-> p.readHighNext, latched |-> p.latched,
         latch |-> p.latch, load |-> p.load, acc |-> p.acc, cwArmed |-> p.cwArmed,
         nextPending |-> p.nextPending, nextReload |-> p.nextReload, irqArmed |-> p.irqArmed,
         statusLatched |-> p.statusLatched, status |-> p.status]

Fields2(p) ==
    p = [reload |-> p.reload, access |-> p.access, mode |-> p.mode, writeHighNext |-> p.writeHighNext,
         writeLow |-> p.writeLow, readHighNext |-> p.readHighNext, latched |-> p.latched,
         latch |-> p.latch, load |-> p.load, nullCount |-> p.nullCount, gate |-> p.gate,
         gateElapsed |-> p.gateElapsed, triggered |-> p.triggered,
         statusLatched |-> p.statusLatched, status |-> p.status]

FieldsSpeaker(s) ==
    s = [reload |-> s.reload, access |-> s.access, writeHighNext |-> s.writeHighNext, writeLow |-> s.writeLow]

(* All but what a latch, a read-back or a read of a counter changes.       *)
SameCount0(p, q) ==
    /\ q.reload = p.reload /\ q.access = p.access /\ q.mode = p.mode
    /\ q.writeHighNext = p.writeHighNext /\ q.writeLow = p.writeLow
    /\ q.load = p.load /\ q.acc = p.acc /\ q.cwArmed = p.cwArmed
    /\ q.nextPending = p.nextPending /\ q.nextReload = p.nextReload /\ q.irqArmed = p.irqArmed

SameCount2(p, q) ==
    /\ q.reload = p.reload /\ q.access = p.access /\ q.mode = p.mode
    /\ q.writeHighNext = p.writeHighNext /\ q.writeLow = p.writeLow
    /\ q.load = p.load /\ q.nullCount = p.nullCount /\ q.gate = p.gate /\ q.gateElapsed = p.gateElapsed

LEMMA Latching0 ==
    ASSUME NEW p, Fields0(p), NEW count, NEW out, NEW null,
           NEW q \in {p, LatchCount(p, count), ReadBackStatus(p, out, null), ReadBackCount(p, count),
                      ReadCounter(p)}
    PROVE  Fields0(q) /\ SameCount0(p, q)
<1> USE DEF Fields0, SameCount0, LatchCount
<1>1. CASE q = p
  BY <1>1
<1>2. CASE q = LatchCount(p, count)
  BY <1>2
<1>3. CASE q = ReadBackStatus(p, out, null)
  BY <1>3 DEF ReadBackStatus
<1>4. CASE q = ReadBackCount(p, count)
  BY <1>4 DEF ReadBackCount
<1>5. CASE q = ReadCounter(p)
  BY <1>5 DEF ReadCounter
<1> QED
  BY <1>1, <1>2, <1>3, <1>4, <1>5

LEMMA Latching2 ==
    ASSUME NEW p, Fields2(p), NEW count, NEW out, NEW null,
           NEW q \in {p, LatchCount(p, count), ReadBackStatus(p, out, null), ReadBackCount(p, count),
                      ReadCounter(p)}
    PROVE  Fields2(q) /\ SameCount2(p, q)
<1> USE DEF Fields2, SameCount2, LatchCount
<1>1. CASE q = p
  BY <1>1
<1>2. CASE q = LatchCount(p, count)
  BY <1>2
<1>3. CASE q = ReadBackStatus(p, out, null)
  BY <1>3 DEF ReadBackStatus
<1>4. CASE q = ReadBackCount(p, count)
  BY <1>4 DEF ReadBackCount
<1>5. CASE q = ReadCounter(p)
  BY <1>5 DEF ReadCounter
<1> QED
  BY <1>1, <1>2, <1>3, <1>4, <1>5

(* The accesses that only latch or read move no count.                     *)
LEMMA ReadingKeeps ==
    ASSUME Fields0(pit), Fields2(pit2), PitLatch0 \/ PitReadBack \/ PitRead \/ PitLatch2
    PROVE  /\ Fields0(pit') /\ SameCount0(pit, pit')
           /\ Fields2(pit2') /\ SameCount2(pit2, pit2')
           /\ UNCHANGED <<pitSpeaker, pitClocks, pitIrqs, pitWritten, pitGateRun>>
<1>1. CASE PitLatch0
  BY <1>1, Latching0, Latching2 DEF PitLatch0
<1>2. CASE PitReadBack
  <2>1. \E out, null, count : pit' \in {pit, ReadBackStatus(pit, out, null), ReadBackCount(pit, count)}
    BY <1>2 DEF PitReadBack
  <2>2. \E out, null, count : pit2' \in {pit2, ReadBackStatus(pit2, out, null), ReadBackCount(pit2, count)}
    BY <1>2 DEF PitReadBack
  <2> QED
    BY <1>2, <2>1, <2>2, Latching0, Latching2 DEF PitReadBack
<1>3. CASE PitRead
  BY <1>3, Latching0, Latching2 DEF PitRead
<1>4. CASE PitLatch2
  BY <1>4, Latching0, Latching2 DEF PitLatch2
<1> QED
  BY <1>1, <1>2, <1>3, <1>4
-----------------------------------------------------------------------------
(* The inductive invariant of the timer, in parts.                         *)

PitForm ==
    /\ Fields0(pit) /\ Fields2(pit2) /\ FieldsSpeaker(pitSpeaker)
    /\ pitWritten \in [{0, 2} -> Nat]

PitKinds ==
    /\ pit.reload \in Nat /\ pit.nextReload \in Nat /\ pit.writeLow \in Nat
    /\ pit.mode \in PitModes /\ pit.load \in Nat /\ pit.acc \in Nat
    /\ pitClocks \in Nat /\ pit.load <= pitClocks /\ pitIrqs \in Nat
    /\ pit2.mode \in PitModes /\ pit2.gate \in BOOLEAN /\ pit2.writeLow \in Nat
    /\ pit2.access \in PitAccess
    /\ pit2.load \in Int /\ pit2.gateElapsed \in Int /\ pitGateRun \in Nat

(* A count waiting for the end of a period is the last one written, and    *)
(* counter 2 and the speaker are at the same byte of a count.              *)
CountsInv ==
    /\ CountsInForce
    /\ pit.nextPending => ~ pit.cwArmed /\ pit.nextReload = pitWritten[0]
    /\ pitSpeaker.access = pit2.access

(* The interrupts, the accumulator and the armed one-shot are where the    *)
(* clocks since the load say, for each kind of mode.                       *)
PeriodicInv ==
    pitIrqs = PitElapsed \div EffectiveReload(pit) /\ pit.acc = PitElapsed % EffectiveReload(pit)

OneShotInv ==
    /\ pitIrqs = IF PitElapsed >= EffectiveReload(pit) THEN 1 ELSE 0
    /\ pit.irqArmed <=> PitElapsed < EffectiveReload(pit)

ElapsedInv ==
    ~ pit.cwArmed =>
        /\ IsPeriodic(pit.mode) => PeriodicInv
        /\ pit.mode \in {0, 4} => OneShotInv
        /\ pit.mode \in {1, 5} => pitIrqs = 0 /\ ~ pit.irqArmed

PitInv == PitForm /\ PitKinds /\ CountsInv /\ ElapsedInv /\ GatePauses

LEMMA ReloadPositive ==
    ASSUME NEW c, c.reload \in Nat
    PROVE  EffectiveReload(c) \in Nat \ {0}
<1>1. PitWrap \in Nat \ {0}
  BY PitAssumption DEF PitWrap
<1> QED
  BY <1>1 DEF EffectiveReload, EffectiveCount

LEMMA CountIsNatural ==
    ASSUME NEW c, c.writeLow \in Nat, NEW byte \in PitBytes
    PROVE  CountOf(c, byte) \in Nat
<1>1. byte \in Nat /\ PitByte \in Nat
  BY PitAssumption DEF PitBytes
<1>2. byte * PitByte \in Nat
  BY <1>1
<1> QED
  BY <1>1, <1>2 DEF CountOf

(* VddPitAddClocks, branch by branch.                                      *)
SamePending == pit'.nextPending = pit.nextPending /\ pit'.nextReload = pit.nextReload

SameSetting == pit'.mode = pit.mode /\ pit'.cwArmed = pit.cwArmed /\ pit'.writeLow = pit.writeLow

OneShotTick(clocks) ==
    /\ pit'.reload = pit.reload /\ pit'.load = pit.load /\ pit'.acc = 0 /\ SamePending
    /\ pit'.irqArmed <=> pit.irqArmed /\ PitElapsed + clocks < EffectiveReload(pit)
    /\ pitIrqs' = pitIrqs + (IF pit.irqArmed /\ PitElapsed + clocks >= EffectiveReload(pit)
                               THEN 1 ELSE 0)

PeriodsTick(clocks) ==
    /\ pit'.reload = pit.reload /\ pit'.load = pit.load /\ SamePending
    /\ pit'.irqArmed = pit.irqArmed
    /\ pit'.acc = (pit.acc + clocks) % EffectiveReload(pit)
    /\ pitIrqs' = pitIrqs + (pit.acc + clocks) \div EffectiveReload(pit)

PendingTick(clocks) ==
    /\ pit'.reload = pit.nextReload /\ ~ pit'.nextPending
    /\ pit'.nextReload = pit.nextReload /\ pit'.irqArmed = pit.irqArmed
    /\ pit'.load = pitClocks + clocks - (pit.acc + clocks - EffectiveReload(pit))
    /\ pit'.acc = (pit.acc + clocks - EffectiveReload(pit)) % EffectiveReload(pit')
    /\ pitIrqs' = (pit.acc + clocks - EffectiveReload(pit)) \div EffectiveReload(pit')

PendingDue(clocks) == pit.nextPending /\ pit.acc + clocks >= EffectiveReload(pit)

LEMMA AddClocksIs ==
    ASSUME PitForm, PitKinds, NEW clocks \in Nat, VddPitAddClocks(clocks)
    PROVE  /\ Fields0(pit') /\ SameSetting /\ pitClocks' = pitClocks + clocks
           /\ ~ IsPeriodic(pit.mode) => OneShotTick(clocks)
           /\ IsPeriodic(pit.mode) /\ ~ PendingDue(clocks) => PeriodsTick(clocks)
           /\ IsPeriodic(pit.mode) /\ PendingDue(clocks) => PendingTick(clocks)
<1> DEFINE r == EffectiveReload(pit)
           isDue == pit.irqArmed /\ PitElapsed + clocks >= r
<1>1. r \in Nat \ {0} /\ PitElapsed \in Nat
  BY ReloadPositive DEF PitKinds, PitElapsed
<1>2. CASE ~ IsPeriodic(pit.mode)
  <2>1. /\ pit' = [pit EXCEPT !.acc = 0, !.irqArmed = @ /\ ~ isDue]
        /\ pitIrqs' = pitIrqs + (IF isDue THEN 1 ELSE 0) /\ pitClocks' = pitClocks + clocks
    BY <1>2 DEF VddPitAddClocks
  <2>2. PitElapsed + clocks < r <=> ~ (PitElapsed + clocks >= r)
    BY <1>1
  <2>3. Fields0(pit') /\ SameSetting /\ SamePending
        /\ pit'.reload = pit.reload /\ pit'.load = pit.load /\ pit'.acc = 0
    BY <2>1 DEF PitForm, Fields0, SameSetting, SamePending
  <2>4. pit'.irqArmed = (pit.irqArmed /\ ~ isDue)
    BY <2>1 DEF PitForm, Fields0
  <2> QED
    BY <1>2, <2>1, <2>2, <2>3, <2>4 DEF OneShotTick
<1>3. CASE IsPeriodic(pit.mode) /\ ~ (pit.nextPending /\ pit.acc + clocks >= r)
  <2>1. /\ pit' = [pit EXCEPT !.acc = (pit.acc + clocks) % r]
        /\ pitIrqs' = pitIrqs + ((pit.acc + clocks) \div r) /\ pitClocks' = pitClocks + clocks
    BY <1>3 DEF VddPitAddClocks
  <2> HIDE DEF r
  <2>2. Fields0(pit') /\ SameSetting /\ SamePending
        /\ pit'.reload = pit.reload /\ pit'.load = pit.load /\ pit'.irqArmed = pit.irqArmed
        /\ pit'.acc = (pit.acc + clocks) % r
    BY <2>1 DEF PitForm, Fields0, SameSetting, SamePending
  <2> QED
    BY <1>3, <2>1, <2>2 DEF r, PeriodsTick, PendingDue
<1>4. CASE IsPeriodic(pit.mode) /\ pit.nextPending /\ pit.acc + clocks >= r
  <2>0. PICK acc, rel, next : /\ acc = pit.acc + clocks /\ rel = EffectiveReload(pit)
                              /\ next = EffectiveCount(pit.nextReload)
    OBVIOUS
  <2>1. acc \in Nat /\ rel \in Nat /\ acc >= rel /\ next \in Nat \ {0}
        /\ pit.acc \in Nat /\ pitClocks \in Nat
    <3>1. next = EffectiveReload([reload |-> pit.nextReload])
      BY <2>0 DEF EffectiveReload
    <3>2. next \in Nat \ {0}
      BY <3>1, ReloadPositive DEF PitKinds
    <3> QED
      BY <1>1, <1>4, <2>0, <3>2 DEF PitKinds
  <2>2. pitIrqs' = (acc - rel) \div next
    BY <1>4, <2>0, <2>1 DEF VddPitAddClocks
  <2>3. pitClocks' = pitClocks + clocks
    BY DEF VddPitAddClocks
  <2>4. pit' = [pit EXCEPT !.acc = (acc - rel) % next, !.reload = pit.nextReload,
                           !.nextPending = FALSE, !.load = pitClocks + clocks - (acc - rel)]
    BY <1>4, <2>0, <2>1 DEF VddPitAddClocks
  <2>5. /\ Fields0(pit') /\ SameSetting
        /\ pit'.reload = pit.nextReload /\ pit'.load = pitClocks + clocks - (acc - rel)
        /\ pit'.irqArmed = pit.irqArmed /\ pit'.acc = (acc - rel) % next /\ ~ pit'.nextPending
        /\ pit'.nextReload = pit.nextReload
    BY <2>4 DEF PitForm, Fields0, SameSetting
  <2>6. EffectiveReload(pit') = next
    BY <2>0, <2>5 DEF EffectiveReload
  <2>7. pitIrqs' = (pit.acc + clocks - EffectiveReload(pit)) \div EffectiveReload(pit')
    BY <2>0, <2>1, <2>2, <2>6
  <2>8. pit'.acc = (pit.acc + clocks - EffectiveReload(pit)) % EffectiveReload(pit')
    BY <2>0, <2>1, <2>5, <2>6
  <2>9. pit'.load = pitClocks + clocks - (pit.acc + clocks - EffectiveReload(pit))
    BY <2>0, <2>1, <2>5
  <2> QED
    BY <1>4, <2>3, <2>5, <2>7, <2>8, <2>9 DEF PendingTick, PendingDue
<1> QED
  BY <1>2, <1>3, <1>4 DEF PendingDue

(* The crystal.                                                            *)
LEMMA TickKeeps ==
    ASSUME PitInv, PitTick
    PROVE  PitInv'
<1>0. PitForm /\ PitKinds /\ CountsInv /\ ElapsedInv /\ GatePauses
  BY DEF PitInv
<1>1. PICK clocks \in 1 .. MaxSyncClocks :
        /\ VddPitAddClocks(clocks)
        /\ pitGateRun' = pitGateRun + (IF pit2.gate THEN clocks ELSE 0)
        /\ UNCHANGED <<pit2, pitSpeaker, pitWritten>>
  BY DEF PitTick
<1>2. clocks \in Nat
  BY <1>1, PitAssumption
<1>3. /\ Fields0(pit') /\ SameSetting /\ pitClocks' = pitClocks + clocks
      /\ ~ IsPeriodic(pit.mode) => OneShotTick(clocks)
      /\ IsPeriodic(pit.mode) /\ ~ PendingDue(clocks) => PeriodsTick(clocks)
      /\ IsPeriodic(pit.mode) /\ PendingDue(clocks) => PendingTick(clocks)
  BY <1>0, <1>1, <1>2, AddClocksIs
<1>4. PitForm'
  BY <1>0, <1>1, <1>3 DEF PitForm
<1>5. PitElapsed \in Nat /\ EffectiveReload(pit) \in Nat \ {0} /\ pit.acc \in Nat
      /\ pitIrqs \in Nat /\ pitClocks \in Nat /\ pit.load \in Nat /\ pit.load <= pitClocks
  BY <1>0, ReloadPositive DEF PitKinds, PitElapsed
<1>6. GatePauses' /\ pitGateRun' \in Nat
  <2>1. GatePauses'
    <3>1. pitClocks' - pit2.load = (pitClocks - pit2.load) + clocks
      BY <1>0, <1>2, <1>3 DEF PitKinds
    <3>2. CASE pit2.gate
      BY <1>0, <1>1, <3>1, <3>2 DEF GatePauses, PitCounterElapsed
    <3>3. CASE ~ pit2.gate
      BY <1>0, <1>1, <1>2, <3>3 DEF GatePauses, PitCounterElapsed, PitKinds
    <3> QED
      BY <3>2, <3>3
  <2>2. pitGateRun' \in Nat
    BY <1>0, <1>1, <1>2 DEF PitKinds
  <2> QED
    BY <2>1, <2>2
<1>7. CASE ~ IsPeriodic(pit.mode)
  <2>1. OneShotTick(clocks)
    BY <1>3, <1>7
  <2>2. PitElapsed' = PitElapsed + clocks /\ EffectiveReload(pit)' = EffectiveReload(pit)
    BY <1>2, <1>3, <1>5, <2>1 DEF OneShotTick, PitElapsed, EffectiveReload
  <2>3. PitKinds'
    BY <1>0, <1>1, <1>2, <1>3, <1>5, <1>6, <2>1 DEF PitKinds, OneShotTick, SameSetting, SamePending
  <2>4. CountsInv'
    BY <1>0, <1>1, <1>3, <2>1
       DEF CountsInv, CountsInForce, NullCount0, OneShotTick, SameSetting, SamePending
  <2>5. ElapsedInv'
    <3>1. CASE pit.mode \in {0, 4}
      BY <1>0, <1>2, <1>3, <1>5, <2>1, <2>2, <3>1
         DEF ElapsedInv, OneShotInv, OneShotTick, SameSetting, IsPeriodic
    <3>2. CASE pit.mode \in {1, 5}
      BY <1>0, <1>2, <1>3, <1>5, <2>1, <2>2, <3>2
         DEF ElapsedInv, OneShotTick, SameSetting, IsPeriodic
    <3> QED
      BY <1>0, <1>7, <3>1, <3>2 DEF PitKinds, PitModes, IsPeriodic
  <2> QED
    BY <1>4, <1>6, <2>3, <2>4, <2>5 DEF PitInv
<1>8. CASE IsPeriodic(pit.mode) /\ ~ PendingDue(clocks)
  <2>1. PeriodsTick(clocks)
    BY <1>3, <1>8
  <2>2. PitElapsed' = PitElapsed + clocks /\ EffectiveReload(pit)' = EffectiveReload(pit)
    BY <1>2, <1>3, <1>5, <2>1 DEF PeriodsTick, PitElapsed, EffectiveReload
  <2>3. pit'.acc \in Nat /\ pitIrqs' \in Nat
    <3>1. pit.acc + clocks \in Nat
      BY <1>2, <1>5
    <3>2. (pit.acc + clocks) \div EffectiveReload(pit) \in Nat
          /\ (pit.acc + clocks) % EffectiveReload(pit) \in Nat
      BY <1>5, <3>1, DivNat
    <3> QED
      BY <1>5, <2>1, <3>2 DEF PeriodsTick
  <2>4. PitKinds'
    BY <1>0, <1>1, <1>2, <1>3, <1>5, <1>6, <2>1, <2>3 DEF PitKinds, PeriodsTick, SameSetting, SamePending
  <2>5. CountsInv'
    BY <1>0, <1>1, <1>3, <2>1
       DEF CountsInv, CountsInForce, NullCount0, PeriodsTick, SameSetting, SamePending
  <2>6. ~ pit.cwArmed => PeriodicInv'
    <3> SUFFICES ASSUME ~ pit.cwArmed PROVE PeriodicInv'
      OBVIOUS
    <3>1. PeriodicInv
      BY <1>0, <1>8 DEF ElapsedInv
    <3> DEFINE e == PitElapsed
               r == EffectiveReload(pit)
    <3>2. e \in Nat /\ r \in Nat \ {0} /\ pit.acc = e % r /\ pitIrqs = e \div r
      BY <1>5, <3>1 DEF PeriodicInv
    <3>3. pit'.acc = (pit.acc + clocks) % r /\ pitIrqs' = pitIrqs + ((pit.acc + clocks) \div r)
      BY <2>1 DEF PeriodsTick
    <3>4. PitElapsed' = e + clocks /\ EffectiveReload(pit)' = r
      BY <2>2
    <3> HIDE DEF e, r
    <3>5. (e + clocks) % r = ((e % r) + clocks) % r /\ (e + clocks) \div r = (e \div r) + (((e % r) + clocks) \div r)
      BY <1>2, <3>2, DivAdvance
    <3>6. pit'.acc = (e + clocks) % r /\ pitIrqs' = (e + clocks) \div r
      BY <3>2, <3>3, <3>5
    <3> QED
      BY <3>4, <3>6 DEF PeriodicInv
  <2>7. ElapsedInv'
    BY <1>3, <1>8, <2>6 DEF ElapsedInv, SameSetting, IsPeriodic
  <2> QED
    BY <1>4, <1>6, <2>4, <2>5, <2>7 DEF PitInv
<1>9. CASE IsPeriodic(pit.mode) /\ PendingDue(clocks)
  <2>1. PendingTick(clocks) /\ pit.nextPending /\ pit.acc + clocks >= EffectiveReload(pit)
    BY <1>3, <1>9 DEF PendingDue
  <2> DEFINE over == pit.acc + clocks - EffectiveReload(pit)
  <2>2. over \in Nat
    BY <1>2, <1>5, <2>1
  <2>3. pit.acc < EffectiveReload(pit)
    <3>1. ~ pit.cwArmed
      BY <1>0, <2>1 DEF CountsInv
    <3>2. pit.acc = PitElapsed % EffectiveReload(pit)
      BY <1>0, <1>9, <3>1 DEF ElapsedInv, PeriodicInv
    <3> QED
      BY <1>5, <3>2, DivNat
  <2>4. pit'.load = pitClocks + clocks - over /\ pit'.load \in Nat /\ PitElapsed' = over
        /\ pit'.load <= pitClocks'
    BY <1>2, <1>3, <1>5, <2>1, <2>2, <2>3 DEF PendingTick, PitElapsed
  <2>5. pit'.reload \in Nat
    BY <1>0, <2>1 DEF PitKinds, PendingTick
  <2>6. EffectiveReload(pit') \in Nat \ {0}
    BY <2>5, ReloadPositive
  <2>7. pitIrqs' = over \div EffectiveReload(pit') /\ pit'.acc = over % EffectiveReload(pit')
    BY <2>1 DEF PendingTick
  <2>8. pit'.acc \in Nat /\ pitIrqs' \in Nat
    BY <2>2, <2>6, <2>7, DivNat
  <2> HIDE DEF over
  <2>9. PitKinds'
    BY <1>0, <1>1, <1>2, <1>3, <1>5, <1>6, <2>1, <2>4, <2>8 DEF PitKinds, PendingTick, SameSetting
  <2>10. CountsInv'
    BY <1>0, <1>1, <1>3, <2>1
       DEF CountsInv, CountsInForce, NullCount0, PendingTick, SameSetting
  <2>11. PeriodicInv'
    BY <2>4, <2>7 DEF PeriodicInv, EffectiveReload
  <2>12. ElapsedInv'
    BY <1>3, <1>9, <2>11 DEF ElapsedInv, SameSetting, IsPeriodic
  <2> QED
    BY <1>4, <1>6, <2>9, <2>10, <2>12 DEF PitInv
<1> QED
  BY <1>7, <1>8, <1>9

(* Counter 0's ports.                                                      *)
LEMMA Control0Keeps ==
    ASSUME PitInv, PitControl0
    PROVE  PitInv'
<1>0. PitForm /\ PitKinds /\ CountsInv /\ ElapsedInv /\ GatePauses
  BY DEF PitInv
<1>1. PICK access \in PitAccess, mode \in GuestModes :
        pit' = [pit EXCEPT !.access = access, !.mode = mode, !.writeHighNext = FALSE,
                           !.cwArmed = TRUE, !.nextPending = FALSE, !.irqArmed = FALSE]
  BY DEF PitControl0
<1>2. UNCHANGED <<pit2, pitSpeaker, pitClocks, pitIrqs, pitWritten, pitGateRun>>
  BY DEF PitControl0
<1>3. /\ Fields0(pit') /\ pit'.cwArmed /\ ~ pit'.nextPending /\ pit'.mode \in PitModes
      /\ pit'.reload = pit.reload /\ pit'.nextReload = pit.nextReload /\ pit'.writeLow = pit.writeLow
      /\ pit'.load = pit.load /\ pit'.acc = pit.acc
  BY <1>0, <1>1, PitAssumption DEF PitForm, Fields0, PitModes
<1>4. PitForm' /\ GatePauses'
  BY <1>0, <1>2, <1>3 DEF PitForm, GatePauses, PitCounterElapsed
<1>5. PitKinds'
  BY <1>0, <1>2, <1>3 DEF PitKinds
<1>6. CountsInv' /\ ElapsedInv'
  BY <1>0, <1>2, <1>3 DEF CountsInv, CountsInForce, NullCount0, ElapsedInv
<1> QED
  BY <1>4, <1>5, <1>6 DEF PitInv

LEMMA LoadKeeps ==
    ASSUME PitInv, NEW count \in Nat, PitLoad(count), pitWritten' = [pitWritten EXCEPT ![0] = count],
           UNCHANGED <<pit2, pitSpeaker, pitClocks, pitGateRun>>
    PROVE  PitInv'
<1>0. PitForm /\ PitKinds /\ CountsInv /\ ElapsedInv /\ GatePauses
  BY DEF PitInv
<1>1. pitWritten'[0] = count /\ pitWritten'[2] = pitWritten[2]
      /\ pitWritten' \in [{0, 2} -> Nat]
  BY <1>0 DEF PitForm
<1>2. GatePauses'
  BY <1>0 DEF GatePauses, PitCounterElapsed
<1>3. CASE IsPeriodic(pit.mode) /\ ~ pit.cwArmed
  <2>1. pit' = [pit EXCEPT !.nextReload = count, !.nextPending = TRUE, !.writeHighNext = FALSE]
        /\ UNCHANGED pitIrqs
    BY <1>3 DEF PitLoad
  <2>2. /\ Fields0(pit') /\ pit'.nextPending /\ pit'.nextReload = count
        /\ pit'.reload = pit.reload /\ pit'.writeLow = pit.writeLow /\ pit'.mode = pit.mode
        /\ pit'.load = pit.load /\ pit'.acc = pit.acc /\ pit'.cwArmed = pit.cwArmed
    BY <1>0, <2>1 DEF PitForm, Fields0
  <2>3. PitForm' /\ PitKinds'
    BY <1>0, <1>1, <2>1, <2>2 DEF PitForm, PitKinds
  <2>4. CountsInv'
    BY <1>0, <1>1, <1>3, <2>2 DEF CountsInv, CountsInForce, NullCount0
  <2>5. PeriodicInv
    BY <1>0, <1>3 DEF ElapsedInv
  <2>6. PeriodicInv'
    BY <2>1, <2>2, <2>5 DEF PeriodicInv, PitElapsed, EffectiveReload
  <2>7. ElapsedInv'
    BY <1>3, <2>2, <2>6 DEF ElapsedInv, IsPeriodic
  <2> QED
    BY <1>2, <2>3, <2>4, <2>7 DEF PitInv
<1>4. CASE ~ (IsPeriodic(pit.mode) /\ ~ pit.cwArmed)
  <2>1. /\ pit' = [pit EXCEPT !.reload = count, !.load = pitClocks, !.acc = 0, !.cwArmed = FALSE,
                              !.nextPending = FALSE, !.irqArmed = pit.mode \in {0, 4},
                              !.writeHighNext = FALSE]
        /\ pitIrqs' = 0
    BY <1>4 DEF PitLoad
  <2>2. /\ Fields0(pit') /\ ~ pit'.nextPending /\ pit'.reload = count /\ pit'.load = pitClocks
        /\ pit'.acc = 0 /\ ~ pit'.cwArmed /\ pit'.mode = pit.mode
        /\ pit'.nextReload = pit.nextReload /\ pit'.writeLow = pit.writeLow
        /\ pit'.irqArmed = (pit.mode \in {0, 4})
    BY <1>0, <2>1 DEF PitForm, Fields0
  <2>3. PitForm' /\ PitKinds'
    BY <1>0, <1>1, <2>1, <2>2 DEF PitForm, PitKinds
  <2>4. CountsInv'
    BY <1>0, <1>1, <2>2 DEF CountsInv, CountsInForce, NullCount0
  <2>5. PitElapsed' = 0 /\ EffectiveReload(pit') \in Nat \ {0}
    BY <1>0, <2>2, ReloadPositive DEF PitElapsed, PitKinds
  <2>6. 0 \div EffectiveReload(pit') = 0 /\ 0 % EffectiveReload(pit') = 0
    BY <2>5, DivUnique
  <2>7. pit'.irqArmed <=> pit.mode \in {0, 4}
    BY <2>2, Zenon
  <2>8. PeriodicInv'
    BY <2>1, <2>2, <2>5, <2>6 DEF PeriodicInv, EffectiveReload
  <2>9. PitElapsed' >= EffectiveReload(pit)' <=> FALSE
    BY <2>5
  <2>10. PitElapsed' < EffectiveReload(pit)'
    BY <2>5
  <2>11. pit.mode \in {0, 4} => OneShotInv'
    BY <2>1, <2>7, <2>9, <2>10 DEF OneShotInv
  <2>12. ElapsedInv'
    BY <2>1, <2>2, <2>8, <2>11, <2>7 DEF ElapsedInv, IsPeriodic
  <2> QED
    BY <1>2, <2>3, <2>4, <2>12 DEF PitInv
<1> QED
  BY <1>3, <1>4

LEMMA Write0Keeps ==
    ASSUME PitInv, PitWrite0
    PROVE  PitInv'
<1>0. PitForm /\ PitKinds /\ CountsInv /\ ElapsedInv /\ GatePauses
  BY DEF PitInv
<1>1. PICK byte \in PitBytes :
        IF IsCountComplete(pit)
        THEN /\ PitLoad(CountOf(pit, byte))
             /\ pitWritten' = [pitWritten EXCEPT ![0] = CountOf(pit, byte)]
        ELSE /\ pit' = [pit EXCEPT !.writeLow = byte, !.writeHighNext = TRUE]
             /\ UNCHANGED <<pitIrqs, pitWritten>>
  BY DEF PitWrite0
<1>2. UNCHANGED <<pit2, pitSpeaker, pitClocks, pitGateRun>>
  BY DEF PitWrite0
<1>3. CASE IsCountComplete(pit)
  <2>1. CountOf(pit, byte) \in Nat
    BY <1>0, CountIsNatural DEF PitKinds
  <2> QED
    BY <1>1, <1>2, <1>3, <2>1, LoadKeeps
<1>4. CASE ~ IsCountComplete(pit)
  <2>1. /\ pit' = [pit EXCEPT !.writeLow = byte, !.writeHighNext = TRUE]
        /\ UNCHANGED <<pitIrqs, pitWritten>>
    BY <1>1, <1>4
  <2>2. byte \in Nat
    BY PitAssumption DEF PitBytes
  <2>3. /\ Fields0(pit') /\ pit'.writeLow \in Nat /\ pit'.reload = pit.reload /\ pit'.mode = pit.mode
        /\ pit'.load = pit.load /\ pit'.acc = pit.acc /\ pit'.cwArmed = pit.cwArmed
        /\ pit'.nextPending = pit.nextPending /\ pit'.nextReload = pit.nextReload
        /\ pit'.irqArmed = pit.irqArmed
    BY <1>0, <2>1, <2>2 DEF PitForm, Fields0
  <2>4. PitForm' /\ PitKinds' /\ CountsInv' /\ GatePauses'
    BY <1>0, <1>2, <2>1, <2>3
       DEF PitForm, PitKinds, CountsInv, CountsInForce, NullCount0, GatePauses, PitCounterElapsed
  <2>5. ElapsedInv'
    BY <1>0, <1>2, <2>1, <2>3
       DEF ElapsedInv, PeriodicInv, OneShotInv, IsPeriodic, PitElapsed, EffectiveReload
  <2> QED
    BY <2>4, <2>5 DEF PitInv
<1> QED
  BY <1>3, <1>4

(* Latches, read-backs and reads.                                          *)
LEMMA ReadsKeep ==
    ASSUME PitInv, PitLatch0 \/ PitReadBack \/ PitRead \/ PitLatch2
    PROVE  PitInv'
<1>0. PitForm /\ PitKinds /\ CountsInv /\ ElapsedInv /\ GatePauses
  BY DEF PitInv
<1>1. /\ Fields0(pit') /\ SameCount0(pit, pit')
      /\ Fields2(pit2') /\ SameCount2(pit2, pit2')
      /\ UNCHANGED <<pitSpeaker, pitClocks, pitIrqs, pitWritten, pitGateRun>>
  BY <1>0, ReadingKeeps DEF PitForm
<1>2. PitForm' /\ PitKinds'
  BY <1>0, <1>1 DEF PitForm, PitKinds, SameCount0, SameCount2
<1>3. CountsInv' /\ GatePauses'
  BY <1>0, <1>1
     DEF CountsInv, CountsInForce, NullCount0, GatePauses, PitCounterElapsed, SameCount0, SameCount2
<1>4. ElapsedInv'
  BY <1>0, <1>1
     DEF ElapsedInv, PeriodicInv, OneShotInv, IsPeriodic, PitElapsed, EffectiveReload, SameCount0
<1> QED
  BY <1>2, <1>3, <1>4 DEF PitInv

(* Counter 2's ports and its gate.                                         *)
LEMMA Counter2Keeps ==
    ASSUME PitInv, Fields2(pit2'), FieldsSpeaker(pitSpeaker'), pitWritten' \in [{0, 2} -> Nat],
           UNCHANGED <<pit, pitClocks, pitIrqs>>, pitWritten'[0] = pitWritten[0],
           pit2'.mode \in PitModes, pit2'.gate \in BOOLEAN, pit2'.writeLow \in Nat,
           pit2'.access \in PitAccess,
           pit2'.load \in Int, pit2'.gateElapsed \in Int, pitGateRun' \in Nat,
           ~ pit2'.nullCount => pit2'.reload = pitWritten'[2],
           pitSpeaker'.reload = pit2'.reload, pitSpeaker'.writeHighNext = pit2'.writeHighNext,
           pitSpeaker'.writeHighNext => pitSpeaker'.writeLow = pit2'.writeLow,
           pitSpeaker'.access = pit2'.access,
           GatePauses'
    PROVE  PitInv'
<1>0. PitForm /\ PitKinds /\ CountsInv /\ ElapsedInv
  BY DEF PitInv
<1>1. PitForm' /\ PitKinds'
  BY <1>0 DEF PitForm, PitKinds
<1>2. CountsInv'
  BY <1>0 DEF CountsInv, CountsInForce, NullCount0
<1>3. ElapsedInv'
  BY <1>0 DEF ElapsedInv, PeriodicInv, OneShotInv, IsPeriodic, PitElapsed, EffectiveReload
<1> QED
  BY <1>1, <1>2, <1>3 DEF PitInv

LEMMA CounterControlKeeps ==
    ASSUME PitInv, PitCounterControl
    PROVE  PitInv'
<1>0. PitForm /\ PitKinds /\ CountsInv /\ GatePauses
  BY DEF PitInv
<1>1. PICK access \in PitAccess, mode \in GuestModes :
        /\ pit2' = [pit2 EXCEPT !.access = access, !.mode = mode, !.triggered = FALSE,
                                !.writeHighNext = FALSE, !.nullCount = TRUE,
                                !.load = pitClocks, !.gateElapsed = 0]
        /\ pitSpeaker' = [pitSpeaker EXCEPT !.access = access, !.writeHighNext = FALSE]
  BY DEF PitCounterControl
<1>2. pitGateRun' = 0 /\ UNCHANGED <<pit, pitClocks, pitIrqs, pitWritten>>
  BY DEF PitCounterControl
<1>3. /\ Fields2(pit2') /\ pit2'.access = access /\ pit2'.mode = mode /\ ~ pit2'.writeHighNext
      /\ pit2'.writeHighNext = FALSE /\ pit2'.nullCount /\ pit2'.load = pitClocks
      /\ pit2'.gateElapsed = 0 /\ pit2'.gate = pit2.gate /\ pit2'.reload = pit2.reload
      /\ pit2'.writeLow = pit2.writeLow
  BY <1>0, <1>1 DEF PitForm, Fields2
<1>4. /\ FieldsSpeaker(pitSpeaker') /\ pitSpeaker'.access = access
      /\ pitSpeaker'.writeHighNext = FALSE /\ pitSpeaker'.reload = pitSpeaker.reload
  BY <1>0, <1>1 DEF PitForm, FieldsSpeaker
<1>5. mode \in PitModes
  BY PitAssumption DEF PitModes
<1>6. GatePauses'
  BY <1>0, <1>2, <1>3 DEF GatePauses, PitCounterElapsed, PitKinds
<1>7. pitSpeaker'.reload = pit2'.reload
  BY <1>0, <1>3, <1>4 DEF CountsInv, CountsInForce
<1>8. /\ pitWritten' \in [{0, 2} -> Nat] /\ pitWritten'[0] = pitWritten[0]
      /\ pit2'.mode \in PitModes /\ pit2'.gate \in BOOLEAN /\ pit2'.writeLow \in Nat /\ pit2'.access \in PitAccess
      /\ pit2'.load \in Int /\ pit2'.gateElapsed \in Int /\ pitGateRun' \in Nat
  BY <1>0, <1>2, <1>3, <1>5 DEF PitForm, PitKinds
<1>9. /\ pitSpeaker'.writeHighNext = pit2'.writeHighNext /\ ~ pitSpeaker'.writeHighNext
      /\ pitSpeaker'.access = pit2'.access
  BY <1>3, <1>4
<1> QED
  BY <1>2, <1>3, <1>4, <1>6, <1>7, <1>8, <1>9, Counter2Keeps

LEMMA Write2Keeps ==
    ASSUME PitInv, PitWrite2
    PROVE  PitInv'
<1>0. PitForm /\ PitKinds /\ CountsInv /\ GatePauses
  BY DEF PitInv
<1>1. PICK byte \in PitBytes :
        /\ pitSpeaker' = SpeakerWrite(byte)
        /\ IF IsCountComplete(pit2)
           THEN /\ pit2' = [pit2 EXCEPT !.reload = CountOf(pit2, byte), !.writeHighNext = FALSE,
                                        !.triggered = @ /\ pit2.mode \notin {1, 5},
                                        !.nullCount = FALSE, !.load = pitClocks,
                                        !.gateElapsed = 0]
                /\ pitWritten' = [pitWritten EXCEPT ![2] = CountOf(pit2, byte)]
                /\ pitGateRun' = 0
           ELSE /\ pit2' = [pit2 EXCEPT !.writeLow = byte, !.writeHighNext = TRUE]
                /\ UNCHANGED <<pitWritten, pitGateRun>>
  BY DEF PitWrite2
<1>2. UNCHANGED <<pit, pitClocks, pitIrqs>>
  BY DEF PitWrite2
<1>3. IsCountComplete(pitSpeaker) <=> IsCountComplete(pit2)
  BY <1>0 DEF CountsInv, CountsInForce, IsCountComplete
<1>4. pit2.mode \in PitModes /\ pit2.gate \in BOOLEAN /\ pitClocks \in Nat
      /\ pit2.load \in Int /\ pit2.gateElapsed \in Int /\ pitGateRun \in Nat
      /\ pitSpeaker.access = pit2.access /\ pit2.writeLow \in Nat
      /\ pit2.access \in PitAccess
  BY <1>0 DEF PitKinds, CountsInv
<1>5. CASE IsCountComplete(pit2)
  <2>1. PICK count : count = CountOf(pit2, byte)
    OBVIOUS
  <2>2. CountOf(pitSpeaker, byte) = count
    <3>1. CASE pit2.access # "lowhigh"
      BY <1>4, <2>1, <3>1 DEF CountOf, PitAccess
    <3>2. CASE pit2.access = "lowhigh"
      <4>1. pit2.writeHighNext
        BY <1>5, <3>2 DEF IsCountComplete
      <4>2. pitSpeaker.writeLow = pit2.writeLow
        BY <1>0, <4>1, Zenon DEF CountsInv, CountsInForce
      <4> QED
        BY <1>4, <2>1, <4>2, Zenon DEF CountOf
    <3> QED
      BY <3>1, <3>2
  <2>3. /\ pit2' = [pit2 EXCEPT !.reload = count, !.writeHighNext = FALSE,
                                !.triggered = @ /\ pit2.mode \notin {1, 5},
                                !.nullCount = FALSE, !.load = pitClocks, !.gateElapsed = 0]
        /\ pitWritten' = [pitWritten EXCEPT ![2] = count] /\ pitGateRun' = 0
    BY <1>1, <1>5, <2>1
  <2>4. pitSpeaker' = [pitSpeaker EXCEPT !.reload = count, !.writeHighNext = FALSE]
    BY <1>1, <1>3, <1>5, <2>2 DEF SpeakerWrite
  <2>5. /\ Fields2(pit2') /\ pit2'.reload = count /\ pit2'.writeHighNext = FALSE
        /\ pit2'.load = pitClocks /\ pit2'.gateElapsed = 0 /\ pit2'.gate = pit2.gate
        /\ pit2'.mode = pit2.mode /\ pit2'.access = pit2.access /\ pit2'.writeLow = pit2.writeLow
    BY <1>0, <2>3 DEF PitForm, Fields2
  <2>6. /\ FieldsSpeaker(pitSpeaker') /\ pitSpeaker'.reload = count
        /\ pitSpeaker'.writeHighNext = FALSE /\ pitSpeaker'.access = pitSpeaker.access
    BY <1>0, <2>4 DEF PitForm, FieldsSpeaker
  <2>7. count \in Nat
    BY <1>0, <2>1, CountIsNatural DEF PitKinds
  <2>8. pitWritten' \in [{0, 2} -> Nat] /\ pitWritten'[2] = count /\ pitWritten'[0] = pitWritten[0]
    BY <1>0, <2>3, <2>7 DEF PitForm
  <2>9. GatePauses'
    BY <1>2, <1>4, <2>3, <2>5 DEF GatePauses, PitCounterElapsed
  <2>10. /\ pit2'.mode \in PitModes /\ pit2'.gate \in BOOLEAN /\ pit2'.writeLow \in Nat /\ pit2'.access \in PitAccess
         /\ pit2'.load \in Int /\ pit2'.gateElapsed \in Int /\ pitGateRun' \in Nat
    BY <1>4, <2>3, <2>5
  <2>11. /\ pitSpeaker'.reload = pit2'.reload /\ pit2'.reload = pitWritten'[2]
         /\ pitSpeaker'.writeHighNext = pit2'.writeHighNext /\ ~ pitSpeaker'.writeHighNext
         /\ pitSpeaker'.access = pit2'.access
    BY <1>4, <2>5, <2>6, <2>8
  <2> QED
    BY <1>2, <2>5, <2>6, <2>8, <2>9, <2>10, <2>11, Counter2Keeps
<1>6. CASE ~ IsCountComplete(pit2)
  <2>1. /\ pit2' = [pit2 EXCEPT !.writeLow = byte, !.writeHighNext = TRUE]
        /\ pitSpeaker' = [pitSpeaker EXCEPT !.writeLow = byte, !.writeHighNext = TRUE]
        /\ UNCHANGED <<pitWritten, pitGateRun>>
    BY <1>1, <1>3, <1>6 DEF SpeakerWrite
  <2>2. /\ Fields2(pit2') /\ pit2'.reload = pit2.reload /\ pit2'.writeHighNext = TRUE
        /\ pit2'.writeLow = byte /\ pit2'.load = pit2.load /\ pit2'.gateElapsed = pit2.gateElapsed
        /\ pit2'.gate = pit2.gate /\ pit2'.mode = pit2.mode /\ pit2'.access = pit2.access
        /\ pit2'.nullCount = pit2.nullCount
    BY <1>0, <2>1 DEF PitForm, Fields2
  <2>3. /\ FieldsSpeaker(pitSpeaker') /\ pitSpeaker'.reload = pitSpeaker.reload
        /\ pitSpeaker'.writeHighNext = TRUE /\ pitSpeaker'.writeLow = byte
        /\ pitSpeaker'.access = pitSpeaker.access
    BY <1>0, <2>1 DEF PitForm, FieldsSpeaker
  <2>4. /\ ~ pit2'.nullCount => pit2'.reload = pitWritten'[2]
        /\ pitSpeaker'.reload = pit2'.reload
    BY <1>0, <2>1, <2>2, <2>3 DEF CountsInv, CountsInForce
  <2>5. GatePauses'
    BY <1>0, <1>2, <2>1, <2>2 DEF GatePauses, PitCounterElapsed
  <2>6. pitWritten' \in [{0, 2} -> Nat] /\ pitWritten'[0] = pitWritten[0] /\ byte \in Nat
    BY <1>0, <2>1, PitAssumption DEF PitForm, PitBytes
  <2> QED
    BY <1>2, <1>4, <2>1, <2>2, <2>3, <2>4, <2>5, <2>6, Counter2Keeps
<1> QED
  BY <1>5, <1>6

LEMMA GateKeeps ==
    ASSUME PitInv, VddPitCounter2Gate
    PROVE  PitInv'
<1>0. PitForm /\ PitKinds /\ CountsInv /\ GatePauses
  BY DEF PitInv
<1>1. UNCHANGED <<pit, pitSpeaker, pitClocks, pitIrqs, pitWritten, pitGateRun>>
  BY DEF VddPitCounter2Gate
<1>2. pit2.mode \in PitModes /\ pit2.gate \in BOOLEAN /\ pitClocks \in Nat /\ pit2.writeLow \in Nat
      /\ pit2.access \in PitAccess
      /\ pit2.load \in Int /\ pit2.gateElapsed \in Int /\ pitGateRun \in Nat
  BY <1>0 DEF PitKinds
<1>3. /\ FieldsSpeaker(pitSpeaker') /\ pitWritten' \in [{0, 2} -> Nat]
      /\ pitWritten'[0] = pitWritten[0] /\ pitSpeaker.access = pit2.access
  BY <1>0, <1>1 DEF PitForm, CountsInv
<1>4. SUFFICES /\ Fields2(pit2') /\ pit2'.mode = pit2.mode /\ pit2'.gate \in BOOLEAN
               /\ pit2'.load \in Int /\ pit2'.gateElapsed \in Int
               /\ pit2'.nullCount = pit2.nullCount /\ pit2'.reload = pit2.reload
               /\ pit2'.writeHighNext = pit2.writeHighNext /\ pit2'.writeLow = pit2.writeLow
               /\ pit2'.access = pit2.access /\ GatePauses'
  <2>1. /\ ~ pit2.nullCount => pit2.reload = pitWritten[2]
        /\ pitSpeaker.reload = pit2.reload /\ pitSpeaker.writeHighNext = pit2.writeHighNext
        /\ pitSpeaker.writeHighNext => pitSpeaker.writeLow = pit2.writeLow
    BY <1>0 DEF CountsInv, CountsInForce
  <2> QED
    BY <1>1, <1>2, <1>3, <2>1, Counter2Keeps
<1>5. CASE pit2.gate
  <2>1. PICK elapsed : elapsed = IF pit2.mode \in {1, 5} THEN pit2.gateElapsed ELSE PitCounterElapsed
    OBVIOUS
  <2>2. elapsed \in Int /\ (pit2.mode \in {0, 4} => elapsed = pitClocks - pit2.load)
    BY <1>2, <1>5, <2>1 DEF PitCounterElapsed
  <2>3. pit2' = [pit2 EXCEPT !.gate = FALSE, !.gateElapsed = elapsed]
    BY <1>5, <2>1 DEF VddPitCounter2Gate, GateFall
  <2>4. /\ Fields2(pit2') /\ pit2'.mode = pit2.mode /\ pit2'.gate = FALSE
        /\ pit2'.load = pit2.load /\ pit2'.gateElapsed = elapsed
        /\ pit2'.nullCount = pit2.nullCount /\ pit2'.reload = pit2.reload
        /\ pit2'.writeHighNext = pit2.writeHighNext /\ pit2'.writeLow = pit2.writeLow
        /\ pit2'.access = pit2.access
    BY <1>0, <2>3 DEF PitForm, Fields2
  <2>5. GatePauses'
    BY <1>0, <1>1, <1>5, <2>2, <2>4 DEF GatePauses, PitCounterElapsed
  <2> QED
    BY <1>2, <2>2, <2>4, <2>5
<1>6. CASE ~ pit2.gate
  <2>1. PICK load : load = IF pit2.mode \in {0, 4} THEN pitClocks - pit2.gateElapsed ELSE pitClocks
    OBVIOUS
  <2>2. load \in Int /\ (pit2.mode \in {0, 4} => pitClocks - load = pit2.gateElapsed)
    BY <1>2, <2>1
  <2>3. pit2' = [pit2 EXCEPT !.gate = TRUE, !.triggered = @ \/ pit2.mode \in {1, 5}, !.load = load]
    BY <1>6, <2>1 DEF VddPitCounter2Gate, GateRise
  <2>4. /\ Fields2(pit2') /\ pit2'.mode = pit2.mode /\ pit2'.gate = TRUE
        /\ pit2'.load = load /\ pit2'.gateElapsed = pit2.gateElapsed
        /\ pit2'.nullCount = pit2.nullCount /\ pit2'.reload = pit2.reload
        /\ pit2'.writeHighNext = pit2.writeHighNext /\ pit2'.writeLow = pit2.writeLow
        /\ pit2'.access = pit2.access
    BY <1>0, <2>3 DEF PitForm, Fields2
  <2>5. GatePauses'
    BY <1>0, <1>1, <1>6, <2>2, <2>4 DEF GatePauses, PitCounterElapsed
  <2> QED
    BY <1>2, <2>2, <2>4, <2>5
<1> QED
  BY <1>5, <1>6

LEMMA PitStep ==
    ASSUME PitInv, [PitNext]_pitVars
    PROVE  PitInv'
<1>1. CASE UNCHANGED pitVars
  <2> USE <1>1 DEF pitVars
  <2>1. PitForm' /\ PitKinds' /\ CountsInv' /\ GatePauses'
    BY DEF PitInv, PitForm, PitKinds, CountsInv, CountsInForce, NullCount0, GatePauses, PitCounterElapsed
  <2>2. ElapsedInv'
    BY DEF PitInv, ElapsedInv, PeriodicInv, OneShotInv, PitElapsed
  <2> QED
    BY <2>1, <2>2 DEF PitInv
<1> QED
  BY <1>1, TickKeeps, Control0Keeps, Write0Keeps, ReadsKeep, CounterControlKeeps, Write2Keeps, GateKeeps
     DEF PitNext

LEMMA PitStarts ==
    ASSUME PitInit
    PROVE  PitInv
<1>1. PitForm /\ PitKinds
  BY DEF PitInit, PitForm, PitKinds, Fields0, Fields2, FieldsSpeaker, PitModes, PitAccess
<1>2. CountsInv /\ GatePauses
  BY DEF PitInit, CountsInv, CountsInForce, NullCount0, GatePauses, PitCounterElapsed
<1>3. ElapsedInv
  <2>1. PitElapsed = 0 /\ EffectiveReload(pit) \in Nat \ {0}
    BY <1>1, ReloadPositive DEF PitInit, PitElapsed, PitKinds
  <2>2. 0 \div EffectiveReload(pit) = 0 /\ 0 % EffectiveReload(pit) = 0
    BY <2>1, DivUnique
  <2>3. PeriodicInv
    BY <2>1, <2>2 DEF PitInit, PeriodicInv
  <2> QED
    BY <2>3 DEF PitInit, ElapsedInv, IsPeriodic
<1> QED
  BY <1>1, <1>2, <1>3 DEF PitInv

(* The inductive invariant of the timer: types, the modes a counter can    *)
(* have, the counts in force, the interrupts and the gate of counter 2.    *)
THEOREM PitCorrect == PitSpec => []PitInv
  BY PitStarts, PitStep, PTL DEF PitSpec

(* For every reload, every mode and however the crystal's clocks are       *)
(* split: the interrupts raised since the count in force was loaded are    *)
(* those of the clocks the read-back is computed from (VddPitAddClocks,    *)
(* PitCurrentCount, PitLoad).                                              *)
THEOREM PitIrqsExact == PitSpec => []IrqsMatchElapsed
<1>1. PitInv => IrqsMatchElapsed
  BY DEF PitInv, PitKinds, PitModes, ElapsedInv, PeriodicInv, OneShotInv, IrqsMatchElapsed, IsPeriodic
<1> QED
  BY <1>1, PitCorrect, PTL

(* Every view of a count agrees on the count in force: the reload, the one *)
(* waiting for its period, the last the guest wrote in full and the        *)
(* speaker's own copy (PitPortOutLocked, PitCounterWriteCount).            *)
THEOREM PitCountsAgree == PitSpec => []CountsInForce
<1>1. PitInv => CountsInForce
  BY DEF PitInv, CountsInv
<1> QED
  BY <1>1, PitCorrect, PTL

(* Counter 2 counts the clocks its gate was high, whatever rises, falls,   *)
(* control words and counts come between (VddPitCounter2Gate).             *)
THEOREM PitGateExact == PitSpec => []GatePauses
<1>1. PitInv => GatePauses
  BY DEF PitInv
<1> QED
  BY <1>1, PitCorrect, PTL

-----------------------------------------------------------------------------
(* The keyboard controller.                                                *)

Controllers ==
    [queue : Seq(ScanCodes), last : ScanCodes \cup {NoByte}, irqUp : BOOLEAN, hold : BOOLEAN,
     owed : BOOLEAN, auxQueue : Seq(AuxBytes), auxUp : BOOLEAN, keyboardOff : BOOLEAN,
     auxOff : BOOLEAN, command : Pending, reply : BOOLEAN, expects : BOOLEAN,
     missed : BOOLEAN, refused : BOOLEAN, eager : BOOLEAN, translated : BOOLEAN]

(* While the guest has read every answer before it wrote the next command: *)
(* the mouse has refused nothing, it queues j bytes at most and, behind    *)
(* one packet that it may have streamed, nothing but an answer.            *)
HasRoom(k, j) ==
    ~ k.eager => /\ ~ k.refused /\ Len(k.auxQueue) <= j
                 /\ \A i \in 4 .. Len(k.auxQueue) : k.auxQueue[i] \in Answers

(* A byte announced is there, and its transfer is over; the queues fit; a  *)
(* byte owed to the BIOS is one it has not translated; the mouse's queue   *)
(* holds a packet and an answer.                                           *)
Sound(k) ==
    /\ k \in Controllers
    /\ Len(k.queue) <= ScanCodeQueueSize - 1 /\ Len(k.auxQueue) <= AuxQueueSize - 1
    /\ k.irqUp => k.queue # << >> /\ ~ k.hold
    /\ k.auxUp => k.auxQueue # << >>
    /\ k.owed => ~ k.translated /\ k.last \in ScanCodes
    /\ HasRoom(k, 7)

(* What two states of the controller have in common.                       *)
SameKeys(k, n) == n.queue = k.queue /\ n.last = k.last /\ (n.owed <=> k.owed) /\ (n.missed <=> k.missed)

SameMouse(k, n) == n.auxQueue = k.auxQueue /\ (n.auxUp <=> k.auxUp)

LEMMA QueueLen ==
    ASSUME NEW S, NEW q \in Seq(S)
    PROVE  /\ Len(q) \in Nat /\ (q = << >> <=> Len(q) = 0)
           /\ q # << >> => Head(q) \in S /\ Tail(q) \in Seq(S) /\ Len(Tail(q)) = Len(q) - 1
           /\ \A x \in S : Append(q, x) \in Seq(S) /\ Len(Append(q, x)) = Len(q) + 1
           /\ \A x \in S : q # << >> => Head(Append(q, x)) = Head(q)
  OBVIOUS

LEMMA AuxPollIs ==
    ASSUME NEW k, Sound(k)
    PROVE  LET n == InputAuxPoll(k)
           IN /\ Sound(n) /\ SameKeys(k, n) /\ n.auxQueue = k.auxQueue
              /\ (n.irqUp <=> k.irqUp) /\ (n.hold <=> k.hold) /\ (n.reply <=> k.reply)
              /\ k.auxUp => n = k
              /\ n.auxUp => k.auxUp \/ InputAuxAvailable(k)
<1>1. CASE k.auxUp \/ ~ InputAuxAvailable(k)
  BY <1>1 DEF InputAuxPoll, SameKeys
<1>2. CASE ~ (k.auxUp \/ ~ InputAuxAvailable(k))
  <2> DEFINE n == [k EXCEPT !.auxUp = TRUE]
  <2>1. InputAuxPoll(k) = n
    BY <1>2 DEF InputAuxPoll
  <2>2. k.auxQueue # << >>
    BY <1>2 DEF InputAuxAvailable
  <2>3. Sound(n) /\ SameKeys(k, n)
    BY <2>2 DEF Sound, HasRoom, Controllers, SameKeys
  <2>4. n.auxQueue = k.auxQueue /\ (n.irqUp <=> k.irqUp) /\ (n.hold <=> k.hold) /\ (n.reply <=> k.reply)
    BY DEF Sound, Controllers
  <2> QED
    BY <1>2, <2>1, <2>3, <2>4
<1> QED
  BY <1>1, <1>2

LEMMA KeyPollIs ==
    ASSUME NEW k, Sound(k)
    PROVE  LET n == InputKeyboardPoll(k)
           IN /\ Sound(n) /\ SameMouse(k, n)
              /\ n.queue = k.queue /\ n.last = k.last
              /\ (n.hold <=> k.hold) /\ (n.reply <=> k.reply)
              /\ k.irqUp => n = k
              /\ (n.irqUp <=> k.irqUp \/ InputScanCodeAvailable(k))
              /\ k.missed => n.missed
              /\ ~ n.missed => SameKeys(k, n)
              /\ ~ k.owed => SameKeys(k, n)
<1>1. CASE k.irqUp \/ ~ InputScanCodeAvailable(k)
  BY <1>1 DEF InputKeyboardPoll, SameKeys, SameMouse
<1>2. CASE ~ (k.irqUp \/ ~ InputScanCodeAvailable(k))
  <2> DEFINE n == [k EXCEPT !.irqUp = TRUE, !.owed = FALSE, !.missed = @ \/ k.owed]
  <2>1. InputKeyboardPoll(k) = n
    BY <1>2 DEF InputKeyboardPoll
  <2>2. k.queue # << >> /\ ~ k.hold
    BY <1>2 DEF InputScanCodeAvailable
  <2>3. k \in Controllers
    BY DEF Sound
  <2>4. n \in Controllers
    <3>1. k.missed \in BOOLEAN /\ k.owed \in BOOLEAN
      BY <2>3 DEF Controllers
    <3>2. PICK x \in BOOLEAN : x = (k.missed \/ k.owed)
      OBVIOUS
    <3>3. n = [k EXCEPT !.irqUp = TRUE, !.owed = FALSE, !.missed = x]
      BY <2>3, <3>2 DEF Controllers
    <3> HIDE DEF n
    <3> QED
      BY <2>3, <3>3 DEF Controllers
  <2>5. /\ n.irqUp /\ ~ n.owed /\ (n.missed <=> k.missed \/ k.owed)
        /\ n.queue = k.queue /\ n.last = k.last /\ n.auxQueue = k.auxQueue /\ (n.auxUp <=> k.auxUp)
        /\ (n.hold <=> k.hold) /\ (n.reply <=> k.reply) /\ (n.refused <=> k.refused) /\ (n.eager <=> k.eager)
    BY <2>3 DEF Controllers
  <2>6. Sound(n)
    BY <2>2, <2>4, <2>5 DEF Sound, HasRoom
  <2> QED
    BY <1>2, <2>1, <2>5, <2>6 DEF SameKeys, SameMouse
<1> QED
  BY <1>1, <1>2

LEMMA PollIs ==
    ASSUME NEW k, Sound(k)
    PROVE  LET n == VddInputPoll(k)
           IN /\ Sound(n) /\ n.queue = k.queue /\ n.last = k.last /\ n.auxQueue = k.auxQueue
              /\ (n.hold <=> k.hold) /\ (n.reply <=> k.reply)
              /\ (n.irqUp <=> k.irqUp \/ InputScanCodeAvailable(k))
              /\ k.irqUp /\ k.auxUp => n = k
              /\ k.auxUp => n.auxUp
              /\ n.auxUp /\ (k.irqUp \/ InputScanCodeAvailable(k)) => k.auxUp
              /\ k.missed => n.missed
              /\ ~ n.missed => SameKeys(k, n)
              /\ k.irqUp \/ ~ k.owed => SameKeys(k, n)
<1>1. PICK c : c = InputKeyboardPoll(k)
  OBVIOUS
<1>2. /\ Sound(c) /\ SameMouse(k, c) /\ c.queue = k.queue /\ c.last = k.last
      /\ (c.hold <=> k.hold) /\ (c.reply <=> k.reply)
      /\ k.irqUp => c = k
      /\ (c.irqUp <=> k.irqUp \/ InputScanCodeAvailable(k))
      /\ k.missed => c.missed
      /\ ~ c.missed => SameKeys(k, c)
      /\ ~ k.owed => SameKeys(k, c)
  BY <1>1, KeyPollIs
<1>3. PICK n : n = InputAuxPoll(c)
  OBVIOUS
<1>4. /\ Sound(n) /\ SameKeys(c, n) /\ n.auxQueue = c.auxQueue
      /\ (n.irqUp <=> c.irqUp) /\ (n.hold <=> c.hold) /\ (n.reply <=> c.reply)
      /\ c.auxUp => n = c
      /\ n.auxUp => c.auxUp \/ InputAuxAvailable(c)
  BY <1>2, <1>3, AuxPollIs
<1>5. c.irqUp /\ InputAuxAvailable(c) => c.auxUp
  BY DEF InputAuxAvailable
<1>6. n = VddInputPoll(k)
  BY <1>1, <1>3 DEF VddInputPoll
<1> HIDE <1>1, <1>3
<1> QED
  BY <1>2, <1>4, <1>5, <1>6 DEF SameKeys, SameMouse

LEMMA QueueByteIs ==
    ASSUME NEW k, Sound(k), NEW b \in ScanCodes
    PROVE  LET n == QueueByte(k, b)
           IN /\ Sound(n) /\ SameMouse(k, n) /\ n.last = k.last /\ (n.owed <=> k.owed)
              /\ n.queue # << >>
              /\ (n.irqUp <=> k.irqUp) /\ (n.hold <=> k.hold) /\ (n.reply <=> k.reply)
              /\ (n.keyboardOff <=> k.keyboardOff) /\ (n.auxOff <=> k.auxOff)
              /\ k.missed => n.missed
              /\ ~ n.missed => n.queue = Append(k.queue, b)
              /\ ~ n.missed /\ k.queue # << >> => Head(n.queue) = Head(k.queue)
<1>1. k \in Controllers /\ k.queue \in Seq(ScanCodes)
  BY DEF Sound, Controllers
<1>2. Len(k.queue) \in Nat /\ ScanCodeQueueSize \in Nat \ {0, 1}
  BY <1>1, QueueLen, KeyboardAssumption
<1>3. CASE IsQueueFull(k)
  <2> DEFINE n == [k EXCEPT !.queue = Append(Tail(@), b), !.missed = @ \/ TRUE]
  <2>1. QueueByte(k, b) = n
    BY <1>3 DEF QueueByte
  <2>2. k.queue # << >>
    BY <1>1, <1>2, <1>3, QueueLen DEF IsQueueFull
  <2>3. Append(Tail(k.queue), b) \in Seq(ScanCodes) /\ Len(Append(Tail(k.queue), b)) = Len(k.queue)
        /\ Append(Tail(k.queue), b) # << >>
    BY <1>1, <1>2, <2>2, QueueLen
  <2>4. PICK q : q = Append(Tail(k.queue), b)
    OBVIOUS
  <2>5. n = [k EXCEPT !.queue = q, !.missed = TRUE]
    BY <1>1, <2>4 DEF Controllers
  <2>6. [k EXCEPT !.queue = q, !.missed = TRUE] \in Controllers
    BY <1>1, <2>3, <2>4 DEF Controllers
  <2> HIDE DEF n
  <2>7. /\ n.queue = q /\ n.missed /\ n.last = k.last /\ n.auxQueue = k.auxQueue
        /\ (n.auxUp <=> k.auxUp) /\ (n.irqUp <=> k.irqUp) /\ (n.hold <=> k.hold)
        /\ (n.reply <=> k.reply) /\ (n.owed <=> k.owed) /\ (n.refused <=> k.refused) /\ (n.eager <=> k.eager)
        /\ (n.keyboardOff <=> k.keyboardOff) /\ (n.auxOff <=> k.auxOff)
        /\ (n.translated <=> k.translated)
    BY <1>1, <2>5 DEF Controllers
  <2>8. Sound(n)
    BY <2>2, <2>3, <2>4, <2>5, <2>6, <2>7 DEF Sound, HasRoom
  <2> QED
    BY <2>1, <2>3, <2>4, <2>7, <2>8 DEF SameMouse
<1>4. CASE ~ IsQueueFull(k)
  <2> DEFINE n == [k EXCEPT !.queue = Append(@, b), !.missed = @ \/ FALSE]
  <2>1. QueueByte(k, b) = n
    BY <1>4 DEF QueueByte
  <2>3. Append(k.queue, b) \in Seq(ScanCodes) /\ Len(Append(k.queue, b)) = Len(k.queue) + 1
        /\ Append(k.queue, b) # << >>
        /\ (k.queue # << >> => Head(Append(k.queue, b)) = Head(k.queue))
    BY <1>1, <1>2, QueueLen
  <2>4. PICK q : q = Append(k.queue, b)
    OBVIOUS
  <2>5. n = [k EXCEPT !.queue = q]
    BY <1>1, <2>4 DEF Controllers
  <2>6. [k EXCEPT !.queue = q] \in Controllers
    BY <1>1, <2>3, <2>4 DEF Controllers
  <2> HIDE DEF n
  <2>7. /\ n.queue = q /\ (n.missed <=> k.missed) /\ n.last = k.last /\ n.auxQueue = k.auxQueue
        /\ (n.auxUp <=> k.auxUp) /\ (n.irqUp <=> k.irqUp) /\ (n.hold <=> k.hold)
        /\ (n.reply <=> k.reply) /\ (n.owed <=> k.owed) /\ (n.refused <=> k.refused) /\ (n.eager <=> k.eager)
        /\ (n.keyboardOff <=> k.keyboardOff) /\ (n.auxOff <=> k.auxOff)
        /\ (n.translated <=> k.translated)
    BY <1>1, <2>5 DEF Controllers
  <2>8. Len(q) <= ScanCodeQueueSize - 1
    BY <1>2, <1>4, <2>3, <2>4 DEF IsQueueFull, Sound
  <2>9. Sound(n)
    BY <2>3, <2>4, <2>5, <2>6, <2>7, <2>8 DEF Sound, HasRoom
  <2> QED
    BY <2>1, <2>3, <2>4, <2>7, <2>9 DEF SameMouse
<1> QED
  BY <1>3, <1>4

(* One byte from the keyboard, or several under one lock: unless a byte is *)
(* lost, they are the queue's last bytes, and what is announced stays so.  *)
Presents(k, n) ==
    /\ (n.reply <=> k.reply)
    /\ k.auxUp => /\ n.auxUp /\ n.auxQueue = k.auxQueue /\ (n.irqUp <=> k.irqUp)
    /\ k.irqUp => /\ n.irqUp /\ (n.auxUp <=> k.auxUp)
                  /\ n.missed \/ Head(n.queue) = Head(k.queue)

LEMMA PushIs ==
    ASSUME NEW k, Sound(k), NEW b \in ScanCodes
    PROVE  LET n == VddInputPushScanCode(k, b)
           IN /\ Sound(n) /\ Presents(k, n) /\ n.auxQueue = k.auxQueue
              /\ k.missed => n.missed
              /\ ~ n.missed => /\ n.queue = Append(k.queue, b) /\ n.last = k.last
                               /\ (n.owed <=> k.owed)
<1>1. PICK c : c = QueueByte(k, b)
  OBVIOUS
<1>2. /\ Sound(c) /\ SameMouse(k, c) /\ c.last = k.last /\ (c.owed <=> k.owed)
      /\ c.queue # << >>
      /\ (c.irqUp <=> k.irqUp) /\ (c.hold <=> k.hold) /\ (c.reply <=> k.reply)
      /\ k.missed => c.missed
      /\ ~ c.missed => c.queue = Append(k.queue, b)
      /\ ~ c.missed /\ k.queue # << >> => Head(c.queue) = Head(k.queue)
  BY <1>1, QueueByteIs
<1>3. k.irqUp => k.queue # << >>
  BY DEF Sound
<1>4. CASE k.queue = << >>
  <2>1. PICK n : n = VddInputPoll(c)
    OBVIOUS
  <2>2. n = VddInputPushScanCode(k, b)
    BY <1>1, <1>4, <2>1 DEF VddInputPushScanCode
  <2>3. /\ Sound(n) /\ n.queue = c.queue /\ n.last = c.last /\ n.auxQueue = c.auxQueue
        /\ (n.hold <=> c.hold) /\ (n.reply <=> c.reply)
        /\ (n.irqUp <=> c.irqUp \/ InputScanCodeAvailable(c))
        /\ c.irqUp /\ c.auxUp => n = c
        /\ c.auxUp => n.auxUp
        /\ c.missed => n.missed
        /\ ~ n.missed => SameKeys(c, n)
    BY <1>2, <2>1, PollIs
  <2>4. c.auxUp /\ InputScanCodeAvailable(c) => c.irqUp
    BY DEF InputScanCodeAvailable
  <2>5. ~ k.irqUp
    BY <1>3, <1>4
  <2> HIDE <1>1, <2>1
  <2>6. Presents(k, n)
    BY <1>2, <2>3, <2>4, <2>5 DEF Presents, SameMouse
  <2> QED
    BY <1>2, <2>2, <2>3, <2>6 DEF SameKeys, SameMouse
<1>5. CASE k.queue # << >>
  <2>1. c = VddInputPushScanCode(k, b)
    BY <1>1, <1>5 DEF VddInputPushScanCode
  <2> HIDE <1>1
  <2> QED
    BY <1>2, <1>5, <2>1 DEF Presents, SameMouse
<1> QED
  BY <1>4, <1>5

LEMMA PopIs ==
    ASSUME NEW k, Sound(k), InputScanCodeAvailable(k)
    PROVE  LET n == InputScanCodePop(k)
           IN /\ n \in Controllers
              /\ k.queue \in Seq(ScanCodes) /\ k.queue # << >>
              /\ n.queue = Tail(k.queue) /\ n.last = Head(k.queue) /\ n.last \in ScanCodes
              /\ Len(n.queue) <= ScanCodeQueueSize - 1
              /\ ~ n.irqUp /\ SameMouse(k, n)
              /\ (n.owed <=> k.owed) /\ (n.missed <=> k.missed) /\ (n.refused <=> k.refused) /\ (n.eager <=> k.eager)
<1>1. k \in Controllers /\ k.queue \in Seq(ScanCodes) /\ k.queue # << >>
  BY DEF Sound, Controllers, InputScanCodeAvailable
<1>2. PICK q, x : q = Tail(k.queue) /\ x = Head(k.queue)
  OBVIOUS
<1>3. q \in Seq(ScanCodes) /\ x \in ScanCodes /\ Len(q) = Len(k.queue) - 1 /\ Len(k.queue) \in Nat
  BY <1>1, <1>2, QueueLen
<1> DEFINE n == [k EXCEPT !.queue = q, !.last = x, !.irqUp = FALSE, !.hold = TRUE]
<1>4. n = InputScanCodePop(k)
  BY <1>1, <1>2 DEF InputScanCodePop, Controllers
<1>5. n \in Controllers
  BY <1>1, <1>3 DEF Controllers
<1>6. /\ n.queue = q /\ n.last = x /\ ~ n.irqUp /\ SameMouse(k, n)
      /\ (n.owed <=> k.owed) /\ (n.missed <=> k.missed) /\ (n.refused <=> k.refused) /\ (n.eager <=> k.eager)
  BY <1>1 DEF Controllers, SameMouse
<1>7. Len(q) <= ScanCodeQueueSize - 1
  BY <1>3, KeyboardAssumption DEF Sound
<1> HIDE DEF n
<1> QED
  BY <1>1, <1>2, <1>3, <1>4, <1>5, <1>6, <1>7

(* Several bytes under one lock.  The recursive function is shown to       *)
(* exist, by the least number of bytes for which it would not.             *)
PutByte(device, k, b) ==
    IF device = "keyboard" THEN VddInputPushScanCode(k, b) ELSE AuxPush(k, b)

Puts(f, n, device, k, bytes) ==
    f = [i \in 0 .. n |-> IF i = 0 THEN k ELSE PutByte(device, f[i - 1], bytes[i])]

LEMMA PutsExist ==
    ASSUME NEW n \in Nat, NEW device, NEW k, NEW bytes
    PROVE  \E f : Puts(f, n, device, k, bytes)
<1> DEFINE Fits(m, f) == f = [i \in 0 .. m |-> IF i = 0 THEN k ELSE PutByte(device, f[i - 1], bytes[i])]
           Bad == {m \in Nat : ~ \E f : Fits(m, f)}
<1>1. \E f : Fits(0, f)
  <2> DEFINE f == [i \in 0 .. 0 |-> k]
  <2>1. Fits(0, f)
    OBVIOUS
  <2> QED
    BY <2>1
<1>2. ASSUME NEW m \in Nat, \E f : Fits(m, f)
      PROVE  \E f : Fits(m + 1, f)
  <2>1. PICK f : Fits(m, f)
    BY <1>2
  <2> DEFINE g == [i \in 0 .. m + 1 |-> IF i = m + 1 THEN PutByte(device, f[m], bytes[m + 1]) ELSE f[i]]
  <2>2. ASSUME NEW i \in 0 .. m + 1
        PROVE  g[i] = IF i = 0 THEN k ELSE PutByte(device, g[i - 1], bytes[i])
    <3>1. CASE i = m + 1
      <4>1. i # 0 /\ i - 1 = m /\ g[m] = f[m]
        BY <3>1
      <4> QED
        BY <3>1, <4>1
    <3>2. CASE i # m + 1 /\ i # 0
      <4>1. i \in 0 .. m /\ i - 1 \in 0 .. m /\ g[i] = f[i] /\ g[i - 1] = f[i - 1]
        BY <3>2
      <4> QED
        BY <2>1, <3>2, <4>1
    <3>3. CASE i = 0
      BY <2>1, <3>3
    <3> QED
      BY <3>1, <3>2, <3>3
  <2>3. Fits(m + 1, g)
    <3> HIDE DEF g
    <3>1. g = [i \in 0 .. m + 1 |-> g[i]]
      BY DEF g
    <3> QED
      BY <2>2, <3>1
  <2> QED
    BY <2>3
<1> HIDE DEF Fits
<1>3. Bad = {}
  <2> SUFFICES ASSUME Bad # {} PROVE FALSE
    OBVIOUS
  <2>1. PICK m \in Bad : \A i \in Bad : m <= i
    BY LeastNatural
  <2>2. m \in Nat /\ m # 0
    BY <1>1, <2>1
  <2>3. m - 1 \in Nat /\ ~ (m - 1 \in Bad)
    BY <2>1, <2>2
  <2>4. \E f : Fits(m - 1 + 1, f)
    BY <1>2, <2>3
  <2> QED
    BY <2>1, <2>2, <2>4
<1> QED
  BY <1>3 DEF Fits, Puts

LEMMA PushesAre ==
    ASSUME NEW k, NEW bytes \in Seq(ScanCodes)
    PROVE  \E c : /\ c[0] = k /\ PushBytes(k, bytes) = c[Len(bytes)]
                  /\ \A i \in 1 .. Len(bytes) : c[i] = VddInputPushScanCode(c[i - 1], bytes[i])
<1>1. Len(bytes) \in Nat
  BY QueueLen
<1>2. PICK f : Puts(f, Len(bytes), "keyboard", k, bytes)
  BY <1>1, PutsExist
<1>3. f = [i \in 0 .. Len(bytes) |-> IF i = 0 THEN k ELSE VddInputPushScanCode(f[i - 1], bytes[i])]
  BY <1>2 DEF Puts, PutByte
<1>4. PICK c : /\ c = [i \in 0 .. Len(bytes) |->
                         IF i = 0 THEN k ELSE VddInputPushScanCode(c[i - 1], bytes[i])]
               /\ PushBytes(k, bytes) = c[Len(bytes)]
  BY <1>3 DEF PushBytes
<1>5. ASSUME NEW i \in 1 .. Len(bytes)
      PROVE  c[i] = VddInputPushScanCode(c[i - 1], bytes[i])
  <2>1. i \in 0 .. Len(bytes) /\ i # 0
    BY <1>1
  <2> QED
    BY <1>4, <2>1, Zenon
<1>6. c[0] = k
  BY <1>1, <1>4
<1> QED
  BY <1>4, <1>5, <1>6

AuxPushed(c, k, bytes) ==
    /\ c[0] = k /\ AuxPushAll(k, bytes) = c[Len(bytes)]
    /\ \A i \in 1 .. Len(bytes) : c[i] = AuxPush(c[i - 1], bytes[i])

LEMMA AuxPushesAre ==
    ASSUME NEW k, NEW bytes \in Seq(AuxBytes)
    PROVE  \E c : AuxPushed(c, k, bytes)
<1>1. Len(bytes) \in Nat
  BY QueueLen
<1>2. PICK f : Puts(f, Len(bytes), "mouse", k, bytes)
  BY <1>1, PutsExist
<1>3. f = [i \in 0 .. Len(bytes) |-> IF i = 0 THEN k ELSE AuxPush(f[i - 1], bytes[i])]
  BY <1>2 DEF Puts, PutByte
<1>4. PICK c : /\ c = [i \in 0 .. Len(bytes) |-> IF i = 0 THEN k ELSE AuxPush(c[i - 1], bytes[i])]
               /\ AuxPushAll(k, bytes) = c[Len(bytes)]
  BY <1>3 DEF AuxPushAll
<1>5. ASSUME NEW i \in 1 .. Len(bytes)
      PROVE  c[i] = AuxPush(c[i - 1], bytes[i])
  <2>1. i \in 0 .. Len(bytes) /\ i # 0
    BY <1>1
  <2> QED
    BY <1>4, <2>1, Zenon
<1>6. c[0] = k
  BY <1>1, <1>4
<1>7. AuxPushed(c, k, bytes)
  BY <1>4, <1>5, <1>6 DEF AuxPushed
<1> QED
  BY <1>7

-----------------------------------------------------------------------------
(* The mouse's queue: a byte is refused only when it is full.              *)
AuxGrown(k, n) ==
    /\ n \in Controllers /\ SameKeys(k, n)
    /\ (n.irqUp <=> k.irqUp) /\ (n.hold <=> k.hold) /\ (n.reply <=> k.reply)
    /\ (n.auxUp <=> k.auxUp) /\ (n.translated <=> k.translated) /\ (n.eager <=> k.eager)
    /\ n.auxQueue # << >> \/ k.auxQueue = << >>
    /\ Len(n.auxQueue) <= AuxQueueSize - 1

LEMMA AuxPushIs ==
    ASSUME NEW k \in Controllers, Len(k.auxQueue) <= AuxQueueSize - 1, NEW b \in AuxBytes
    PROVE  LET n == AuxPush(k, b)
           IN /\ AuxGrown(k, n)
              /\ Len(k.auxQueue) < AuxQueueSize - 1 =>
                    (n.refused <=> k.refused) /\ n.auxQueue = Append(k.auxQueue, b)
<1>1. k.auxQueue \in Seq(AuxBytes) /\ Len(k.auxQueue) \in Nat /\ AuxQueueSize \in Nat
  BY QueueLen, KeyboardAssumption DEF Controllers
<1>2. CASE Len(k.auxQueue) = AuxQueueSize - 1
  <2> DEFINE n == [k EXCEPT !.refused = TRUE]
  <2>1. n = AuxPush(k, b)
    BY <1>2 DEF AuxPush
  <2>2. n \in Controllers
    BY DEF Controllers
  <2>3. /\ n.auxQueue = k.auxQueue /\ SameKeys(k, n)
        /\ (n.irqUp <=> k.irqUp) /\ (n.hold <=> k.hold) /\ (n.reply <=> k.reply)
        /\ (n.auxUp <=> k.auxUp) /\ (n.translated <=> k.translated) /\ (n.eager <=> k.eager)
    BY DEF Controllers, SameKeys
  <2> HIDE DEF n
  <2> QED
    BY <1>1, <1>2, <2>1, <2>2, <2>3 DEF AuxGrown
<1>3. CASE Len(k.auxQueue) # AuxQueueSize - 1
  <2>1. PICK q : q = Append(k.auxQueue, b)
    OBVIOUS
  <2>2. q \in Seq(AuxBytes) /\ Len(q) = Len(k.auxQueue) + 1 /\ q # << >>
    BY <1>1, <2>1, QueueLen
  <2> DEFINE n == [k EXCEPT !.auxQueue = q]
  <2>3. n = AuxPush(k, b)
    BY <1>3, <2>1 DEF AuxPush, Controllers
  <2>4. n \in Controllers
    BY <2>2 DEF Controllers
  <2>5. /\ n.auxQueue = q /\ SameKeys(k, n) /\ (n.refused <=> k.refused) /\ (n.eager <=> k.eager)
        /\ (n.irqUp <=> k.irqUp) /\ (n.hold <=> k.hold) /\ (n.reply <=> k.reply)
        /\ (n.auxUp <=> k.auxUp) /\ (n.translated <=> k.translated)
    BY DEF Controllers, SameKeys
  <2> HIDE DEF n
  <2> QED
    BY <1>1, <1>3, <2>1, <2>2, <2>3, <2>4, <2>5 DEF AuxGrown
<1> QED
  BY <1>2, <1>3

LEMMA AuxGrownSound ==
    ASSUME NEW k, Sound(k), NEW n, AuxGrown(k, n), HasRoom(n, 7)
    PROVE  Sound(n)
  BY DEF Sound, AuxGrown, SameKeys

LEMMA AuxGrownTwice ==
    ASSUME NEW k, NEW m, NEW n, AuxGrown(k, m), AuxGrown(m, n)
    PROVE  AuxGrown(k, n)
  BY DEF AuxGrown, SameKeys

(* One byte of an answer fits behind less than a packet and an answer.     *)
LEMMA AnswerFits ==
    ASSUME NEW k \in Controllers, Len(k.auxQueue) <= AuxQueueSize - 1,
           NEW j \in 3 .. 6, HasRoom(k, j), NEW b \in Answers
    PROVE  LET n == AuxPush(k, b) IN AuxGrown(k, n) /\ HasRoom(n, j + 1)
<1>1. PICK n : n = AuxPush(k, b)
  OBVIOUS
<1>2. /\ AuxGrown(k, n) /\ (n.eager <=> k.eager)
      /\ Len(k.auxQueue) < AuxQueueSize - 1 =>
            (n.refused <=> k.refused) /\ n.auxQueue = Append(k.auxQueue, b)
  BY <1>1, AuxPushIs DEF AuxBytes, AuxGrown
<1>3. k.auxQueue \in Seq(AuxBytes) /\ Len(k.auxQueue) \in Nat
  BY QueueLen DEF Controllers
<1>4. ASSUME ~ k.eager
      PROVE  ~ n.refused /\ Len(n.auxQueue) <= j + 1
             /\ \A i \in 4 .. Len(n.auxQueue) : n.auxQueue[i] \in Answers
  <2>1. ~ k.refused /\ Len(k.auxQueue) <= j /\ \A i \in 4 .. Len(k.auxQueue) : k.auxQueue[i] \in Answers
    BY <1>4 DEF HasRoom
  <2>2. ~ n.refused /\ n.auxQueue = Append(k.auxQueue, b)
    BY <1>2, <1>3, <2>1, KeyboardAssumption
  <2>3. /\ Len(n.auxQueue) = Len(k.auxQueue) + 1 /\ n.auxQueue[Len(k.auxQueue) + 1] = b
        /\ \A i \in 1 .. Len(k.auxQueue) : n.auxQueue[i] = k.auxQueue[i]
    BY <1>3, <2>2 DEF AuxBytes
  <2> QED
    BY <1>3, <2>1, <2>2, <2>3
<1> QED
  BY <1>1, <1>2, <1>4 DEF HasRoom

(* The answer to a command, of four bytes at most.                         *)
Replies == {<<"R">>, <<"R", "R">>, <<"R", "R", "R">>, <<"R", "R", "R", "R">>, <<"R", "D1", "D2", "D3">>}

LEMMA RepliesAre ==
    ASSUME NEW bytes \in Replies
    PROVE  /\ bytes \in Seq(AuxBytes) /\ Len(bytes) \in 1 .. 4
           /\ \A i \in 1 .. Len(bytes) : bytes[i] \in Answers
<1>1. "R" \in Answers /\ "D1" \in Answers /\ "D2" \in Answers /\ "D3" \in Answers /\ Answers \subseteq AuxBytes
  BY DEF Answers, AuxBytes
<1>2. CASE bytes = <<"R">>
  BY <1>1, <1>2
<1>3. CASE bytes = <<"R", "R">>
  BY <1>1, <1>3
<1>4. CASE bytes = <<"R", "R", "R">>
  BY <1>1, <1>4
<1>5. CASE bytes = <<"R", "R", "R", "R">>
  BY <1>1, <1>5
<1>6. CASE bytes = <<"R", "D1", "D2", "D3">>
  BY <1>1, <1>6
<1> QED
  BY <1>2, <1>3, <1>4, <1>5, <1>6 DEF Replies

LEMMA AnswerPushed ==
    ASSUME NEW k, Sound(k), HasRoom(k, 3), NEW bytes \in Replies
    PROVE  LET n == AuxPushAll(k, bytes) IN Sound(n) /\ SameKeys(k, n)
<1>1. bytes \in Seq(AuxBytes) /\ Len(bytes) \in 1 .. 4 /\ \A i \in 1 .. Len(bytes) : bytes[i] \in Answers
  BY RepliesAre
<1>2. PICK c : AuxPushed(c, k, bytes)
  BY <1>1, AuxPushesAre
<1> DEFINE Grown(m) == AuxGrown(k, c[m]) /\ HasRoom(c[m], m + 3)
<1>3. ASSUME NEW m \in 1 .. Len(bytes), m = 1 \/ Grown(m - 1)
      PROVE  Grown(m)
  <2>1. PICK p, n : p = c[m - 1] /\ n = c[m]
    OBVIOUS
  <2>2. n = AuxPush(p, bytes[m]) /\ bytes[m] \in Answers
    BY <1>1, <1>2, <2>1 DEF AuxPushed
  <2>3. m + 2 \in 3 .. 6 /\ (m + 2) + 1 = m + 3 /\ (m - 1) + 3 = m + 2
    BY <1>1
  <2>4. p \in Controllers /\ Len(p.auxQueue) <= AuxQueueSize - 1 /\ HasRoom(p, m + 2)
    <3>1. CASE m = 1
      <4>1. p = k /\ m + 2 = 3
        BY <1>2, <2>1, <3>1 DEF AuxPushed
      <4> QED
        BY <4>1 DEF Sound
    <3>2. CASE m # 1
      BY <1>3, <2>1, <2>3, <3>2 DEF AuxGrown
    <3> QED
      BY <3>1, <3>2
  <2>5. AuxGrown(p, n) /\ HasRoom(n, m + 3)
    BY <2>2, <2>3, <2>4, AnswerFits
  <2>6. AuxGrown(k, n)
    BY <1>2, <1>3, <2>1, <2>5, AuxGrownTwice DEF AuxPushed
  <2> QED
    BY <2>1, <2>5, <2>6
<1>4. Grown(Len(bytes))
  <2> HIDE DEF Grown
  <2>1. Grown(1)
    BY <1>1, <1>3
  <2>2. 2 \in 1 .. Len(bytes) => Grown(2)
    BY <1>1, <1>3, <2>1
  <2>3. 3 \in 1 .. Len(bytes) => Grown(3)
    BY <1>1, <1>3, <2>2
  <2>4. 4 \in 1 .. Len(bytes) => Grown(4)
    BY <1>1, <1>3, <2>3
  <2> QED
    BY <1>1, <2>1, <2>2, <2>3, <2>4
<1>5. PICK n : n = AuxPushAll(k, bytes)
  OBVIOUS
<1>6. AuxGrown(k, n) /\ HasRoom(n, Len(bytes) + 3)
  BY <1>2, <1>4, <1>5 DEF AuxPushed
<1>7. HasRoom(n, 7)
  <2>1. Len(n.auxQueue) \in Nat
    BY <1>6, QueueLen DEF AuxGrown, Controllers
  <2> QED
    BY <1>1, <1>6, <2>1 DEF HasRoom
<1> QED
  BY <1>5, <1>6, <1>7, AuxGrownSound DEF AuxGrown

(* A byte that fits.                                                       *)
LEMMA AuxFits ==
    ASSUME NEW k \in Controllers, NEW j \in 0 .. 2, Len(k.auxQueue) = j, NEW b \in AuxBytes, NEW n,
           n = AuxPush(k, b)
    PROVE  AuxGrown(k, n) /\ (n.refused <=> k.refused) /\ Len(n.auxQueue) = j + 1
<1>1. Len(k.auxQueue) <= AuxQueueSize - 1 /\ Len(k.auxQueue) < AuxQueueSize - 1
  BY KeyboardAssumption
<1>2. AuxGrown(k, n) /\ (n.refused <=> k.refused) /\ n.auxQueue = Append(k.auxQueue, b)
  BY <1>1, AuxPushIs
<1> QED
  BY <1>2, QueueLen DEF Controllers

(* A packet pushed into an empty queue.                                    *)
LEMMA PacketPushed ==
    ASSUME NEW k, Sound(k), Len(k.auxQueue) = 0
    PROVE  LET n == AuxPushAll(k, Packet)
           IN Sound(n) /\ SameKeys(k, n) /\ (n.irqUp <=> k.irqUp) /\ (n.hold <=> k.hold)
              /\ (n.reply <=> k.reply) /\ (n.auxUp <=> k.auxUp)
<1>1. Packet \in Seq(AuxBytes) /\ Len(Packet) = 3
      /\ Packet[1] \in AuxBytes /\ Packet[2] \in AuxBytes /\ Packet[3] \in AuxBytes
  <2>1. "P1" \in AuxBytes /\ "P2" \in AuxBytes /\ "P3" \in AuxBytes
    BY DEF AuxBytes
  <2>2. \A S : \A x, y, z \in S : <<x, y, z>> \in Seq(S)
    OBVIOUS
  <2>3. Packet \in Seq(AuxBytes)
    BY <2>1, <2>2, Zenon DEF Packet
  <2>4. Len(Packet) = 3 /\ Packet[1] = "P1" /\ Packet[2] = "P2" /\ Packet[3] = "P3"
    BY DEF Packet
  <2> QED
    BY <2>1, <2>3, <2>4
<1> HIDE DEF Packet
<1>2. PICK c : AuxPushed(c, k, Packet)
  BY <1>1, AuxPushesAre
<1>3. /\ c[1] = AuxPush(k, Packet[1]) /\ c[2] = AuxPush(c[1], Packet[2])
      /\ c[3] = AuxPush(c[2], Packet[3])
  <2>1. 1 \in 1 .. 3 /\ 2 \in 1 .. 3 /\ 3 \in 1 .. 3 /\ 1 - 1 = 0 /\ 2 - 1 = 1 /\ 3 - 1 = 2
    OBVIOUS
  <2> QED
    BY <1>1, <1>2, <2>1 DEF AuxPushed
<1>4. k \in Controllers
  BY DEF Sound
<1>5. AuxGrown(k, c[1]) /\ (c[1].refused <=> k.refused) /\ Len(c[1].auxQueue) = 1
  BY <1>1, <1>3, <1>4, AuxFits
<1>6. AuxGrown(c[1], c[2]) /\ (c[2].refused <=> k.refused) /\ Len(c[2].auxQueue) = 2
  BY <1>1, <1>3, <1>5, AuxFits DEF AuxGrown
<1>7. AuxGrown(c[2], c[3]) /\ (c[3].refused <=> k.refused) /\ Len(c[3].auxQueue) = 3
  BY <1>1, <1>3, <1>6, AuxFits DEF AuxGrown
<1>8. AuxGrown(k, c[3])
  BY <1>5, <1>6, <1>7, AuxGrownTwice
<1>9. HasRoom(c[3], 7)
  BY <1>7, <1>8 DEF AuxGrown, HasRoom, Sound
<1> QED
  BY <1>1, <1>2, <1>8, <1>9, AuxGrownSound DEF AuxGrown, AuxPushed

-----------------------------------------------------------------------------
(* The BIOS's view, and where a run of bytes takes it.                     *)

Views == [ext : BOOLEAN, e1 : 0 .. 2, left : BOOLEAN, right : BOOLEAN, pause : BOOLEAN]

LEMMA TranslateIs ==
    ASSUME NEW b \in Views, NEW x \in ScanCodes
    PROVE  InputBiosTranslate(b, x) \in Views
<1> DEFINE plain == [b EXCEPT !.ext = FALSE]
           n == InputBiosTranslate(b, x)
<1>1. CASE x \in {"Ack", "E0", "E1"}
  <2>1. CASE x = "Ack"
    BY <2>1 DEF InputBiosTranslate
  <2>2. CASE x = "E0"
    <3>1. n = [b EXCEPT !.ext = TRUE]
      BY <2>2 DEF InputBiosTranslate
    <3> QED
      BY <3>1 DEF Views
  <2>3. CASE x = "E1"
    <3>1. n = [plain EXCEPT !.e1 = 2]
      BY <2>3 DEF InputBiosTranslate, AfterE1
    <3>2. plain \in Views
      BY DEF Views
    <3>3. \A v \in Views : [v EXCEPT !.e1 = 2] \in Views
      BY DEF Views
    <3> QED
      BY <3>1, <3>2, <3>3
  <2> QED
    BY <1>1, <2>1, <2>2, <2>3
<1>2. CASE x \notin {"Ack", "E0", "E1"} /\ b.e1 > 0
  <2>1. n = [plain EXCEPT !.e1 = @ - 1, !.pause = @ \/ (b.e1 = 1 /\ x \in MakeCodes)]
    BY <1>2 DEF InputBiosTranslate
  <2>2. PICK p \in BOOLEAN : p <=> b.pause \/ (b.e1 = 1 /\ x \in MakeCodes)
    OBVIOUS
  <2>3. b.e1 - 1 \in 0 .. 2 /\ b.pause \in BOOLEAN
    BY <1>2 DEF Views
  <2>4. n = [[plain EXCEPT !.e1 = b.e1 - 1] EXCEPT !.pause = p]
    BY <2>1, <2>2, <2>3 DEF Views
  <2>5. [plain EXCEPT !.e1 = b.e1 - 1] \in Views
    BY <2>3 DEF Views
  <2> QED
    BY <2>4, <2>5 DEF Views
<1>3. CASE x \notin {"Ack", "E0", "E1"} /\ b.e1 = 0
  <2>1. CASE x \in {"CtrlDn", "CtrlUp"}
    <3>1. n = IF b.ext THEN [plain EXCEPT !.right = x = "CtrlDn"] ELSE [plain EXCEPT !.left = x = "CtrlDn"]
      BY <1>3, <2>1 DEF InputBiosTranslate
    <3>2. /\ x = "CtrlDn" => n = IF b.ext THEN [plain EXCEPT !.right = TRUE]
                                           ELSE [plain EXCEPT !.left = TRUE]
          /\ x = "CtrlUp" => n = IF b.ext THEN [plain EXCEPT !.right = FALSE]
                                           ELSE [plain EXCEPT !.left = FALSE]
      BY <3>1
    <3> QED
      BY <2>1, <3>2 DEF Views
  <2>2. CASE x = "NumDn"
    <3>1. n = [plain EXCEPT !.pause = @ \/ (~ b.ext /\ Ctrl(b))]
      BY <1>3, <2>2 DEF InputBiosTranslate
    <3> QED
      BY <3>1 DEF Views
  <2>3. CASE x = "KeyDn"
    <3>1. n = [plain EXCEPT !.pause = FALSE]
      BY <1>3, <2>3 DEF InputBiosTranslate
    <3> QED
      BY <3>1 DEF Views
  <2>4. CASE x \in {"NumUp", "ScrDn", "ScrUp", "KeyUp", "Id"}
    <3>1. n = plain
      BY <1>3, <2>4 DEF InputBiosTranslate
    <3> QED
      BY <3>1 DEF Views
  <2> QED
    BY <1>3, <2>1, <2>2, <2>3, <2>4 DEF ScanCodes
<1> QED
  BY <1>1, <1>2, <1>3 DEF Views

(* Between two runs of bytes: the flags are the keys down.                 *)
Matches(b, down) ==
    /\ (b.left <=> "left" \in down) /\ (b.right <=> "right" \in down)
    /\ ~ b.ext /\ b.e1 = 0

(* The first n bytes of q take the view b to e.                            *)
Steps(st, b, q, n, e) ==
    /\ st[0] = b /\ st[n] = e
    /\ \A i \in 0 .. n : st[i] \in Views
    /\ \A i \in 1 .. n : st[i] = InputBiosTranslate(st[i - 1], q[i])

Runs(b, q, n, e) == \E st : Steps(st, b, q, n, e)

LEMMA RunsNone ==
    ASSUME NEW b \in Views, NEW q
    PROVE  Runs(b, q, 0, b)
<1> DEFINE st == [i \in 0 .. 0 |-> b]
<1>1. Steps(st, b, q, 0, b)
  BY DEF Steps
<1> QED
  BY <1>1 DEF Runs

LEMMA RunsMore ==
    ASSUME NEW n \in Nat, NEW b, NEW e, NEW q, NEW r, Runs(b, q, n, e),
           \A i \in 1 .. n : r[i] = q[i], r[n + 1] \in ScanCodes
    PROVE  Runs(b, r, n + 1, InputBiosTranslate(e, r[n + 1]))
<1>1. PICK st : Steps(st, b, q, n, e)
  BY DEF Runs
<1>2. PICK f : f = InputBiosTranslate(e, r[n + 1])
  OBVIOUS
<1> DEFINE su == [i \in 0 .. n + 1 |-> IF i = n + 1 THEN f ELSE st[i]]
<1>3. f \in Views
  <2>1. e \in Views
    BY <1>1 DEF Steps
  <2> QED
    BY <1>2, <2>1, TranslateIs
<1>4. /\ su[0] = b /\ su[n] = e /\ su[n + 1] = f
      /\ \A i \in 0 .. n + 1 : su[i] \in Views
  BY <1>1, <1>3 DEF Steps
<1>5. ASSUME NEW i \in 1 .. n + 1
      PROVE  su[i] = InputBiosTranslate(su[i - 1], r[i])
  <2>1. CASE i = n + 1
    BY <1>2, <1>4, <2>1
  <2>2. CASE i # n + 1
    <3>1. i \in 1 .. n /\ su[i] = st[i] /\ su[i - 1] = st[i - 1] /\ r[i] = q[i]
      BY <2>2
    <3> QED
      BY <1>1, <3>1 DEF Steps
  <2> QED
    BY <2>1, <2>2
<1> HIDE DEF su
<1>6. Steps(su, b, r, n + 1, f)
  BY <1>4, <1>5 DEF Steps
<1> QED
  BY <1>2, <1>6 DEF Runs

(* A queue the BIOS has still to see.                                      *)
Leads(b, q, e) == Runs(b, q, Len(q), e)

LEMMA LeadsMore ==
    ASSUME NEW q \in Seq(ScanCodes), NEW x \in ScanCodes, NEW b, NEW e, Leads(b, q, e)
    PROVE  Leads(b, Append(q, x), InputBiosTranslate(e, x))
<1>1. PICK r : r = Append(q, x)
  OBVIOUS
<1>2. PICK n : n = Len(q)
  OBVIOUS
<1>3. /\ n \in Nat /\ Len(r) = n + 1 /\ r[n + 1] = x
      /\ \A i \in 1 .. n : r[i] = q[i]
  BY <1>1, <1>2
<1>4. Runs(b, q, n, e)
  BY <1>2 DEF Leads
<1>5. Runs(b, r, n + 1, InputBiosTranslate(e, r[n + 1]))
  BY <1>3, <1>4, RunsMore
<1> QED
  BY <1>1, <1>3, <1>5 DEF Leads

LEMMA LeadsRest ==
    ASSUME NEW q \in Seq(ScanCodes), q # << >>, NEW b, NEW e, Leads(b, q, e)
    PROVE  Leads(InputBiosTranslate(b, Head(q)), Tail(q), e)
<1>1. PICK n : n = Len(q)
  OBVIOUS
<1>2. PICK r : r = Tail(q)
  OBVIOUS
<1>3. /\ n \in Nat /\ n # 0 /\ Len(r) = n - 1 /\ Head(q) = q[1]
      /\ \A i \in 1 .. n - 1 : r[i] = q[i + 1]
  BY <1>1, <1>2
<1>4. PICK st : Steps(st, b, q, n, e)
  BY <1>1 DEF Leads, Runs
<1> DEFINE su == [i \in 0 .. n - 1 |-> st[i + 1]]
<1>5. st[1] = InputBiosTranslate(b, q[1])
  <2>1. 1 \in 1 .. n /\ 1 - 1 = 0
    BY <1>3
  <2> QED
    BY <1>4, <2>1 DEF Steps
<1>6. /\ su[0] = st[1] /\ su[n - 1] = e
      /\ \A i \in 0 .. n - 1 : su[i] \in Views
  BY <1>3, <1>4 DEF Steps
<1>7. ASSUME NEW i \in 1 .. n - 1
      PROVE  su[i] = InputBiosTranslate(su[i - 1], r[i])
  <2>1. su[i] = st[i + 1] /\ su[i - 1] = st[i] /\ r[i] = q[i + 1] /\ i + 1 \in 1 .. n /\ (i + 1) - 1 = i
    BY <1>3
  <2> QED
    BY <1>4, <2>1 DEF Steps
<1> HIDE DEF su
<1>8. Steps(su, st[1], r, n - 1, e)
  BY <1>6, <1>7 DEF Steps
<1> QED
  BY <1>2, <1>3, <1>5, <1>8 DEF Leads, Runs

(* Several bytes pushed: unless one is lost, the BIOS will come, after     *)
(* what it was to come to, to where these bytes take it.                   *)
LEMMA PushesLead ==
    ASSUME NEW k, Sound(k), NEW bytes \in Seq(ScanCodes)
    PROVE  LET n == PushBytes(k, bytes)
           IN /\ Sound(n) /\ Presents(k, n)
              /\ k.missed => n.missed
              /\ ~ n.missed =>
                    /\ n.last = k.last /\ (n.owed <=> k.owed)
                    /\ \A b \in Views, e \in Views : Leads(b, k.queue, e) =>
                          \E f \in Views : Leads(e, bytes, f) /\ Leads(b, n.queue, f)
<1>1. PICK c : /\ c[0] = k /\ PushBytes(k, bytes) = c[Len(bytes)]
               /\ \A i \in 1 .. Len(bytes) : c[i] = VddInputPushScanCode(c[i - 1], bytes[i])
  BY PushesAre
<1>2. Len(bytes) \in Nat /\ \A i \in 1 .. Len(bytes) : bytes[i] \in ScanCodes
  BY QueueLen, ElementOfSeq
<1> DEFINE P(i) ==
             /\ Sound(c[i]) /\ Presents(k, c[i])
             /\ k.missed => c[i].missed
             /\ ~ c[i].missed =>
                   /\ c[i].last = k.last /\ (c[i].owed <=> k.owed)
                   /\ \A b \in Views, e \in Views : Leads(b, k.queue, e) =>
                         \E f \in Views : Runs(e, bytes, i, f) /\ Leads(b, c[i].queue, f)
           Bad == {i \in 0 .. Len(bytes) : ~ P(i)}
<1>3. P(0)
  <2>1. Presents(k, k)
    BY DEF Presents
  <2>2. \A e \in Views : Runs(e, bytes, 0, e)
    BY RunsNone
  <2> QED
    BY <1>1, <2>1, <2>2
<1>4. ASSUME NEW i \in 1 .. Len(bytes), P(i - 1)
      PROVE  P(i)
  <2>1. PICK m, n : m = c[i - 1] /\ n = c[i]
    OBVIOUS
  <2>2. PICK x \in ScanCodes : x = bytes[i]
    BY <1>2
  <2>3. /\ Sound(n) /\ Presents(m, n)
        /\ m.missed => n.missed
        /\ ~ n.missed => n.queue = Append(m.queue, x) /\ n.last = m.last /\ (n.owed <=> m.owed)
    <3>1. n = VddInputPushScanCode(m, x) /\ Sound(m)
      BY <1>1, <1>4, <2>1, <2>2
    <3> HIDE <1>1, <1>4, <2>1, <2>2
    <3> QED
      BY <3>1, PushIs
  <2>4. /\ Presents(k, m) /\ (k.missed => m.missed)
        /\ ~ m.missed => m.last = k.last /\ (m.owed <=> k.owed)
    BY <1>4, <2>1
  <2>5. Presents(k, n)
    BY <2>3, <2>4 DEF Presents
  <2>6. ASSUME ~ n.missed, NEW b \in Views, NEW e \in Views, Leads(b, k.queue, e)
        PROVE  \E f \in Views : Runs(e, bytes, i, f) /\ Leads(b, n.queue, f)
    <3>1. PICK f \in Views : Runs(e, bytes, i - 1, f) /\ Leads(b, m.queue, f)
      BY <1>4, <2>1, <2>3, <2>6
    <3>2. m.queue \in Seq(ScanCodes)
      BY <1>4, <2>1 DEF Sound, Controllers
    <3>3. InputBiosTranslate(f, x) \in Views
      BY TranslateIs
    <3>4. Leads(b, n.queue, InputBiosTranslate(f, x))
      BY <2>3, <2>6, <3>1, <3>2, LeadsMore
    <3>5. Runs(e, bytes, i, InputBiosTranslate(f, x))
      <4>1. i - 1 \in Nat /\ (i - 1) + 1 = i
        BY <1>2
      <4>2. Runs(e, bytes, (i - 1) + 1, InputBiosTranslate(f, bytes[(i - 1) + 1]))
        BY <1>2, <2>2, <3>1, <4>1, RunsMore
      <4> QED
        BY <2>2, <4>1, <4>2
    <3> QED
      BY <3>3, <3>4, <3>5
  <2> HIDE <1>1
  <2> QED
    BY <2>1, <2>3, <2>4, <2>5, <2>6
<1>5. Bad = {}
  <2> HIDE DEF P
  <2> SUFFICES ASSUME Bad # {} PROVE FALSE
    OBVIOUS
  <2>1. PICK i \in Bad : \A j \in Bad : i <= j
    <3>1. Bad \subseteq Nat
      OBVIOUS
    <3> HIDE DEF Bad
    <3> QED
      BY <3>1, LeastNatural
  <2>2. i \in 1 .. Len(bytes) /\ i - 1 \in 0 .. Len(bytes)
    BY <1>2, <1>3, <2>1
  <2>3. P(i - 1)
    <3>1. ~ (i - 1 \in Bad)
      BY <2>1, <2>2
    <3> QED
      BY <2>2, <3>1
  <2> QED
    BY <1>4, <2>1, <2>2, <2>3
<1>6. P(Len(bytes))
  <2>1. Len(bytes) \in 0 .. Len(bytes)
    BY <1>2
  <2> HIDE DEF P
  <2> QED
    BY <1>5, <2>1
<1> QED
  BY <1>1, <1>6 DEF Leads

(* A key event takes the BIOS from the keys down before it to those after  *)
(* it.                                                                     *)
TakesTo(bytes, down, after) ==
    \A e \in Views, f \in Views :
        Matches(e, down) /\ Leads(e, bytes, f) => Matches(f, after)

LEMMA StepOf ==
    ASSUME NEW n \in Nat, NEW i \in 1 .. n, NEW b, NEW q, NEW e, NEW st, Steps(st, b, q, n, e)
    PROVE  st[i] = InputBiosTranslate(st[i - 1], q[i]) /\ st[i - 1] \in Views /\ st[i] \in Views
  BY DEF Steps

(* What single bytes do between two runs, and after a prefix.              *)
ViewIs(n, ext, e1, left, right) ==
    (n.ext <=> ext) /\ n.e1 = e1 /\ (n.left <=> left) /\ (n.right <=> right)

LEMMA BytesDo ==
    ASSUME NEW b \in Views
    PROVE  /\ ViewIs(InputBiosTranslate(b, "Ack"), b.ext, b.e1, b.left, b.right)
           /\ ViewIs(InputBiosTranslate(b, "E0"), TRUE, b.e1, b.left, b.right)
           /\ ViewIs(InputBiosTranslate(b, "E1"), FALSE, 2, b.left, b.right)
           /\ b.e1 = 0 /\ ~ b.ext =>
                /\ ViewIs(InputBiosTranslate(b, "CtrlDn"), FALSE, 0, TRUE, b.right)
                /\ ViewIs(InputBiosTranslate(b, "CtrlUp"), FALSE, 0, FALSE, b.right)
           /\ b.e1 = 0 /\ b.ext =>
                /\ ViewIs(InputBiosTranslate(b, "CtrlDn"), FALSE, 0, b.left, TRUE)
                /\ ViewIs(InputBiosTranslate(b, "CtrlUp"), FALSE, 0, b.left, FALSE)
           /\ b.e1 = 0 =>
                \A x \in {"ScrDn", "ScrUp", "KeyUp", "KeyDn", "Id"} :
                    ViewIs(InputBiosTranslate(b, x), FALSE, 0, b.left, b.right)
           /\ b.e1 > 0 =>
                \A x \in {"CtrlDn", "NumDn", "CtrlUp", "NumUp"} :
                    ViewIs(InputBiosTranslate(b, x), FALSE, b.e1 - 1, b.left, b.right)
<1>1. ViewIs(InputBiosTranslate(b, "Ack"), b.ext, b.e1, b.left, b.right)
  BY DEF InputBiosTranslate, ViewIs
<1>2. /\ ViewIs(InputBiosTranslate(b, "E0"), TRUE, b.e1, b.left, b.right)
      /\ ViewIs(InputBiosTranslate(b, "E1"), FALSE, 2, b.left, b.right)
  BY DEF InputBiosTranslate, AfterE1, ViewIs, Views
<1>3. ASSUME b.e1 = 0, NEW x \in {"CtrlDn", "CtrlUp"}
      PROVE  IF b.ext THEN ViewIs(InputBiosTranslate(b, x), FALSE, 0, b.left, x = "CtrlDn")
                      ELSE ViewIs(InputBiosTranslate(b, x), FALSE, 0, x = "CtrlDn", b.right)
  <2>1. InputBiosTranslate(b, x) =
           IF b.ext THEN [[b EXCEPT !.ext = FALSE] EXCEPT !.right = x = "CtrlDn"]
                    ELSE [[b EXCEPT !.ext = FALSE] EXCEPT !.left = x = "CtrlDn"]
    BY <1>3 DEF InputBiosTranslate
  <2> QED
    BY <1>3, <2>1 DEF ViewIs, Views
<1>4. ASSUME b.e1 = 0, NEW x \in {"ScrDn", "ScrUp", "KeyUp", "Id"}
      PROVE  ViewIs(InputBiosTranslate(b, x), FALSE, 0, b.left, b.right)
  <2>1. InputBiosTranslate(b, x) = [b EXCEPT !.ext = FALSE]
    BY <1>4 DEF InputBiosTranslate
  <2> QED
    BY <1>4, <2>1 DEF ViewIs, Views
<1>5. ASSUME b.e1 = 0
      PROVE  ViewIs(InputBiosTranslate(b, "KeyDn"), FALSE, 0, b.left, b.right)
  <2>1. InputBiosTranslate(b, "KeyDn") = [[b EXCEPT !.ext = FALSE] EXCEPT !.pause = FALSE]
    BY <1>5 DEF InputBiosTranslate
  <2> QED
    BY <1>5, <2>1 DEF ViewIs, Views
<1>6. ASSUME b.e1 > 0, NEW x \in {"CtrlDn", "NumDn", "CtrlUp", "NumUp"}
      PROVE  ViewIs(InputBiosTranslate(b, x), FALSE, b.e1 - 1, b.left, b.right)
  <2>1. InputBiosTranslate(b, x) = [[b EXCEPT !.ext = FALSE] EXCEPT
                                      !.e1 = @ - 1, !.pause = @ \/ (b.e1 = 1 /\ x \in MakeCodes)]
    BY <1>6 DEF InputBiosTranslate
  <2> QED
    BY <2>1 DEF ViewIs, Views
<1>7. ASSUME b.e1 = 0, ~ b.ext
      PROVE  /\ ViewIs(InputBiosTranslate(b, "CtrlDn"), FALSE, 0, TRUE, b.right)
             /\ ViewIs(InputBiosTranslate(b, "CtrlUp"), FALSE, 0, FALSE, b.right)
  BY <1>3, <1>7 DEF ViewIs
<1>8. ASSUME b.e1 = 0, b.ext
      PROVE  /\ ViewIs(InputBiosTranslate(b, "CtrlDn"), FALSE, 0, b.left, TRUE)
             /\ ViewIs(InputBiosTranslate(b, "CtrlUp"), FALSE, 0, b.left, FALSE)
  BY <1>3, <1>8 DEF ViewIs
<1> QED
  BY <1>1, <1>2, <1>4, <1>5, <1>6, <1>7, <1>8

LEMMA StepsOf ==
    ASSUME NEW bytes, NEW n, n = Len(bytes), NEW e, NEW f, Leads(e, bytes, f)
    PROVE  \E st : Steps(st, e, bytes, n, f)
  BY Zenon DEF Leads, Runs

(* The bytes of each key event, and of each reply.                         *)
LEMMA LeftDown ==
    ASSUME NEW down \in SUBSET CtrlKeys
    PROVE  TakesTo(<<"CtrlDn">>, down, down \cup {"left"})
<1> SUFFICES ASSUME NEW e \in Views, NEW f \in Views, Matches(e, down), Leads(e, <<"CtrlDn">>, f)
             PROVE  Matches(f, down \cup {"left"})
  BY DEF TakesTo
<1>1. <<"CtrlDn">> \in Seq(ScanCodes) /\ Len(<<"CtrlDn">>) = 1
  BY DEF ScanCodes
<1>2. PICK st : Steps(st, e, <<"CtrlDn">>, 1, f)
  BY <1>1, StepsOf
<1>3. /\ (e.left <=> "left" \in down) /\ (e.right <=> "right" \in down) /\ ~ e.ext /\ e.e1 = 0
  BY DEF Matches
<1>4. ViewIs(st[1], FALSE, 0, TRUE, e.right)
  <2>1. st[1] = InputBiosTranslate(e, "CtrlDn") /\ e \in Views
    BY <1>2 DEF Steps
  <2> QED
    BY <1>3, <2>1, BytesDo DEF ViewIs
<1> QED
  BY <1>2, <1>3, <1>4 DEF Steps, ViewIs, Matches, CtrlKeys

LEMMA LeftUp ==
    ASSUME NEW down \in SUBSET CtrlKeys
    PROVE  TakesTo(<<"CtrlUp">>, down, down \ {"left"})
<1> SUFFICES ASSUME NEW e \in Views, NEW f \in Views, Matches(e, down), Leads(e, <<"CtrlUp">>, f)
             PROVE  Matches(f, down \ {"left"})
  BY DEF TakesTo
<1>1. <<"CtrlUp">> \in Seq(ScanCodes) /\ Len(<<"CtrlUp">>) = 1
  BY DEF ScanCodes
<1>2. PICK st : Steps(st, e, <<"CtrlUp">>, 1, f)
  BY <1>1, StepsOf
<1>3. /\ (e.left <=> "left" \in down) /\ (e.right <=> "right" \in down) /\ ~ e.ext /\ e.e1 = 0
  BY DEF Matches
<1>4. ViewIs(st[1], FALSE, 0, FALSE, e.right)
  <2>1. st[1] = InputBiosTranslate(e, "CtrlUp") /\ e \in Views
    BY <1>2 DEF Steps
  <2> QED
    BY <1>3, <2>1, BytesDo DEF ViewIs
<1> QED
  BY <1>2, <1>3, <1>4 DEF Steps, ViewIs, Matches, CtrlKeys

LEMMA RightDown ==
    ASSUME NEW down \in SUBSET CtrlKeys
    PROVE  TakesTo(<<"E0", "CtrlDn">>, down, down \cup {"right"})
<1> SUFFICES ASSUME NEW e \in Views, NEW f \in Views, Matches(e, down), Leads(e, <<"E0", "CtrlDn">>, f)
             PROVE  Matches(f, down \cup {"right"})
  BY DEF TakesTo
<1>1. <<"E0", "CtrlDn">> \in Seq(ScanCodes) /\ Len(<<"E0", "CtrlDn">>) = 2
  BY DEF ScanCodes
<1>2. PICK st : Steps(st, e, <<"E0", "CtrlDn">>, 2, f)
  BY <1>1, StepsOf
<1>3. /\ (e.left <=> "left" \in down) /\ (e.right <=> "right" \in down) /\ ~ e.ext /\ e.e1 = 0
  BY DEF Matches
<1>4. ViewIs(st[1], TRUE, 0, e.left, e.right)
  <2>1. st[1] = InputBiosTranslate(e, "E0") /\ e \in Views
    BY <1>2 DEF Steps
  <2> QED
    BY <1>3, <2>1, BytesDo DEF ViewIs
<1>5. ViewIs(st[2], FALSE, 0, e.left, TRUE)
  <2>1. st[2] = InputBiosTranslate(st[1], "CtrlDn") /\ st[1] \in Views
    BY <1>2 DEF Steps
  <2> QED
    BY <1>4, <2>1, BytesDo DEF ViewIs
<1> QED
  BY <1>2, <1>3, <1>5 DEF Steps, ViewIs, Matches, CtrlKeys

LEMMA RightUp ==
    ASSUME NEW down \in SUBSET CtrlKeys
    PROVE  TakesTo(<<"E0", "CtrlUp">>, down, down \ {"right"})
<1> SUFFICES ASSUME NEW e \in Views, NEW f \in Views, Matches(e, down), Leads(e, <<"E0", "CtrlUp">>, f)
             PROVE  Matches(f, down \ {"right"})
  BY DEF TakesTo
<1>1. <<"E0", "CtrlUp">> \in Seq(ScanCodes) /\ Len(<<"E0", "CtrlUp">>) = 2
  BY DEF ScanCodes
<1>2. PICK st : Steps(st, e, <<"E0", "CtrlUp">>, 2, f)
  BY <1>1, StepsOf
<1>3. /\ (e.left <=> "left" \in down) /\ (e.right <=> "right" \in down) /\ ~ e.ext /\ e.e1 = 0
  BY DEF Matches
<1>4. ViewIs(st[1], TRUE, 0, e.left, e.right)
  <2>1. st[1] = InputBiosTranslate(e, "E0") /\ e \in Views
    BY <1>2 DEF Steps
  <2> QED
    BY <1>3, <2>1, BytesDo DEF ViewIs
<1>5. ViewIs(st[2], FALSE, 0, e.left, FALSE)
  <2>1. st[2] = InputBiosTranslate(st[1], "CtrlUp") /\ st[1] \in Views
    BY <1>2 DEF Steps
  <2> QED
    BY <1>4, <2>1, BytesDo DEF ViewIs
<1> QED
  BY <1>2, <1>3, <1>5 DEF Steps, ViewIs, Matches, CtrlKeys

LEMMA BothUp ==
    ASSUME NEW down \in SUBSET CtrlKeys
    PROVE  TakesTo(<<"CtrlUp", "E0", "CtrlUp">>, down, {})
<1> SUFFICES ASSUME NEW e \in Views, NEW f \in Views, Matches(e, down), Leads(e, <<"CtrlUp", "E0", "CtrlUp">>, f)
             PROVE  Matches(f, {})
  BY DEF TakesTo
<1>1. <<"CtrlUp", "E0", "CtrlUp">> \in Seq(ScanCodes) /\ Len(<<"CtrlUp", "E0", "CtrlUp">>) = 3
  BY DEF ScanCodes
<1>2. PICK st : Steps(st, e, <<"CtrlUp", "E0", "CtrlUp">>, 3, f)
  BY <1>1, StepsOf
<1>3. /\ (e.left <=> "left" \in down) /\ (e.right <=> "right" \in down) /\ ~ e.ext /\ e.e1 = 0
  BY DEF Matches
<1>4. ViewIs(st[1], FALSE, 0, FALSE, e.right)
  <2>1. st[1] = InputBiosTranslate(e, "CtrlUp") /\ e \in Views
    BY <1>2 DEF Steps
  <2> QED
    BY <1>3, <2>1, BytesDo DEF ViewIs
<1>5. ViewIs(st[2], TRUE, 0, FALSE, e.right)
  <2>1. st[2] = InputBiosTranslate(st[1], "E0") /\ st[1] \in Views
    BY <1>2 DEF Steps
  <2> QED
    BY <1>4, <2>1, BytesDo DEF ViewIs
<1>6. ViewIs(st[3], FALSE, 0, FALSE, FALSE)
  <2>1. st[3] = InputBiosTranslate(st[2], "CtrlUp") /\ st[2] \in Views
    BY <1>2 DEF Steps
  <2> QED
    BY <1>5, <2>1, BytesDo DEF ViewIs
<1> QED
  BY <1>2, <1>3, <1>6 DEF Steps, ViewIs, Matches, CtrlKeys

LEMMA PauseKey ==
    ASSUME NEW down \in SUBSET CtrlKeys
    PROVE  TakesTo(<<"E1", "CtrlDn", "NumDn", "E1", "CtrlUp", "NumUp">>, down, down)
<1> SUFFICES ASSUME NEW e \in Views, NEW f \in Views, Matches(e, down), Leads(e, <<"E1", "CtrlDn", "NumDn", "E1", "CtrlUp", "NumUp">>, f)
             PROVE  Matches(f, down)
  BY DEF TakesTo
<1>1. <<"E1", "CtrlDn", "NumDn", "E1", "CtrlUp", "NumUp">> \in Seq(ScanCodes) /\ Len(<<"E1", "CtrlDn", "NumDn", "E1", "CtrlUp", "NumUp">>) = 6
  BY DEF ScanCodes
<1>2. PICK st : Steps(st, e, <<"E1", "CtrlDn", "NumDn", "E1", "CtrlUp", "NumUp">>, 6, f)
  BY <1>1, StepsOf
<1>3. /\ (e.left <=> "left" \in down) /\ (e.right <=> "right" \in down) /\ ~ e.ext /\ e.e1 = 0
  BY DEF Matches
<1>4. ViewIs(st[1], FALSE, 2, e.left, e.right)
  <2>1. st[1] = InputBiosTranslate(e, "E1") /\ e \in Views
    BY <1>2 DEF Steps
  <2> QED
    BY <1>3, <2>1, BytesDo DEF ViewIs
<1>5. ViewIs(st[2], FALSE, 1, e.left, e.right)
  <2>1. st[2] = InputBiosTranslate(st[1], "CtrlDn") /\ st[1] \in Views
    BY <1>2 DEF Steps
  <2> QED
    BY <1>4, <2>1, BytesDo DEF ViewIs
<1>6. ViewIs(st[3], FALSE, 0, e.left, e.right)
  <2>1. st[3] = InputBiosTranslate(st[2], "NumDn") /\ st[2] \in Views
    BY <1>2 DEF Steps
  <2> QED
    BY <1>5, <2>1, BytesDo DEF ViewIs
<1>7. ViewIs(st[4], FALSE, 2, e.left, e.right)
  <2>1. st[4] = InputBiosTranslate(st[3], "E1") /\ st[3] \in Views
    BY <1>2 DEF Steps
  <2> QED
    BY <1>6, <2>1, BytesDo DEF ViewIs
<1>8. ViewIs(st[5], FALSE, 1, e.left, e.right)
  <2>1. st[5] = InputBiosTranslate(st[4], "CtrlUp") /\ st[4] \in Views
    BY <1>2 DEF Steps
  <2> QED
    BY <1>7, <2>1, BytesDo DEF ViewIs
<1>9. ViewIs(st[6], FALSE, 0, e.left, e.right)
  <2>1. st[6] = InputBiosTranslate(st[5], "NumUp") /\ st[5] \in Views
    BY <1>2 DEF Steps
  <2> QED
    BY <1>8, <2>1, BytesDo DEF ViewIs
<1> QED
  BY <1>2, <1>3, <1>9 DEF Steps, ViewIs, Matches, CtrlKeys

LEMMA BreakKey ==
    ASSUME NEW down \in SUBSET CtrlKeys
    PROVE  TakesTo(<<"E0", "ScrDn", "E0", "ScrUp">>, down, down)
<1> SUFFICES ASSUME NEW e \in Views, NEW f \in Views, Matches(e, down), Leads(e, <<"E0", "ScrDn", "E0", "ScrUp">>, f)
             PROVE  Matches(f, down)
  BY DEF TakesTo
<1>1. <<"E0", "ScrDn", "E0", "ScrUp">> \in Seq(ScanCodes) /\ Len(<<"E0", "ScrDn", "E0", "ScrUp">>) = 4
  BY DEF ScanCodes
<1>2. PICK st : Steps(st, e, <<"E0", "ScrDn", "E0", "ScrUp">>, 4, f)
  BY <1>1, StepsOf
<1>3. /\ (e.left <=> "left" \in down) /\ (e.right <=> "right" \in down) /\ ~ e.ext /\ e.e1 = 0
  BY DEF Matches
<1>4. ViewIs(st[1], TRUE, 0, e.left, e.right)
  <2>1. st[1] = InputBiosTranslate(e, "E0") /\ e \in Views
    BY <1>2 DEF Steps
  <2> QED
    BY <1>3, <2>1, BytesDo DEF ViewIs
<1>5. ViewIs(st[2], FALSE, 0, e.left, e.right)
  <2>1. st[2] = InputBiosTranslate(st[1], "ScrDn") /\ st[1] \in Views
    BY <1>2 DEF Steps
  <2> QED
    BY <1>4, <2>1, BytesDo DEF ViewIs
<1>6. ViewIs(st[3], TRUE, 0, e.left, e.right)
  <2>1. st[3] = InputBiosTranslate(st[2], "E0") /\ st[2] \in Views
    BY <1>2 DEF Steps
  <2> QED
    BY <1>5, <2>1, BytesDo DEF ViewIs
<1>7. ViewIs(st[4], FALSE, 0, e.left, e.right)
  <2>1. st[4] = InputBiosTranslate(st[3], "ScrUp") /\ st[3] \in Views
    BY <1>2 DEF Steps
  <2> QED
    BY <1>6, <2>1, BytesDo DEF ViewIs
<1> QED
  BY <1>2, <1>3, <1>7 DEF Steps, ViewIs, Matches, CtrlKeys

LEMMA KeyDown ==
    ASSUME NEW down \in SUBSET CtrlKeys
    PROVE  TakesTo(<<"KeyDn">>, down, down)
<1> SUFFICES ASSUME NEW e \in Views, NEW f \in Views, Matches(e, down), Leads(e, <<"KeyDn">>, f)
             PROVE  Matches(f, down)
  BY DEF TakesTo
<1>1. <<"KeyDn">> \in Seq(ScanCodes) /\ Len(<<"KeyDn">>) = 1
  BY DEF ScanCodes
<1>2. PICK st : Steps(st, e, <<"KeyDn">>, 1, f)
  BY <1>1, StepsOf
<1>3. /\ (e.left <=> "left" \in down) /\ (e.right <=> "right" \in down) /\ ~ e.ext /\ e.e1 = 0
  BY DEF Matches
<1>4. ViewIs(st[1], FALSE, 0, e.left, e.right)
  <2>1. st[1] = InputBiosTranslate(e, "KeyDn") /\ e \in Views
    BY <1>2 DEF Steps
  <2> QED
    BY <1>3, <2>1, BytesDo DEF ViewIs
<1> QED
  BY <1>2, <1>3, <1>4 DEF Steps, ViewIs, Matches, CtrlKeys

LEMMA KeyUp ==
    ASSUME NEW down \in SUBSET CtrlKeys
    PROVE  TakesTo(<<"KeyUp">>, down, down)
<1> SUFFICES ASSUME NEW e \in Views, NEW f \in Views, Matches(e, down), Leads(e, <<"KeyUp">>, f)
             PROVE  Matches(f, down)
  BY DEF TakesTo
<1>1. <<"KeyUp">> \in Seq(ScanCodes) /\ Len(<<"KeyUp">>) = 1
  BY DEF ScanCodes
<1>2. PICK st : Steps(st, e, <<"KeyUp">>, 1, f)
  BY <1>1, StepsOf
<1>3. /\ (e.left <=> "left" \in down) /\ (e.right <=> "right" \in down) /\ ~ e.ext /\ e.e1 = 0
  BY DEF Matches
<1>4. ViewIs(st[1], FALSE, 0, e.left, e.right)
  <2>1. st[1] = InputBiosTranslate(e, "KeyUp") /\ e \in Views
    BY <1>2 DEF Steps
  <2> QED
    BY <1>3, <2>1, BytesDo DEF ViewIs
<1> QED
  BY <1>2, <1>3, <1>4 DEF Steps, ViewIs, Matches, CtrlKeys

LEMMA Acknowledged ==
    ASSUME NEW down \in SUBSET CtrlKeys
    PROVE  TakesTo(<<"Ack">>, down, down)
<1> SUFFICES ASSUME NEW e \in Views, NEW f \in Views, Matches(e, down), Leads(e, <<"Ack">>, f)
             PROVE  Matches(f, down)
  BY DEF TakesTo
<1>1. <<"Ack">> \in Seq(ScanCodes) /\ Len(<<"Ack">>) = 1
  BY DEF ScanCodes
<1>2. PICK st : Steps(st, e, <<"Ack">>, 1, f)
  BY <1>1, StepsOf
<1>3. /\ (e.left <=> "left" \in down) /\ (e.right <=> "right" \in down) /\ ~ e.ext /\ e.e1 = 0
  BY DEF Matches
<1>4. ViewIs(st[1], FALSE, 0, e.left, e.right)
  <2>1. st[1] = InputBiosTranslate(e, "Ack") /\ e \in Views
    BY <1>2 DEF Steps
  <2> QED
    BY <1>3, <2>1, BytesDo DEF ViewIs
<1> QED
  BY <1>2, <1>3, <1>4 DEF Steps, ViewIs, Matches, CtrlKeys

LEMMA Identified ==
    ASSUME NEW down \in SUBSET CtrlKeys
    PROVE  TakesTo(<<"Ack", "Id", "KeyDn">>, down, down)
<1> SUFFICES ASSUME NEW e \in Views, NEW f \in Views, Matches(e, down), Leads(e, <<"Ack", "Id", "KeyDn">>, f)
             PROVE  Matches(f, down)
  BY DEF TakesTo
<1>1. <<"Ack", "Id", "KeyDn">> \in Seq(ScanCodes) /\ Len(<<"Ack", "Id", "KeyDn">>) = 3
  BY DEF ScanCodes
<1>2. PICK st : Steps(st, e, <<"Ack", "Id", "KeyDn">>, 3, f)
  BY <1>1, StepsOf
<1>3. /\ (e.left <=> "left" \in down) /\ (e.right <=> "right" \in down) /\ ~ e.ext /\ e.e1 = 0
  BY DEF Matches
<1>4. ViewIs(st[1], FALSE, 0, e.left, e.right)
  <2>1. st[1] = InputBiosTranslate(e, "Ack") /\ e \in Views
    BY <1>2 DEF Steps
  <2> QED
    BY <1>3, <2>1, BytesDo DEF ViewIs
<1>5. ViewIs(st[2], FALSE, 0, e.left, e.right)
  <2>1. st[2] = InputBiosTranslate(st[1], "Id") /\ st[1] \in Views
    BY <1>2 DEF Steps
  <2> QED
    BY <1>4, <2>1, BytesDo DEF ViewIs
<1>6. ViewIs(st[3], FALSE, 0, e.left, e.right)
  <2>1. st[3] = InputBiosTranslate(st[2], "KeyDn") /\ st[2] \in Views
    BY <1>2 DEF Steps
  <2> QED
    BY <1>5, <2>1, BytesDo DEF ViewIs
<1> QED
  BY <1>2, <1>3, <1>6 DEF Steps, ViewIs, Matches, CtrlKeys

LEMMA Restarted ==
    ASSUME NEW down \in SUBSET CtrlKeys
    PROVE  TakesTo(<<"Ack", "Id">>, down, down)
<1> SUFFICES ASSUME NEW e \in Views, NEW f \in Views, Matches(e, down), Leads(e, <<"Ack", "Id">>, f)
             PROVE  Matches(f, down)
  BY DEF TakesTo
<1>1. <<"Ack", "Id">> \in Seq(ScanCodes) /\ Len(<<"Ack", "Id">>) = 2
  BY DEF ScanCodes
<1>2. PICK st : Steps(st, e, <<"Ack", "Id">>, 2, f)
  BY <1>1, StepsOf
<1>3. /\ (e.left <=> "left" \in down) /\ (e.right <=> "right" \in down) /\ ~ e.ext /\ e.e1 = 0
  BY DEF Matches
<1>4. ViewIs(st[1], FALSE, 0, e.left, e.right)
  <2>1. st[1] = InputBiosTranslate(e, "Ack") /\ e \in Views
    BY <1>2 DEF Steps
  <2> QED
    BY <1>3, <2>1, BytesDo DEF ViewIs
<1>5. ViewIs(st[2], FALSE, 0, e.left, e.right)
  <2>1. st[2] = InputBiosTranslate(st[1], "Id") /\ st[1] \in Views
    BY <1>2 DEF Steps
  <2> QED
    BY <1>4, <2>1, BytesDo DEF ViewIs
<1> QED
  BY <1>2, <1>3, <1>5 DEF Steps, ViewIs, Matches, CtrlKeys

-----------------------------------------------------------------------------
(* The invariant: unless a byte was lost, what the BIOS has been given and *)
(* what it is still to be given take it to the keys that are down.         *)

Seen(b, x) == IF x = NoByte THEN b ELSE InputBiosTranslate(b, x)

Owes(k) == IF k.owed THEN k.last ELSE NoByte

InStep(k, b, x, down) ==
    ~ k.missed => \E e \in Views : Leads(Seen(Seen(b, x), Owes(k)), k.queue, e) /\ Matches(e, down)

KbTypes ==
    /\ kbBda \in Views
    /\ kbFetched \in ScanCodes \cup {NoByte}
    /\ kbDown \in SUBSET CtrlKeys
    /\ kbHeld \in {NoByte, "key"} \cup kbDown

KbInv == KbTypes /\ Sound(kbc) /\ InStep(kbc, kbBda, kbFetched, kbDown)

LEMMA NoByteIs == NoByte \notin ScanCodes /\ NoByte \notin CtrlKeys /\ "key" \notin CtrlKeys
  BY DEF NoByte, ScanCodes, CtrlKeys

LEMMA SeenIs ==
    ASSUME NEW b \in Views, NEW x \in ScanCodes \cup {NoByte}
    PROVE  Seen(b, x) \in Views
  BY TranslateIs DEF Seen

LEMMA ToldIs ==
    ASSUME NEW k, Sound(k), NEW b \in Views, NEW x \in ScanCodes \cup {NoByte}
    PROVE  Seen(Seen(b, x), Owes(k)) \in Views
<1>1. Owes(k) \in ScanCodes \cup {NoByte}
  BY DEF Owes, Sound
<1> QED
  BY <1>1, SeenIs

LEMMA StaysInStep ==
    ASSUME NEW k, NEW n, NEW b, NEW x, NEW down, InStep(k, b, x, down), k.missed => n.missed,
           ~ n.missed => SameKeys(k, n)
    PROVE  InStep(n, b, x, down)
<1> SUFFICES ASSUME ~ n.missed
             PROVE  \E e \in Views : Leads(Seen(Seen(b, x), Owes(n)), n.queue, e) /\ Matches(e, down)
  BY DEF InStep
<1>1. Owes(n) = Owes(k) /\ n.queue = k.queue /\ ~ k.missed
  BY DEF SameKeys, Owes
<1> QED
  BY <1>1 DEF InStep

LEMMA PushesStayInStep ==
    ASSUME NEW k, Sound(k), NEW b \in Views, NEW x \in ScanCodes \cup {NoByte}, NEW down, NEW after,
           InStep(k, b, x, down), NEW bytes \in Seq(ScanCodes), TakesTo(bytes, down, after)
    PROVE  LET n == PushBytes(k, bytes)
           IN Sound(n) /\ Presents(k, n) /\ InStep(n, b, x, after)
<1>1. PICK n : n = PushBytes(k, bytes)
  OBVIOUS
<1>2. PICK c : c = Seen(Seen(b, x), Owes(k))
  OBVIOUS
<1>3. c \in Views
  BY <1>2, ToldIs
<1>4. /\ Sound(n) /\ Presents(k, n)
      /\ k.missed => n.missed
      /\ ~ n.missed =>
            /\ n.last = k.last /\ (n.owed <=> k.owed)
            /\ \A e \in Views : Leads(c, k.queue, e) =>
                  \E f \in Views : Leads(e, bytes, f) /\ Leads(c, n.queue, f)
  BY <1>1, <1>3, PushesLead
<1>5. ASSUME ~ n.missed
      PROVE  \E f \in Views : Leads(Seen(Seen(b, x), Owes(n)), n.queue, f) /\ Matches(f, after)
  <2>1. PICK e \in Views : Leads(c, k.queue, e) /\ Matches(e, down)
    BY <1>2, <1>4, <1>5 DEF InStep
  <2>2. PICK f \in Views : Leads(e, bytes, f) /\ Leads(c, n.queue, f)
    BY <1>4, <1>5, <2>1
  <2>3. Matches(f, after)
    BY <2>1, <2>2 DEF TakesTo
  <2>4. Seen(Seen(b, x), Owes(n)) = c
    BY <1>2, <1>4, <1>5 DEF Owes
  <2> QED
    BY <2>2, <2>3, <2>4
<1> QED
  BY <1>1, <1>4, <1>5 DEF InStep

(* One byte is a run of one.                                               *)
LEMMA PushStaysInStep ==
    ASSUME NEW k, Sound(k), NEW b \in Views, NEW x \in ScanCodes \cup {NoByte}, NEW down, NEW after,
           InStep(k, b, x, down), NEW y \in ScanCodes, TakesTo(<<y>>, down, after)
    PROVE  LET n == VddInputPushScanCode(k, y) IN Sound(n) /\ InStep(n, b, x, after)
<1>1. PICK bytes : bytes = <<y>>
  OBVIOUS
<1>2. bytes \in Seq(ScanCodes) /\ Len(bytes) = 1 /\ bytes[1] = y
  BY <1>1
<1>3. PushBytes(k, bytes) = VddInputPushScanCode(k, y)
  <2>1. PICK c : /\ c[0] = k /\ PushBytes(k, bytes) = c[Len(bytes)]
                 /\ \A i \in 1 .. Len(bytes) : c[i] = VddInputPushScanCode(c[i - 1], bytes[i])
    BY <1>2, PushesAre
  <2>2. 1 \in 1 .. Len(bytes) /\ 1 - 1 = 0
    BY <1>2
  <2> QED
    BY <1>2, <2>1, <2>2
<1>4. TakesTo(bytes, down, after)
  BY <1>1
<1> HIDE <1>1
<1> QED
  BY <1>2, <1>3, <1>4, PushesStayInStep

-----------------------------------------------------------------------------
(* The host's threads.                                                     *)

LEMMA EventBytes ==
    /\ HostKeyBytes("left down") = <<"CtrlDn">> /\ HostKeyBytes("left up") = <<"CtrlUp">>
    /\ HostKeyBytes("right down") = <<"E0", "CtrlDn">> /\ HostKeyBytes("right up") = <<"E0", "CtrlUp">>
    /\ HostKeyBytes("key down") = <<"KeyDn">> /\ HostKeyBytes("key up") = <<"KeyUp">>
    /\ HostKeyBytes("pause") = <<"E1", "CtrlDn", "NumDn", "E1", "CtrlUp", "NumUp">>
    /\ HostKeyBytes("break") = <<"E0", "ScrDn", "E0", "ScrUp">>
  BY DEF HostKeyBytes

LEMMA BytesAreScanCodes ==
    /\ <<"CtrlDn">> \in Seq(ScanCodes) /\ <<"CtrlUp">> \in Seq(ScanCodes)
    /\ <<"E0", "CtrlDn">> \in Seq(ScanCodes) /\ <<"E0", "CtrlUp">> \in Seq(ScanCodes)
    /\ <<"KeyDn">> \in Seq(ScanCodes) /\ <<"KeyUp">> \in Seq(ScanCodes)
    /\ <<"E1", "CtrlDn", "NumDn", "E1", "CtrlUp", "NumUp">> \in Seq(ScanCodes)
    /\ <<"E0", "ScrDn", "E0", "ScrUp">> \in Seq(ScanCodes)
    /\ <<"CtrlUp", "E0", "CtrlUp">> \in Seq(ScanCodes)
    /\ <<"Ack", "Id", "KeyDn">> \in Seq(ScanCodes) /\ <<"Ack", "Id">> \in Seq(ScanCodes)
  BY DEF ScanCodes

(* What a step of the host that pushes bytes does.                         *)
HostKeeps == KbInv' /\ Presents(kbc, kbc')

LEMMA EventKeeps ==
    ASSUME KbInv, NEW bytes \in Seq(ScanCodes), kbc' = PushBytes(kbc, bytes),
           TakesTo(bytes, kbDown, kbDown'), KbTypes', UNCHANGED <<kbBda, kbFetched>>
    PROVE  HostKeeps
<1>1. Sound(kbc) /\ InStep(kbc, kbBda, kbFetched, kbDown) /\ KbTypes
  BY DEF KbInv
<1>2. /\ Sound(PushBytes(kbc, bytes)) /\ Presents(kbc, PushBytes(kbc, bytes))
      /\ InStep(PushBytes(kbc, bytes), kbBda, kbFetched, kbDown')
  BY <1>1, PushesStayInStep DEF KbTypes
<1>3. /\ Sound(kbc') /\ Presents(kbc, kbc')
      /\ InStep(kbc', kbBda, kbFetched, kbDown')
  BY <1>2
<1> QED
  BY <1>3 DEF HostKeeps, KbInv

LEMMA CtrlDownTakes ==
    ASSUME NEW down \in SUBSET CtrlKeys, NEW c \in CtrlKeys
    PROVE  /\ HostKeyBytes(DownEvent(c)) \in Seq(ScanCodes) /\ HostKeyBytes(UpEvent(c)) \in Seq(ScanCodes)
           /\ TakesTo(HostKeyBytes(DownEvent(c)), down, down \cup {c})
           /\ TakesTo(HostKeyBytes(UpEvent(c)), down, down \ {c})
<1>1. CASE c = "left"
  BY <1>1, EventBytes, BytesAreScanCodes, LeftDown, LeftUp DEF DownEvent, UpEvent
<1>2. CASE c = "right"
  BY <1>2, EventBytes, BytesAreScanCodes, RightDown, RightUp DEF DownEvent, UpEvent
<1> QED
  BY <1>1, <1>2 DEF CtrlKeys

LEMMA MakeKeeps == KbInv /\ KeyPushMake => HostKeeps
<1> SUFFICES ASSUME KbInv, KeyPushMake PROVE HostKeeps
  OBVIOUS
<1>1. KbTypes /\ UNCHANGED <<kbBda, kbFetched>>
  BY DEF KbInv, KeyPushMake
<1>2. CASE \E s \in {"pause", "break"} :
             kbc' = PushBytes(kbc, HostKeyBytes(s)) /\ kbHeld' = NoByte /\ UNCHANGED kbDown
  <2>1. PICK s \in {"pause", "break"} :
          kbc' = PushBytes(kbc, HostKeyBytes(s)) /\ kbHeld' = NoByte /\ UNCHANGED kbDown
    BY <1>2
  <2>2. HostKeyBytes(s) \in Seq(ScanCodes) /\ TakesTo(HostKeyBytes(s), kbDown, kbDown)
    BY <1>1, EventBytes, BytesAreScanCodes, PauseKey, BreakKey DEF KbTypes
  <2>3. KbTypes'
    BY <1>1, <2>1 DEF KbTypes
  <2> QED
    BY <1>1, <2>1, <2>2, <2>3, EventKeeps
<1>3. CASE \E c \in CtrlKeys :
             /\ kbc' = PushBytes(kbc, HostKeyBytes(DownEvent(c)))
             /\ kbHeld' = c /\ kbDown' = kbDown \cup {c}
  <2>1. PICK c \in CtrlKeys : /\ kbc' = PushBytes(kbc, HostKeyBytes(DownEvent(c)))
                              /\ kbHeld' = c /\ kbDown' = kbDown \cup {c}
    BY <1>3
  <2>2. /\ HostKeyBytes(DownEvent(c)) \in Seq(ScanCodes)
        /\ TakesTo(HostKeyBytes(DownEvent(c)), kbDown, kbDown')
    BY <1>1, <2>1, CtrlDownTakes DEF KbTypes
  <2>3. KbTypes'
    BY <1>1, <2>1 DEF KbTypes
  <2> QED
    BY <1>1, <2>1, <2>2, <2>3, EventKeeps
<1>4. CASE kbc' = PushBytes(kbc, HostKeyBytes("key down")) /\ kbHeld' = "key" /\ UNCHANGED kbDown
  <2>1. HostKeyBytes("key down") \in Seq(ScanCodes) /\ TakesTo(HostKeyBytes("key down"), kbDown, kbDown')
    BY <1>1, <1>4, EventBytes, BytesAreScanCodes, KeyDown DEF KbTypes
  <2>2. KbTypes'
    BY <1>1, <1>4 DEF KbTypes
  <2> QED
    BY <1>1, <1>4, <2>1, <2>2, EventKeeps
<1> QED
  BY <1>2, <1>3, <1>4 DEF KeyPushMake

LEMMA BreakKeeps == KbInv /\ KeyPushBreak => HostKeeps
<1> SUFFICES ASSUME KbInv, KeyPushBreak PROVE HostKeeps
  OBVIOUS
<1>1. KbTypes /\ UNCHANGED <<kbBda, kbFetched>>
  BY DEF KbInv, KeyPushBreak
<1>2. CASE \E c \in kbDown : /\ kbc' = PushBytes(kbc, HostKeyBytes(UpEvent(c)))
                             /\ kbDown' = kbDown \ {c}
                             /\ kbHeld' = IF kbHeld = c THEN NoByte ELSE kbHeld
  <2>1. PICK c \in kbDown : /\ kbc' = PushBytes(kbc, HostKeyBytes(UpEvent(c)))
                            /\ kbDown' = kbDown \ {c}
                            /\ kbHeld' = IF kbHeld = c THEN NoByte ELSE kbHeld
    BY <1>2
  <2>2. HostKeyBytes(UpEvent(c)) \in Seq(ScanCodes) /\ TakesTo(HostKeyBytes(UpEvent(c)), kbDown, kbDown')
    BY <1>1, <2>1, CtrlDownTakes DEF KbTypes
  <2>3. KbTypes'
    BY <1>1, <2>1 DEF KbTypes
  <2> QED
    BY <1>1, <2>1, <2>2, <2>3, EventKeeps
<1>3. CASE kbc' = PushBytes(kbc, HostKeyBytes("key up")) /\ kbHeld' = NoByte /\ UNCHANGED kbDown
  <2>1. HostKeyBytes("key up") \in Seq(ScanCodes) /\ TakesTo(HostKeyBytes("key up"), kbDown, kbDown')
    BY <1>1, <1>3, EventBytes, BytesAreScanCodes, KeyUp DEF KbTypes
  <2>2. KbTypes'
    BY <1>1, <1>3 DEF KbTypes
  <2> QED
    BY <1>1, <1>3, <2>1, <2>2, EventKeeps
<1> QED
  BY <1>2, <1>3 DEF KeyPushBreak

LEMMA TypematicKeeps == KbInv /\ HostKeyTypematic => HostKeeps
<1> SUFFICES ASSUME KbInv, HostKeyTypematic PROVE HostKeeps
  OBVIOUS
<1>1. KbTypes /\ kbHeld # NoByte /\ UNCHANGED <<kbBda, kbFetched, kbDown, kbHeld>>
  BY DEF KbInv, HostKeyTypematic
<1>2. PICK bytes : bytes = HostKeyBytes(IF kbHeld = "key" THEN "key down" ELSE DownEvent(kbHeld))
  OBVIOUS
<1>3. bytes \in Seq(ScanCodes) /\ TakesTo(bytes, kbDown, kbDown)
  <2>1. CASE kbHeld = "key"
    BY <1>1, <1>2, <2>1, EventBytes, BytesAreScanCodes, KeyDown DEF KbTypes
  <2>2. CASE kbHeld # "key"
    <3>1. kbHeld \in kbDown /\ kbDown \in SUBSET CtrlKeys /\ kbDown \cup {kbHeld} = kbDown
      BY <1>1, <2>2 DEF KbTypes
    <3> QED
      BY <1>2, <2>2, <3>1, CtrlDownTakes
  <2> QED
    BY <2>1, <2>2
<1>4. kbc' = PushBytes(kbc, bytes)
  BY <1>2 DEF HostKeyTypematic
<1>5. KbTypes'
  BY <1>1 DEF KbTypes
<1> QED
  BY <1>1, <1>3, <1>4, <1>5, EventKeeps

LEMMA BytesJoin ==
    /\ <<"CtrlUp">> \o <<"E0", "CtrlUp">> = <<"CtrlUp", "E0", "CtrlUp">>
    /\ << >> \o <<"E0", "CtrlUp">> = <<"E0", "CtrlUp">>
<1> DEFINE one == <<"CtrlUp">>
           two == <<"E0", "CtrlUp">>
<1>1. one \in Seq(ScanCodes) /\ two \in Seq(ScanCodes) /\ Len(one) = 1 /\ Len(two) = 2
  BY BytesAreScanCodes
<1>2. PICK j : j = one \o two
  OBVIOUS
<1>3. j \in Seq(ScanCodes) /\ Len(j) = 3 /\ j[1] = one[1] /\ j[2] = two[1] /\ j[3] = two[2]
  BY <1>1, <1>2, ConcatProperties
<1>4. j = <<"CtrlUp", "E0", "CtrlUp">>
  BY <1>3
<1>5. << >> \o two = two
  BY <1>1, ConcatEmptySeq
<1> QED
  BY <1>2, <1>4, <1>5

LEMMA ReleaseKeeps == KbInv /\ HostReleaseModifiers => HostKeeps
<1> SUFFICES ASSUME KbInv, HostReleaseModifiers PROVE HostKeeps
  OBVIOUS
<1>1. /\ KbTypes /\ kbDown # {} /\ kbDown' = {} /\ UNCHANGED <<kbBda, kbFetched>>
      /\ kbHeld' = IF kbHeld \in kbDown THEN NoByte ELSE kbHeld
  BY DEF KbInv, HostReleaseModifiers
<1>2. PICK bytes : bytes = (IF "left" \in kbDown THEN <<"CtrlUp">> ELSE << >>) \o
                           (IF "right" \in kbDown THEN <<"E0", "CtrlUp">> ELSE << >>)
  OBVIOUS
<1>3. bytes \in Seq(ScanCodes) /\ TakesTo(bytes, kbDown, {})
  <2>1. CASE "left" \in kbDown /\ "right" \in kbDown
    <3>1. bytes = <<"CtrlUp", "E0", "CtrlUp">>
      BY <1>2, <2>1, BytesJoin
    <3> QED
      BY <1>1, <3>1, BytesAreScanCodes, BothUp DEF KbTypes
  <2>2. CASE "left" \in kbDown /\ "right" \notin kbDown
    <3>1. bytes = <<"CtrlUp">> /\ kbDown \ {"left"} = {}
      BY <1>1, <1>2, <2>2 DEF KbTypes, CtrlKeys
    <3> QED
      BY <1>1, <3>1, BytesAreScanCodes, LeftUp DEF KbTypes
  <2>3. CASE "left" \notin kbDown
    <3>1. "right" \in kbDown /\ kbDown \ {"right"} = {}
      BY <1>1, <2>3 DEF KbTypes, CtrlKeys
    <3>2. bytes = <<"E0", "CtrlUp">>
      BY <1>2, <2>3, <3>1, BytesJoin
    <3> QED
      BY <1>1, <3>1, <3>2, BytesAreScanCodes, RightUp DEF KbTypes
  <2> QED
    BY <2>1, <2>2, <2>3
<1>4. kbc' = PushBytes(kbc, bytes)
  BY <1>2, EventBytes DEF HostReleaseModifiers
<1>5. KbTypes'
  BY <1>1 DEF KbTypes
<1> QED
  BY <1>1, <1>3, <1>4, <1>5, EventKeeps

(* The host's poll, the end of a transfer and the mouse.                   *)
LEMMA PolledKeeps ==
    ASSUME KbInv, NEW k, Sound(k), SameKeys(kbc, k), kbc' = VddInputPoll(k),
           UNCHANGED <<kbBda, kbFetched, kbDown, kbHeld>>
    PROVE  KbInv'
<1>1. PICK n : n = kbc'
  OBVIOUS
<1>2. Sound(n) /\ (k.missed => n.missed) /\ (~ n.missed => SameKeys(k, n))
  BY <1>1, PollIs
<1>3. kbc.missed => n.missed
  BY <1>2 DEF SameKeys
<1>4. ~ n.missed => SameKeys(kbc, n)
  BY <1>2 DEF SameKeys
<1>5. InStep(n, kbBda, kbFetched, kbDown)
  BY <1>3, <1>4, StaysInStep DEF KbInv
<1> QED
  BY <1>1, <1>2, <1>5 DEF KbInv, KbTypes

LEMMA PresentKeeps == KbInv /\ HostKeyPresent => HostKeeps
<1> SUFFICES ASSUME KbInv, HostKeyPresent PROVE HostKeeps
  OBVIOUS
<1>1. PICK n : n = kbc'
  OBVIOUS
<1>2. Sound(kbc) /\ n = VddInputPoll(kbc) /\ ~ kbc.irqUp
  BY <1>1 DEF KbInv, HostKeyPresent
<1>3. KbInv'
  <2>1. SameKeys(kbc, kbc)
    BY DEF SameKeys
  <2> QED
    BY <1>2, <2>1, PolledKeeps DEF HostKeyPresent
<1>4. /\ n.auxQueue = kbc.auxQueue /\ (n.reply <=> kbc.reply)
      /\ (n.irqUp <=> kbc.irqUp \/ InputScanCodeAvailable(kbc))
      /\ kbc.auxUp => n.auxUp
  BY <1>2, PollIs
<1>5. kbc.auxUp /\ InputScanCodeAvailable(kbc) => kbc.irqUp
  BY DEF InputScanCodeAvailable
<1>6. Presents(kbc, n)
  BY <1>2, <1>4, <1>5 DEF Presents
<1> QED
  BY <1>1, <1>3, <1>6 DEF HostKeeps

LEMMA TransferKeeps == KbInv /\ TransferDone => HostKeeps
<1> SUFFICES ASSUME KbInv, TransferDone PROVE HostKeeps
  OBVIOUS
<1>1. PICK n : n = kbc'
  OBVIOUS
<1>2. Sound(kbc) /\ kbc.hold /\ n = [kbc EXCEPT !.hold = FALSE]
  BY <1>1 DEF KbInv, TransferDone
<1>3. Sound(n) /\ SameKeys(kbc, n)
  BY <1>2 DEF Sound, HasRoom, Controllers, SameKeys
<1>4. n.auxQueue = kbc.auxQueue /\ (n.auxUp <=> kbc.auxUp) /\ (n.irqUp <=> kbc.irqUp)
      /\ (n.reply <=> kbc.reply)
  BY <1>2 DEF Sound, Controllers
<1>5. Presents(kbc, n)
  BY <1>3, <1>4 DEF Presents, SameKeys
<1>6. kbc.missed => n.missed
  BY <1>3 DEF SameKeys
<1>7. InStep(n, kbBda, kbFetched, kbDown)
  BY <1>3, <1>6, StaysInStep DEF KbInv
<1>8. KbInv'
  BY <1>1, <1>3, <1>7 DEF KbInv, KbTypes, TransferDone
<1> QED
  BY <1>1, <1>5, <1>8 DEF HostKeeps

LEMMA MouseKeeps == KbInv /\ HostMouseMoves => HostKeeps
<1> SUFFICES ASSUME KbInv, HostMouseMoves PROVE HostKeeps
  OBVIOUS
<1>1. PICK c, n : c = AuxPushAll(kbc, Packet) /\ n = kbc'
  OBVIOUS
<1>2. Sound(kbc) /\ Len(kbc.auxQueue) = 0 /\ n = InputAuxPoll(c)
  BY <1>1, QueueLen DEF KbInv, HostMouseMoves
<1>3. /\ Sound(c) /\ SameKeys(kbc, c) /\ (c.irqUp <=> kbc.irqUp) /\ (c.hold <=> kbc.hold)
      /\ (c.reply <=> kbc.reply) /\ (c.auxUp <=> kbc.auxUp)
  BY <1>1, <1>2, PacketPushed
<1>4. /\ Sound(n) /\ SameKeys(c, n) /\ n.auxQueue = c.auxQueue
      /\ (n.irqUp <=> c.irqUp) /\ (n.hold <=> c.hold) /\ (n.reply <=> c.reply)
      /\ c.auxUp => n = c
      /\ n.auxUp => c.auxUp \/ InputAuxAvailable(c)
  BY <1>2, <1>3, AuxPollIs
<1>5. ~ kbc.auxUp
  BY <1>2, QueueLen DEF Sound, Controllers
<1>6. c.irqUp /\ InputAuxAvailable(c) => c.auxUp
  BY DEF InputAuxAvailable
<1>7. SameKeys(kbc, n)
  BY <1>3, <1>4 DEF SameKeys
<1>8. Presents(kbc, n)
  BY <1>3, <1>4, <1>5, <1>6, <1>7 DEF Presents, SameKeys
<1>9. kbc.missed => n.missed
  BY <1>7 DEF SameKeys
<1>10. InStep(n, kbBda, kbFetched, kbDown)
  BY <1>7, <1>9, StaysInStep DEF KbInv
<1>11. KbInv'
  BY <1>1, <1>4, <1>10 DEF KbInv, KbTypes, HostMouseMoves
<1> QED
  BY <1>1, <1>8, <1>11 DEF HostKeeps

LEMMA HostStepKeeps == KbInv /\ HostStepKb => HostKeeps
  BY MakeKeeps, BreakKeeps, TypematicKeeps, ReleaseKeeps, PresentKeeps, TransferKeeps, MouseKeeps
     DEF HostStepKb

-----------------------------------------------------------------------------
(* The guest.                                                              *)

LEMMA KeysKeep ==
    ASSUME KbInv, Sound(kbc'), SameKeys(kbc, kbc'), UNCHANGED <<kbBda, kbFetched, kbDown, kbHeld>>
    PROVE  KbInv'
<1>1. PICK n : n = kbc'
  OBVIOUS
<1>2. Sound(n) /\ SameKeys(kbc, n) /\ (kbc.missed => n.missed)
  BY <1>1 DEF SameKeys
<1>3. InStep(n, kbBda, kbFetched, kbDown)
  BY <1>2, StaysInStep DEF KbInv
<1> QED
  BY <1>1, <1>2, <1>3 DEF KbInv, KbTypes

(* A byte taken from the queue: if none was lost before it, the BIOS is on *)
(* its way after it too.                                                   *)
LEMMA TakenIs ==
    ASSUME NEW k, Sound(k), NEW b \in Views, NEW x \in ScanCodes \cup {NoByte}, NEW down,
           InStep(k, b, x, down), ~ k.missed, k.queue # << >>, ~ k.owed
    PROVE  \E e \in Views : Matches(e, down) /\ Leads(Seen(Seen(b, x), Head(k.queue)), Tail(k.queue), e)
<1>1. PICK c : c = Seen(b, x)
  OBVIOUS
<1>2. Seen(c, Owes(k)) = c
  BY DEF Seen, Owes
<1>3. k.queue \in Seq(ScanCodes) /\ Head(k.queue) \in ScanCodes
  <2>1. k.queue \in Seq(ScanCodes)
    BY DEF Sound, Controllers
  <2> QED
    BY <2>1, QueueLen
<1>4. PICK e \in Views : Leads(c, k.queue, e) /\ Matches(e, down)
  BY <1>1, <1>2 DEF InStep
<1>5. Leads(InputBiosTranslate(c, Head(k.queue)), Tail(k.queue), e)
  BY <1>3, <1>4, LeadsRest
<1>6. Seen(c, Head(k.queue)) = InputBiosTranslate(c, Head(k.queue))
  BY <1>3, NoByteIs DEF Seen
<1> QED
  BY <1>1, <1>4, <1>5, <1>6

LEMMA ReadKeeps == KbInv /\ InputKeyboardPortIn => KbInv'
<1> SUFFICES ASSUME KbInv, InputKeyboardPortIn PROVE KbInv'
  OBVIOUS
<1>1. /\ kbc' = ReadData(kbc) /\ UNCHANGED <<kbBda, kbFetched, kbDown, kbHeld>>
      /\ Sound(kbc) /\ kbc \in Controllers
  BY DEF KbInv, InputKeyboardPortIn, Sound
<1>2. CASE kbc.reply
  <2>1. kbc' = [kbc EXCEPT !.reply = FALSE]
    BY <1>1, <1>2 DEF ReadData
  <2>2. Sound(kbc') /\ SameKeys(kbc, kbc')
    BY <1>1, <2>1 DEF Sound, HasRoom, Controllers, SameKeys
  <2> QED
    BY <1>1, <2>2, KeysKeep
<1>3. CASE ~ kbc.reply /\ ~ InputScanCodeAvailable(kbc) /\ InputAuxAvailable(kbc)
  <2>1. PICK q : q = Tail(kbc.auxQueue)
    OBVIOUS
  <2>2. PICK k : k = [kbc EXCEPT !.auxQueue = q, !.auxUp = FALSE]
    OBVIOUS
  <2>3. kbc' = VddInputPoll(k)
    <3>1. [kbc EXCEPT !.auxQueue = Tail(@), !.auxUp = FALSE] = k
      BY <1>1, <2>1, <2>2 DEF Controllers
    <3> QED
      BY <1>1, <1>3, <3>1 DEF ReadData
  <2>4. q \in Seq(AuxBytes) /\ Len(q) = Len(kbc.auxQueue) - 1 /\ Len(kbc.auxQueue) \in Nat
    BY <1>1, <1>3, <2>1, QueueLen DEF Controllers, InputAuxAvailable
  <2>5. Len(q) <= AuxQueueSize - 1
    BY <1>1, <2>4, KeyboardAssumption DEF Sound
  <2>6. k \in Controllers
    BY <1>1, <2>2, <2>4 DEF Controllers
  <2>7. /\ SameKeys(kbc, k) /\ k.auxQueue = q /\ ~ k.auxUp /\ (k.irqUp <=> kbc.irqUp)
        /\ (k.hold <=> kbc.hold) /\ (k.translated <=> kbc.translated)
        /\ (k.refused <=> kbc.refused) /\ (k.eager <=> kbc.eager)
    BY <1>1, <2>2 DEF Controllers, SameKeys
  <2>9. HasRoom(k, 7)
    <3>1. \A i \in 4 .. Len(q) : i + 1 \in 4 .. Len(kbc.auxQueue) /\ q[i] = kbc.auxQueue[i + 1]
      BY <1>1, <1>3, <2>1, <2>4 DEF Controllers, InputAuxAvailable
    <3> QED
      BY <1>1, <2>4, <2>7, <3>1 DEF Sound, HasRoom
  <2>8. Sound(k)
    BY <1>1, <2>5, <2>6, <2>7, <2>9 DEF Sound, SameKeys
  <2> QED
    BY <1>1, <2>3, <2>7, <2>8, PolledKeeps
<1>4. CASE ~ kbc.reply /\ InputScanCodeAvailable(kbc)
  <2>1. PICK p : p = InputScanCodePop(kbc)
    OBVIOUS
  <2>2. /\ p \in Controllers
        /\ kbc.queue # << >>
        /\ p.queue = Tail(kbc.queue) /\ p.last = Head(kbc.queue) /\ p.last \in ScanCodes
        /\ Len(p.queue) <= ScanCodeQueueSize - 1
        /\ ~ p.irqUp /\ SameMouse(kbc, p)
        /\ (p.owed <=> kbc.owed) /\ (p.missed <=> kbc.missed) /\ (p.refused <=> kbc.refused) /\ (p.eager <=> kbc.eager)
    BY <1>1, <1>4, <2>1, PopIs
  <2>3. PICK k : k = [p EXCEPT !.owed = TRUE, !.missed = @ \/ kbc.owed, !.translated = FALSE]
    OBVIOUS
  <2>4. kbc' = VddInputPoll(k)
    BY <1>1, <1>4, <2>1, <2>3 DEF ReadData
  <2>5. k \in Controllers
    BY <2>2, <2>3 DEF Controllers
  <2>6. /\ k.owed /\ (k.missed <=> kbc.missed \/ kbc.owed) /\ ~ k.translated
        /\ k.queue = p.queue /\ k.last = p.last /\ ~ k.irqUp /\ SameMouse(kbc, k) /\ (k.refused <=> kbc.refused) /\ (k.eager <=> kbc.eager)
    BY <2>2, <2>3 DEF Controllers, SameMouse
  <2> HIDE <2>1, <2>3
  <2>7. Sound(k)
    BY <1>1, <2>2, <2>5, <2>6 DEF Sound, HasRoom, SameMouse
  <2>8. PICK n : n = kbc'
    OBVIOUS
  <2>9. Sound(n) /\ (k.missed => n.missed) /\ (~ n.missed => SameKeys(k, n))
    BY <2>4, <2>7, <2>8, PollIs
  <2>10. ASSUME ~ n.missed
         PROVE  \E e \in Views : /\ Leads(Seen(Seen(kbBda, kbFetched), Owes(n)), n.queue, e)
                                 /\ Matches(e, kbDown)
    <3>1. ~ kbc.missed /\ ~ kbc.owed /\ Owes(n) = Head(kbc.queue) /\ n.queue = Tail(kbc.queue)
      BY <2>2, <2>6, <2>9, <2>10 DEF SameKeys, Owes
    <3>2. \E e \in Views : /\ Matches(e, kbDown)
                           /\ Leads(Seen(Seen(kbBda, kbFetched), Head(kbc.queue)), Tail(kbc.queue), e)
      BY <1>1, <2>2, <3>1, TakenIs DEF KbInv, KbTypes
    <3> QED
      BY <3>1, <3>2
  <2>11. InStep(n, kbBda, kbFetched, kbDown)
    BY <2>10 DEF InStep
  <2> QED
    BY <1>1, <2>8, <2>9, <2>11 DEF KbInv, KbTypes
<1>5. CASE ~ kbc.reply /\ ~ InputScanCodeAvailable(kbc) /\ ~ InputAuxAvailable(kbc)
  <2>1. kbc' = kbc
    BY <1>1, <1>5 DEF ReadData
  <2> QED
    BY <1>1, <2>1, KeysKeep DEF SameKeys
<1> QED
  BY <1>2, <1>3, <1>4, <1>5

LEMMA CommandKeeps == KbInv /\ CommandWrite => KbInv'
<1> SUFFICES ASSUME KbInv, CommandWrite PROVE KbInv'
  OBVIOUS
<1>1. /\ UNCHANGED <<kbBda, kbFetched, kbDown, kbHeld>>
      /\ Sound(kbc) /\ kbc \in Controllers
  BY DEF KbInv, CommandWrite, Sound
<1>2. PICK c \in {"self test", "keyboard off", "keyboard on", "aux off", "aux on",
                  "command byte", "aux", "buffer", "output port"} : kbc' = ControllerCommand(kbc, c)
  BY DEF CommandWrite
<1>3. PICK k : k = [kbc EXCEPT !.command = "none"]
  OBVIOUS
<1>4. Sound(k) /\ SameKeys(kbc, k)
  BY <1>1, <1>3 DEF Sound, HasRoom, Controllers, SameKeys, Pending
<1>5. CASE c = "self test"
  <2>1. kbc' = [k EXCEPT !.reply = TRUE]
    BY <1>2, <1>3, <1>5 DEF ControllerCommand, Pending
  <2>2. Sound(kbc') /\ SameKeys(kbc, kbc')
    BY <1>4, <2>1 DEF Sound, HasRoom, Controllers, SameKeys
  <2> QED
    BY <1>1, <2>2, KeysKeep
<1>6. CASE c = "keyboard off"
  <2>1. kbc' = [k EXCEPT !.keyboardOff = TRUE]
    BY <1>2, <1>3, <1>6 DEF ControllerCommand, Pending
  <2>2. Sound(kbc') /\ SameKeys(kbc, kbc')
    BY <1>4, <2>1 DEF Sound, HasRoom, Controllers, SameKeys
  <2> QED
    BY <1>1, <2>2, KeysKeep
<1>7. CASE c = "keyboard on"
  <2>1. PICK n : n = [k EXCEPT !.keyboardOff = FALSE]
    OBVIOUS
  <2>2. kbc' = VddInputPoll(n)
    BY <1>2, <1>3, <1>7, <2>1 DEF ControllerCommand, Pending
  <2>3. Sound(n) /\ SameKeys(kbc, n)
    BY <1>4, <2>1 DEF Sound, HasRoom, Controllers, SameKeys
  <2> QED
    BY <1>1, <2>2, <2>3, PolledKeeps
<1>8. CASE c = "aux off"
  <2>1. kbc' = [k EXCEPT !.auxOff = TRUE]
    BY <1>2, <1>3, <1>8 DEF ControllerCommand, Pending
  <2>2. Sound(kbc') /\ SameKeys(kbc, kbc')
    BY <1>4, <2>1 DEF Sound, HasRoom, Controllers, SameKeys
  <2> QED
    BY <1>1, <2>2, KeysKeep
<1>9. CASE c = "aux on"
  <2>1. PICK n : n = [k EXCEPT !.auxOff = FALSE]
    OBVIOUS
  <2>2. kbc' = InputAuxPoll(n)
    BY <1>2, <1>3, <1>9, <2>1 DEF ControllerCommand, Pending
  <2>3. Sound(n) /\ SameKeys(kbc, n)
    BY <1>4, <2>1 DEF Sound, HasRoom, Controllers, SameKeys
  <2>4. Sound(kbc') /\ SameKeys(n, kbc')
    BY <2>2, <2>3, AuxPollIs
  <2>5. SameKeys(kbc, kbc')
    BY <2>3, <2>4 DEF SameKeys
  <2> QED
    BY <1>1, <2>4, <2>5, KeysKeep
<1>10. CASE c \in Pending
  <2>1. kbc' = [k EXCEPT !.command = c]
    BY <1>2, <1>3, <1>10 DEF ControllerCommand, Pending
  <2>2. Sound(kbc') /\ SameKeys(kbc, kbc')
    BY <1>4, <1>10, <2>1 DEF Sound, HasRoom, Controllers, SameKeys
  <2> QED
    BY <1>1, <2>2, KeysKeep
<1> QED
  BY <1>5, <1>6, <1>7, <1>8, <1>9, <1>10 DEF Pending

LEMMA ParameterKeeps == KbInv /\ ParameterWrite => KbInv'
<1> SUFFICES ASSUME KbInv, ParameterWrite PROVE KbInv'
  OBVIOUS
<1>1. /\ UNCHANGED <<kbBda, kbFetched, kbDown, kbHeld>>
      /\ Sound(kbc) /\ kbc \in Controllers
  BY DEF KbInv, ParameterWrite, Sound
<1>2. CASE \E kOff, aOff \in BOOLEAN :
             kbc' = VddInputPoll([kbc EXCEPT !.command = "none", !.keyboardOff = kOff, !.auxOff = aOff])
  <2>1. PICK kOff, aOff \in BOOLEAN :
          kbc' = VddInputPoll([kbc EXCEPT !.command = "none", !.keyboardOff = kOff, !.auxOff = aOff])
    BY <1>2
  <2>2. PICK k : k = [kbc EXCEPT !.command = "none", !.keyboardOff = kOff, !.auxOff = aOff]
    OBVIOUS
  <2>3. kbc' = VddInputPoll(k)
    BY <2>1, <2>2
  <2>4. Sound(k) /\ SameKeys(kbc, k)
    BY <1>1, <2>2 DEF Sound, HasRoom, Controllers, SameKeys, Pending
  <2> QED
    BY <1>1, <2>3, <2>4, PolledKeeps
<1>3. CASE kbc' = VddInputPushScanCode([kbc EXCEPT !.command = "none"], "KeyDn")
  <2>1. PICK k : k = [kbc EXCEPT !.command = "none"]
    OBVIOUS
  <2>2. Sound(k) /\ SameKeys(kbc, k)
    BY <1>1, <2>1 DEF Sound, HasRoom, Controllers, SameKeys, Pending
  <2>3. kbc.missed => k.missed
    BY <2>2 DEF SameKeys
  <2>4. InStep(k, kbBda, kbFetched, kbDown)
    BY <2>2, <2>3, StaysInStep DEF KbInv
  <2>5. TakesTo(<<"KeyDn">>, kbDown, kbDown) /\ "KeyDn" \in ScanCodes
    BY KeyDown DEF KbInv, KbTypes, ScanCodes
  <2>6. PICK n : n = VddInputPushScanCode(k, "KeyDn")
    OBVIOUS
  <2>7. Sound(n) /\ InStep(n, kbBda, kbFetched, kbDown)
    BY <2>2, <2>4, <2>5, <2>6, PushStaysInStep DEF KbInv, KbTypes
  <2>8. n = kbc'
    BY <1>3, <2>1, <2>6
  <2> QED
    BY <1>1, <2>7, <2>8 DEF KbInv, KbTypes
<1>4. CASE kbc' = [kbc EXCEPT !.command = "none"]
  <2>1. Sound(kbc') /\ SameKeys(kbc, kbc')
    BY <1>1, <1>4 DEF Sound, HasRoom, Controllers, SameKeys, Pending
  <2> QED
    BY <1>1, <2>1, KeysKeep
<1> QED
  BY <1>2, <1>3, <1>4 DEF ParameterWrite

(* The keyboard answers a command: no key goes up or down.                 *)
LEMMA AnsweredKeeps ==
    ASSUME KbInv, NEW k, Sound(k), SameKeys(kbc, k), UNCHANGED <<kbBda, kbFetched, kbDown, kbHeld>>,
           \/ kbc' = VddInputPushScanCode(k, "Ack")
           \/ kbc' = PushBytes(k, <<"Ack", "Id", "KeyDn">>)
           \/ kbc' = PushBytes(k, <<"Ack", "Id">>)
    PROVE  KbInv'
<1>1. KbTypes /\ kbBda \in Views /\ kbFetched \in ScanCodes \cup {NoByte} /\ kbDown \in SUBSET CtrlKeys
  BY DEF KbInv, KbTypes
<1>2. kbc.missed => k.missed
  BY DEF SameKeys
<1>3. InStep(k, kbBda, kbFetched, kbDown)
  BY <1>2, StaysInStep DEF KbInv
<1>4. Sound(VddInputPushScanCode(k, "Ack")) /\ InStep(VddInputPushScanCode(k, "Ack"), kbBda, kbFetched, kbDown)
  <2>1. "Ack" \in ScanCodes /\ TakesTo(<<"Ack">>, kbDown, kbDown)
    BY <1>1, Acknowledged DEF ScanCodes
  <2> QED
    BY <1>1, <1>3, <2>1, PushStaysInStep
<1>5. ASSUME NEW bytes \in {<<"Ack", "Id", "KeyDn">>, <<"Ack", "Id">>}
      PROVE  Sound(PushBytes(k, bytes)) /\ InStep(PushBytes(k, bytes), kbBda, kbFetched, kbDown)
  <2>1. bytes \in Seq(ScanCodes) /\ TakesTo(bytes, kbDown, kbDown)
    BY <1>1, BytesAreScanCodes, Identified, Restarted
  <2> QED
    BY <1>1, <1>3, <2>1, PushesStayInStep
<1>6. Sound(kbc') /\ InStep(kbc', kbBda, kbFetched, kbDown)
  BY <1>4, <1>5
<1> QED
  BY <1>1, <1>6 DEF KbInv, KbTypes

LEMMA KeyboardKeeps == KbInv /\ KeyboardWrite => KbInv'
<1> SUFFICES ASSUME KbInv, KeyboardWrite PROVE KbInv'
  OBVIOUS
<1>1. /\ UNCHANGED <<kbBda, kbFetched, kbDown, kbHeld>>
      /\ Sound(kbc) /\ kbc \in Controllers /\ kbc.expects \in BOOLEAN
  BY DEF KbInv, KeyboardWrite, Sound, Controllers
<1>2. PICK k : k = [kbc EXCEPT !.keyboardOff = FALSE]
  OBVIOUS
<1>3. PICK m : m = [k EXCEPT !.expects = FALSE]
  OBVIOUS
<1>4. PICK n : n = [k EXCEPT !.expects = TRUE]
  OBVIOUS
<1>5. Sound(k) /\ SameKeys(kbc, k) /\ (k.expects <=> kbc.expects)
  BY <1>1, <1>2 DEF Sound, HasRoom, Controllers, SameKeys
<1>6. Sound(m) /\ SameKeys(kbc, m)
  BY <1>3, <1>5 DEF Sound, HasRoom, Controllers, SameKeys
<1>7. Sound(n) /\ SameKeys(kbc, n)
  BY <1>4, <1>5 DEF Sound, HasRoom, Controllers, SameKeys
<1>8. \/ kbc' = VddInputPushScanCode(m, "Ack")
      \/ kbc' = VddInputPushScanCode(n, "Ack")
      \/ kbc' = PushBytes(k, <<"Ack", "Id", "KeyDn">>)
      \/ kbc' = PushBytes(k, <<"Ack", "Id">>)
      \/ kbc' = VddInputPushScanCode(k, "Ack")
  BY <1>2, <1>3, <1>4, <1>5 DEF KeyboardWrite
<1> HIDE <1>2, <1>3, <1>4
<1> QED
  BY <1>1, <1>5, <1>6, <1>7, <1>8, AnsweredKeeps

LEMMA AnswerIs ==
    ASSUME NEW a, NEW c \in AuxCommands
    PROVE  AuxAnswer(a, c)[2] \in Replies
<1>1. \A p, q : <<p, q>>[2] = q
  OBVIOUS
<1>2. AuxReplies(c) \in Replies
  BY DEF AuxReplies, Replies, AuxCommands
<1> QED
  BY <1>1, <1>2 DEF AuxAnswer, Replies

LEMMA AuxKeeps == KbInv /\ AuxWrite => KbInv'
<1> SUFFICES ASSUME KbInv, AuxWrite PROVE KbInv'
  OBVIOUS
<1>1. /\ UNCHANGED <<kbBda, kbFetched, kbDown, kbHeld>>
      /\ Sound(kbc) /\ kbc \in Controllers
  BY DEF KbInv, AuxWrite, GuestWritesPort, Sound
<1>a. PICK early : early = AnswerUnread(kbc) /\ early \in BOOLEAN
  BY DEF AnswerUnread
<1>2. PICK bytes \in Replies :
         kbc' = InputAuxPoll(AuxPushAll([kbc EXCEPT !.command = "none", !.eager = @ \/ early], bytes))
  BY <1>a, AnswerIs DEF AuxWrite
<1>3. PICK k : k = [kbc EXCEPT !.command = "none", !.eager = @ \/ early]
  OBVIOUS
<1>4. Sound(k) /\ HasRoom(k, 3) /\ SameKeys(kbc, k)
  <2>1. PICK x \in BOOLEAN : x = (kbc.eager \/ early)
    BY <1>a
  <2>2. k = [kbc EXCEPT !.command = "none", !.eager = x]
    BY <1>1, <1>3, <2>1 DEF Controllers
  <2>3. k \in Controllers
    BY <1>1, <2>2 DEF Controllers, Pending
  <2>4. /\ SameKeys(kbc, k) /\ SameMouse(kbc, k) /\ (k.irqUp <=> kbc.irqUp) /\ (k.hold <=> kbc.hold)
        /\ (k.translated <=> kbc.translated) /\ (k.refused <=> kbc.refused)
        /\ (k.eager <=> kbc.eager \/ early)
    BY <1>1, <2>1, <2>2 DEF Controllers, SameKeys, SameMouse
  <2>5. HasRoom(k, 3)
    <3>1. Len(kbc.auxQueue) \in Nat
      BY <1>1, QueueLen DEF Controllers
    <3> QED
      BY <1>1, <1>a, <2>4, <3>1 DEF Sound, HasRoom, AnswerUnread, SameMouse
  <2>6. HasRoom(k, 7)
    BY <1>1, <2>4 DEF Sound, HasRoom, SameMouse
  <2> HIDE <1>3, <2>2
  <2> QED
    BY <1>1, <2>3, <2>4, <2>5, <2>6 DEF Sound, SameKeys, SameMouse
<1>5. PICK m : m = AuxPushAll(k, bytes)
  OBVIOUS
<1>6. Sound(m) /\ SameKeys(k, m)
  BY <1>4, <1>5, AnswerPushed
<1>7. kbc' = InputAuxPoll(m)
  BY <1>2, <1>3, <1>5
<1>8. Sound(kbc') /\ SameKeys(m, kbc')
  BY <1>6, <1>7, AuxPollIs
<1>9. SameKeys(kbc, kbc')
  BY <1>4, <1>6, <1>8 DEF SameKeys
<1> QED
  BY <1>1, <1>8, <1>9, KeysKeep

(* What the BIOS takes, whether it was read by a hook before or not.       *)
LEMMA FetchIs ==
    ASSUME NEW k, Sound(k), CanFetch(k), NEW b \in Views, NEW down, InStep(k, b, NoByte, down)
    PROVE  /\ Sound(BiosFetch(k)) /\ FetchedByte(k) \in ScanCodes
           /\ InStep(BiosFetch(k), b, FetchedByte(k), down)
           /\ InStep(BiosFetch(k), InputBiosTranslate(b, FetchedByte(k)), NoByte, down)
<1>1. PICK n, x : n = BiosFetch(k) /\ x = FetchedByte(k)
  OBVIOUS
<1>2. k \in Controllers
  BY DEF Sound
<1>3. Seen(b, NoByte) = b
  BY DEF Seen
<1>4. Sound(n) /\ x \in ScanCodes /\ ~ n.owed /\ (n.missed <=> k.missed)
      /\ (~ k.missed => \E e \in Views : Matches(e, down) /\ Leads(Seen(b, x), n.queue, e))
  <2>1. CASE k.owed
    <3>1. n = [k EXCEPT !.owed = FALSE, !.translated = TRUE] /\ x = k.last
      BY <1>1, <2>1 DEF BiosFetch, FetchedByte
    <3>2. Sound(n) /\ ~ n.owed /\ n.queue = k.queue /\ (n.missed <=> k.missed)
      BY <1>2, <3>1 DEF Sound, HasRoom, Controllers
    <3>3. x \in ScanCodes /\ Owes(k) = x
      BY <2>1, <3>1 DEF Sound, Owes
    <3>4. ~ k.missed => \E e \in Views : Matches(e, down) /\ Leads(Seen(b, x), n.queue, e)
      BY <1>3, <3>2, <3>3 DEF InStep
    <3> QED
      BY <3>2, <3>3, <3>4
  <2>2. CASE ~ k.owed
    <3>1. InputScanCodeAvailable(k) /\ x = Head(k.queue)
      BY <1>1, <2>2 DEF CanFetch, FetchedByte
    <3>2. PICK p : p = InputScanCodePop(k)
      OBVIOUS
    <3>3. /\ p \in Controllers
          /\ k.queue # << >>
          /\ p.queue = Tail(k.queue) /\ p.last = Head(k.queue) /\ p.last \in ScanCodes
          /\ Len(p.queue) <= ScanCodeQueueSize - 1
          /\ ~ p.irqUp /\ SameMouse(k, p)
          /\ (p.owed <=> k.owed) /\ (p.missed <=> k.missed) /\ (p.refused <=> k.refused) /\ (p.eager <=> k.eager)
      BY <3>1, <3>2, PopIs
    <3>4. PICK m : m = [p EXCEPT !.translated = TRUE]
      OBVIOUS
    <3>5. n = VddInputPoll(m)
      BY <1>1, <2>2, <3>2, <3>4 DEF BiosFetch
    <3>6. /\ m \in Controllers /\ m.queue = p.queue /\ m.last = p.last /\ ~ m.irqUp
          /\ SameMouse(k, m) /\ (m.refused <=> k.refused) /\ (m.eager <=> k.eager) /\ ~ m.owed /\ (m.missed <=> k.missed)
      BY <2>2, <3>3, <3>4 DEF Controllers, SameMouse
    <3> HIDE <3>2, <3>4
    <3>7. Sound(m)
      BY <3>3, <3>6 DEF Sound, HasRoom, SameMouse
    <3>8. Sound(n) /\ SameKeys(m, n)
      BY <3>5, <3>6, <3>7, PollIs
    <3>9. ~ n.owed /\ (n.missed <=> k.missed) /\ n.queue = Tail(k.queue) /\ x \in ScanCodes
      BY <3>1, <3>3, <3>6, <3>8 DEF SameKeys
    <3>10. ~ k.missed => \E e \in Views : Matches(e, down) /\ Leads(Seen(b, x), n.queue, e)
      BY <1>3, <2>2, <3>1, <3>3, <3>9, TakenIs
    <3> QED
      BY <3>8, <3>9, <3>10
  <2> QED
    BY <2>1, <2>2
<1>5. Owes(n) = NoByte /\ Seen(b, x) = InputBiosTranslate(b, x)
  BY <1>4, NoByteIs DEF Owes, Seen
<1>6. /\ Seen(Seen(b, x), Owes(n)) = Seen(b, x)
      /\ Seen(Seen(InputBiosTranslate(b, x), NoByte), Owes(n)) = Seen(b, x)
  BY <1>5 DEF Seen
<1>7. InStep(n, b, x, down) /\ InStep(n, InputBiosTranslate(b, x), NoByte, down)
  BY <1>4, <1>6 DEF InStep
<1> QED
  BY <1>1, <1>4, <1>7

LEMMA ConsumeKeeps == KbInv /\ VddInputBiosConsume => KbInv'
<1> SUFFICES ASSUME KbInv, VddInputBiosConsume PROVE KbInv'
  OBVIOUS
<1>1. /\ UNCHANGED <<kbFetched, kbDown, kbHeld>> /\ kbFetched = NoByte
      /\ kbBda' = InputBiosTranslate(kbBda, FetchedByte(kbc)) /\ kbc' = BiosFetch(kbc)
      /\ Sound(kbc) /\ CanFetch(kbc) /\ KbTypes /\ InStep(kbc, kbBda, NoByte, kbDown)
  BY DEF KbInv, VddInputBiosConsume
<1>2. /\ Sound(BiosFetch(kbc)) /\ FetchedByte(kbc) \in ScanCodes
      /\ InStep(BiosFetch(kbc), InputBiosTranslate(kbBda, FetchedByte(kbc)), NoByte, kbDown)
  BY <1>1, FetchIs DEF KbTypes
<1>3. InputBiosTranslate(kbBda, FetchedByte(kbc)) \in Views
  BY <1>1, <1>2, TranslateIs DEF KbTypes
<1>4. Sound(kbc') /\ InStep(kbc', kbBda', kbFetched', kbDown') /\ kbBda' \in Views
  BY <1>1, <1>2, <1>3
<1> QED
  BY <1>1, <1>4 DEF KbInv, KbTypes

LEMMA FetchKeeps == KbInv /\ VddInputBiosFetch => KbInv'
<1> SUFFICES ASSUME KbInv, VddInputBiosFetch PROVE KbInv'
  OBVIOUS
<1>1. /\ UNCHANGED <<kbBda, kbDown, kbHeld>> /\ kbFetched = NoByte
      /\ kbFetched' = FetchedByte(kbc) /\ kbc' = BiosFetch(kbc)
      /\ Sound(kbc) /\ CanFetch(kbc) /\ KbTypes /\ InStep(kbc, kbBda, NoByte, kbDown)
  BY DEF KbInv, VddInputBiosFetch
<1>2. /\ Sound(BiosFetch(kbc)) /\ FetchedByte(kbc) \in ScanCodes
      /\ InStep(BiosFetch(kbc), kbBda, FetchedByte(kbc), kbDown)
  BY <1>1, FetchIs DEF KbTypes
<1>3. Sound(kbc') /\ InStep(kbc', kbBda', kbFetched', kbDown') /\ kbFetched' \in ScanCodes
  BY <1>1, <1>2
<1> QED
  BY <1>1, <1>3 DEF KbInv, KbTypes

LEMMA InterceptKeeps == KbInv /\ InterceptReturns => KbInv'
<1> SUFFICES ASSUME KbInv, InterceptReturns PROVE KbInv'
  OBVIOUS
<1>1. /\ UNCHANGED <<kbDown, kbHeld>> /\ kbFetched \in ScanCodes /\ kbFetched' = NoByte
      /\ Sound(kbc) /\ KbTypes /\ InStep(kbc, kbBda, kbFetched, kbDown)
  BY DEF KbInv, KbTypes, InterceptReturns
<1>2. CASE kbBda' = InputBiosTranslate(kbBda, kbFetched) /\ UNCHANGED kbc
  <2>1. kbBda' \in Views
    BY <1>1, <1>2, TranslateIs DEF KbTypes
  <2>2. Seen(kbBda', NoByte) = Seen(kbBda, kbFetched)
    BY <1>1, <1>2, NoByteIs DEF Seen
  <2>3. InStep(kbc, kbBda', NoByte, kbDown)
    BY <1>1, <2>2 DEF InStep
  <2> QED
    BY <1>1, <1>2, <2>1, <2>3 DEF KbInv, KbTypes
<1>3. CASE kbc' = [kbc EXCEPT !.missed = TRUE] /\ UNCHANGED kbBda
  <2>1. PICK n : n = kbc'
    OBVIOUS
  <2>2. Sound(n) /\ n.missed
    BY <1>1, <1>3, <2>1 DEF Sound, HasRoom, Controllers
  <2>3. InStep(n, kbBda, NoByte, kbDown)
    BY <2>2 DEF InStep
  <2> QED
    BY <1>1, <1>3, <2>1, <2>2, <2>3 DEF KbInv, KbTypes
<1> QED
  BY <1>2, <1>3 DEF InterceptReturns

LEMMA KbInitKeeps == KbInit => KbInv
<1> SUFFICES ASSUME KbInit PROVE KbInv
  OBVIOUS
<1>1. kbBda \in Views /\ Matches(kbBda, kbDown) /\ kbFetched = NoByte
  BY DEF KbInit, Views, Matches
<1>2. KbTypes
  BY <1>1 DEF KbInit, KbTypes
<1>3. PICK none : none = << >>
  OBVIOUS
<1>4. none \in Seq(ScanCodes) /\ none \in Seq(AuxBytes) /\ Len(none) = 0
  BY <1>3
<1>5. /\ kbc.queue = none /\ kbc.auxQueue = none /\ ~ kbc.owed /\ ~ kbc.irqUp /\ ~ kbc.auxUp /\ ~ kbc.refused
      /\ kbc.translated
  BY <1>3 DEF KbInit
<1>6. kbc \in Controllers
  BY <1>3, <1>4 DEF KbInit, Controllers, Pending
<1>7. Sound(kbc)
  BY <1>4, <1>5, <1>6, KeyboardAssumption DEF Sound, HasRoom
<1>8. Owes(kbc) = NoByte /\ Seen(Seen(kbBda, kbFetched), NoByte) = kbBda
  BY <1>1, <1>5 DEF Owes, Seen
<1>9. Leads(kbBda, kbc.queue, kbBda)
  BY <1>1, <1>4, <1>5, RunsNone DEF Leads
<1>10. InStep(kbc, kbBda, kbFetched, kbDown)
  BY <1>1, <1>8, <1>9 DEF InStep
<1> QED
  BY <1>2, <1>7, <1>10 DEF KbInv

(* The controller is sound and the BIOS in step after any steps of the     *)
(* host's threads and the guest.                                           *)
THEOREM KbInvariant == KbSpec => []KbInv
<1>1. KbInv /\ [KbNext]_kbVars => KbInv'
  <2> SUFFICES ASSUME KbInv, [KbNext]_kbVars PROVE KbInv'
    OBVIOUS
  <2>1. CASE HostStepKb
    BY <2>1, HostStepKeeps DEF HostKeeps
  <2>2. CASE GuestStepKb
    BY <2>2, ReadKeeps, CommandKeeps, ParameterKeeps, KeyboardKeeps, AuxKeeps, ConsumeKeeps,
       FetchKeeps, InterceptKeeps DEF GuestStepKb
  <2>3. CASE UNCHANGED kbVars
    BY <2>3 DEF kbVars, KbInv, KbTypes
  <2> QED
    BY <2>1, <2>2, <2>3 DEF KbNext
<1> QED
  BY <1>1, KbInitKeeps, PTL DEF KbSpec

-----------------------------------------------------------------------------
(* The promises.                                                           *)

(* A byte that a hook read from port 60h and that the BIOS is still owed   *)
(* has not been translated (BiosScanCodesOwed).                            *)
THEOREM TranslatedOnce == KbSpec => []NeverTranslatedTwice
<1>1. KbInv => NeverTranslatedTwice
  BY DEF KbInv, Sound, NeverTranslatedTwice
<1> QED
  BY <1>1, KbInvariant, PTL

(* Once the BIOS has had every byte, its Ctrl flags are the keys down: the *)
(* run of views that the invariant promises is over.                       *)
THEOREM CtrlNeverSticks == KbSpec => []NoStuckCtrl
<1>1. KbInv => NoStuckCtrl
  <2> SUFFICES ASSUME KbInv, ~ kbc.missed, ~ kbc.owed, kbc.queue = << >>, kbFetched = NoByte
               PROVE  /\ kbBda.left = ("left" \in kbDown)
                      /\ kbBda.right = ("right" \in kbDown)
                      /\ ~ kbBda.ext /\ kbBda.e1 = 0
    BY DEF NoStuckCtrl
  <2>1. Owes(kbc) = NoByte /\ Seen(Seen(kbBda, kbFetched), NoByte) = kbBda
    BY DEF Owes, Seen
  <2>2. PICK e \in Views : Leads(kbBda, kbc.queue, e) /\ Matches(e, kbDown)
    BY <2>1 DEF KbInv, InStep
  <2>3. Len(kbc.queue) = 0
    OBVIOUS
  <2>4. e = kbBda
    BY <2>2, <2>3 DEF Leads, Runs, Steps
  <2>5. kbBda \in Views
    BY DEF KbInv, KbTypes
  <2> QED
    BY <2>2, <2>4, <2>5 DEF Matches, Views
<1> QED
  BY <1>1, KbInvariant, PTL

(* A driver that reads each answer of the mouse before it writes the next  *)
(* command loses none of its bytes: behind a packet streamed into an empty *)
(* queue (Ps2MousePump) there is room for the longest answer, the packet   *)
(* asked for (AUX_COMMAND_READ_DATA) among them.                           *)
THEOREM MouseLosesNothing == KbSpec => []MouseBytesKept
<1>1. KbInv => MouseBytesKept
  BY DEF KbInv, Sound, HasRoom, MouseBytesKept
<1> QED
  BY <1>1, KbInvariant, PTL

(* The source of a byte announced is decided by what announced it.         *)
LEMMA SourceIs ==
    ASSUME NEW k, Sound(k)
    PROVE  /\ k.reply => StatusSource(k) = "reply"
           /\ ~ k.reply /\ k.irqUp => StatusSource(k) = "keyboard"
           /\ ~ k.reply /\ ~ k.irqUp /\ k.auxUp => StatusSource(k) = "aux"
<1>1. k.irqUp => InputScanCodeAvailable(k)
  BY DEF InputScanCodeAvailable, Sound
<1>2. ~ k.irqUp /\ k.auxUp => ~ InputScanCodeAvailable(k) /\ InputAuxAvailable(k)
  BY DEF InputScanCodeAvailable, InputAuxAvailable, Sound
<1> QED
  BY <1>1, <1>2 DEF StatusSource

(* No step of the host changes the byte that the next IN 60h will return,  *)
(* once it is announced, unless a byte is lost.                            *)
THEOREM AnnouncedBytesStay == KbSpec => PresentedHeld
<1> DEFINE Held == HostStepKb =>
             /\ kbc.auxUp => StatusSource(kbc') = StatusSource(kbc) /\ Head(kbc'.auxQueue) = Head(kbc.auxQueue)
             /\ kbc.irqUp => \/ StatusSource(kbc') = StatusSource(kbc) /\ Head(kbc'.queue) = Head(kbc.queue)
                             \/ kbc'.missed
<1>1. KbInv /\ [KbNext]_kbVars => [Held]_kbVars
  <2> SUFFICES ASSUME KbInv, HostStepKb
               PROVE  /\ kbc.auxUp => /\ StatusSource(kbc') = StatusSource(kbc)
                                      /\ Head(kbc'.auxQueue) = Head(kbc.auxQueue)
                      /\ kbc.irqUp => \/ /\ StatusSource(kbc') = StatusSource(kbc)
                                         /\ Head(kbc'.queue) = Head(kbc.queue)
                                      \/ kbc'.missed
    OBVIOUS
  <2>1. HostKeeps
    BY HostStepKeeps
  <2>2. PICK k, n : k = kbc /\ n = kbc'
    OBVIOUS
  <2>3. Sound(k) /\ Sound(n) /\ Presents(k, n)
    BY <2>1, <2>2 DEF HostKeeps, KbInv
  <2>4. k.reply \in BOOLEAN /\ n.reply \in BOOLEAN
    BY <2>3 DEF Sound, Controllers
  <2>5. /\ k.auxUp => StatusSource(n) = StatusSource(k) /\ n.auxQueue = k.auxQueue
        /\ k.irqUp => \/ StatusSource(n) = StatusSource(k) /\ Head(n.queue) = Head(k.queue)
                      \/ n.missed
    BY <2>3, <2>4, SourceIs DEF Presents
  <2> QED
    BY <2>2, <2>5
<1>2. KbSpec => [][Held]_kbVars
  BY <1>1, KbInvariant, PTL DEF KbSpec
<1> QED
  BY <1>2 DEF PresentedHeld
=============================================================================
