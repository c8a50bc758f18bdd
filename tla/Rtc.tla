-------------------------------- MODULE Rtc --------------------------------
(***************************************************************************)
(* The interrupts of the real-time clock (vdd_cmos.c): periodic, alarm and  *)
(* update-ended, each with an enable in Status B and a flag in Status C.    *)
(*                                                                          *)
(* VddCmosAddClocks runs under g_PitCs on whichever thread synchronises the *)
(* crystal (the pacer, the UI thread); the guest's accesses to ports 70h    *)
(* and 71h run on the exec thread under g_Lock.  The two locks exclude      *)
(* nothing, so both sides are modelled one access to a shared field at a    *)
(* time: `StatusC |= x' is a load and a store, and the guest's read of      *)
(* Status C is a load and a clear.                                          *)
(***************************************************************************)
EXTENDS Naturals, FiniteSetsExt

CONSTANTS RtcSecond,      \* clock units in a second (PIT_INPUT_HZ)
          RtcPeriod,      \* clock units in a period of the programmed rate
          AlarmSecond,    \* the second the alarm registers name
          RtcDelay,       \* bound: most units between two synchronisations
          RtcEnd,         \* bound: the behaviour ends here
          RtcGuestOps     \* bound: accesses of the guest

ASSUME RtcAssumption == /\ {RtcSecond, RtcPeriod, RtcDelay} \subseteq Nat \ {0}
                        /\ {AlarmSecond, RtcEnd, RtcGuestOps} \subseteq Nat

VARIABLES rtcB,       \* Status B: the enabled interrupts
          rtcC,       \* Status C: the flags
          rtcHeld,    \* IsSetHeld
          rtcHasRate, \* the rate select of Status A is not zero
          rtcSec,     \* SecondAccumulator
          rtcPer,     \* PeriodicAccumulator
          rtcNow,     \* the host's time, and where the crystal last synchronised
          rtcLast,
          rtcPace,    \* VddCmosAddClocks in progress
          rtcExec,    \* the guest's access in progress
          rtcOps,     \* accesses left to the guest (bound)
          rtcOwed,    \* flags raised and not yet returned by a read of Status C
          rtcLate     \* flags raised since the read in progress loaded Status C

rtcVars == <<rtcB, rtcC, rtcHeld, rtcHasRate, rtcSec, rtcPer, rtcNow, rtcLast, rtcPace, rtcExec,
             rtcOps, rtcOwed, rtcLate>>

RtcEnables == {"PIE", "AIE", "UIE"}
RtcFlags   == {"PF", "AF", "UF"}

rtcShared  == <<rtcB, rtcHeld, rtcHasRate>>
rtcGuest   == <<rtcExec, rtcOps>>
rtcGhost   == <<rtcOwed, rtcLate>>
rtcTime    == <<rtcNow, rtcLast>>

(***************************************************************************)
(* VddCmosAddClocks, one shared access at a time.                           *)
(***************************************************************************)
PaceTo(at) == rtcPace' = [rtcPace EXCEPT !.at = at]

\* `StatusC |= flags' loads the flags here and stores them in a later step.
PaceLoad(at) == rtcPace' = [rtcPace EXCEPT !.at = at, !.load = rtcC]
Raised(flags, at) ==
    /\ rtcOwed' = rtcOwed \cup (flags \ {"IRQF"})
    /\ rtcLate' = IF rtcExec.at = "clear" THEN rtcLate \cup flags ELSE {}
    /\ rtcPace' = [rtcPace EXCEPT !.at = at, !.fired = at \in {"alarm", "irq"}]

\* Seeded fault: the flags already set are overwritten.
PaceStore_Overwrites(flags, at) == rtcC' = flags /\ Raised(flags, at)

PaceStore(flags, at) == rtcC' = rtcPace.load \cup flags /\ Raised(flags, at)

\* HostPitGenerate caps a long stall at one second.
AddClocks ==
    /\ rtcPace.at = "idle" /\ rtcNow > rtcLast
    /\ \E clocks \in {Min({rtcNow - rtcLast, RtcSecond})} :
           /\ rtcSec' = IF rtcB \cap {"UIE", "AIE"} # {} THEN rtcSec + clocks ELSE 0
           /\ rtcPace' = [rtcPace EXCEPT !.at = "second", !.clocks = clocks]
    /\ rtcLast' = rtcNow
    /\ UNCHANGED <<rtcC, rtcPer, rtcNow, rtcShared, rtcGuest, rtcGhost>>

CmosSecondEdge ==
    /\ rtcPace.at = "second"
    /\ \/ rtcSec >= RtcSecond /\ rtcSec' = rtcSec - RtcSecond
          /\ PaceTo(IF rtcHeld THEN "second" ELSE "update")
       \/ rtcSec < RtcSecond /\ PaceTo("periodic") /\ UNCHANGED rtcSec
    /\ UNCHANGED <<rtcC, rtcPer, rtcTime, rtcShared, rtcGuest, rtcGhost>>

UpdateEnded ==
    /\ \/ rtcPace.at = "update" /\ UNCHANGED <<rtcC, rtcGhost>>
          /\ IF "UIE" \in rtcB THEN PaceLoad("updateStore") ELSE PaceTo("alarm")
       \/ rtcPace.at = "updateStore" /\ PaceStore({"UF"}, "alarm")
    /\ UNCHANGED <<rtcSec, rtcPer, rtcTime, rtcShared, rtcGuest>>

\* The alarm fires when the clock reads its second at this very moment.
CmosAlarmMatches == rtcNow \div RtcSecond = AlarmSecond

Alarm ==
    /\ \/ rtcPace.at = "alarm" /\ UNCHANGED <<rtcC, rtcGhost>>
          /\ IF "AIE" \in rtcB /\ CmosAlarmMatches THEN PaceLoad("alarmStore")
             ELSE PaceTo(IF rtcPace.fired THEN "irq" ELSE "second")
       \/ rtcPace.at = "alarmStore" /\ PaceStore({"AF"}, "irq")
    /\ UNCHANGED <<rtcSec, rtcPer, rtcTime, rtcShared, rtcGuest>>

\* IRQF, and IRQ8 to the interrupt controller (an input of PicDevice).
SecondIrq ==
    /\ \/ rtcPace.at = "irq" /\ PaceLoad("irqStore") /\ UNCHANGED <<rtcC, rtcGhost>>
       \/ rtcPace.at = "irqStore" /\ PaceStore({"IRQF"}, "second")
    /\ UNCHANGED <<rtcSec, rtcPer, rtcTime, rtcShared, rtcGuest>>

Periodic ==
    /\ \/ /\ rtcPace.at = "periodic" /\ UNCHANGED <<rtcC, rtcGhost>>
          /\ IF "PIE" \in rtcB /\ rtcHasRate
             THEN rtcPer' = rtcPer + rtcPace.clocks /\ PaceTo("ticks")
             ELSE rtcPer' = 0 /\ PaceTo("idle")
       \/ /\ rtcPace.at = "ticks" /\ UNCHANGED <<rtcC, rtcGhost>>
          /\ IF rtcPer >= RtcPeriod
             THEN rtcPer' = rtcPer - RtcPeriod /\ PaceLoad("ticksStore")
             ELSE UNCHANGED rtcPer /\ PaceTo("idle")
       \/ rtcPace.at = "ticksStore" /\ PaceStore({"PF", "IRQF"}, "ticks") /\ UNCHANGED rtcPer
    /\ UNCHANGED <<rtcSec, rtcTime, rtcShared, rtcGuest>>

RtcPacer == AddClocks \/ CmosSecondEdge \/ UpdateEnded \/ Alarm \/ SecondIrq \/ Periodic

\* The pacer synchronises at least every RtcDelay units; a call in progress takes no time.
RtcTimePasses ==
    /\ rtcNow < RtcEnd /\ rtcNow - rtcLast < RtcDelay /\ rtcPace.at = "idle"
    /\ rtcNow' = rtcNow + 1
    /\ UNCHANGED <<rtcC, rtcSec, rtcPer, rtcLast, rtcPace, rtcShared, rtcGuest, rtcGhost>>

(***************************************************************************)
(* The guest.                                                               *)
(***************************************************************************)
GuestStarts(at) == /\ rtcExec.at = "idle" /\ rtcOps > 0
                   /\ rtcOps' = rtcOps - 1
                   /\ rtcExec' = [rtcExec EXCEPT !.at = at, !.flags = rtcC]

\* A read of Status C returns the flags and clears them.
ReadStatusC ==
    /\ GuestStarts("clear")
    /\ UNCHANGED <<rtcC, rtcSec, rtcPer, rtcTime, rtcPace, rtcShared, rtcGhost>>

ClearStatusC ==
    /\ rtcExec.at = "clear"
    /\ rtcC' = {} /\ rtcLate' = {}
    /\ rtcOwed' = rtcOwed \ (rtcExec.flags \cup rtcLate)
    /\ rtcExec' = [rtcExec EXCEPT !.at = "idle", !.flags = {}]
    /\ UNCHANGED <<rtcSec, rtcPer, rtcTime, rtcPace, rtcShared, rtcOps>>

\* SET going high freezes the clock and clears UIE; Status B is stored after it.
WriteStatusB ==
    /\ rtcExec.at = "idle" /\ rtcOps > 0 /\ rtcOps' = rtcOps - 1
    /\ \E enables \in SUBSET RtcEnables, set \in BOOLEAN :
           /\ rtcHeld' = set
           /\ rtcExec' = [at |-> "storeB", flags |-> {},
                          b |-> IF set /\ ~rtcHeld THEN enables \ {"UIE"} ELSE enables]
    /\ UNCHANGED <<rtcB, rtcHasRate, rtcC, rtcSec, rtcPer, rtcTime, rtcPace, rtcGhost>>

StoreStatusB ==
    /\ rtcExec.at = "storeB"
    /\ rtcB' = rtcExec.b
    /\ rtcPer' = IF "PIE" \in rtcExec.b THEN rtcPer ELSE 0
    /\ rtcExec' = [rtcExec EXCEPT !.at = "idle", !.b = {}]
    /\ UNCHANGED <<rtcHeld, rtcHasRate, rtcC, rtcSec, rtcTime, rtcPace, rtcOps, rtcGhost>>

WriteStatusA ==
    /\ rtcExec.at = "idle" /\ rtcOps > 0 /\ rtcOps' = rtcOps - 1
    /\ rtcHasRate' = ~rtcHasRate
    /\ UNCHANGED <<rtcB, rtcHeld, rtcC, rtcSec, rtcPer, rtcTime, rtcPace, rtcExec, rtcGhost>>

RtcInit ==
    /\ rtcB = {} /\ rtcC = {} /\ rtcHeld = FALSE /\ rtcHasRate = TRUE
    /\ rtcSec = 0 /\ rtcPer = 0 /\ rtcNow = 0 /\ rtcLast = 0
    /\ rtcPace = [at |-> "idle", load |-> {}, fired |-> FALSE, clocks |-> 0]
    /\ rtcExec = [at |-> "idle", flags |-> {}, b |-> {}]
    /\ rtcOps = RtcGuestOps /\ rtcOwed = {} /\ rtcLate = {}

RtcNext == RtcPacer \/ RtcTimePasses \/ ReadStatusC \/ ClearStatusC \/ WriteStatusB
              \/ StoreStatusB \/ WriteStatusA

RtcSpec == RtcInit /\ [][RtcNext]_rtcVars

(***************************************************************************)
(* Properties.                                                              *)
(***************************************************************************)
\* "the flags latch and the read clears them" (CmosRead, VddCmosAddClocks), whatever accesses
\* of the two threads fall between each other: a flag raised stands in Status C until a read
\* returns it, or until it is lost in the one window the code leaves open, between the load and
\* the clear of a read; and once a synchronisation is done no flag stands there without IRQF,
\* so that a handler that tests IRQF first cannot overlook the interrupt it was called for.
FlagsReachReader ==
    /\ rtcOwed \subseteq rtcC \cup (IF rtcExec.at = "clear" THEN rtcExec.flags ELSE {})
    /\ (rtcPace.at \in {"idle", "periodic", "ticks"} /\ rtcC # {}) => "IRQF" \in rtcC
=============================================================================
