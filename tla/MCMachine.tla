----------------------------- MODULE MCMachine -----------------------------
(* The parts of the machine and of its services that share no state with    *)
(* each other, for TLC: a behaviour is one of one part, chosen at the start, *)
(* and the others stay as they began.                                       *)
EXTENDS Pit, Rtc, GuestClock, Xms, Ems, DosHandles, MCWowTasks

VARIABLE part

devices  == <<pitVars, rtcVars, clkVars>>
services == <<xmsVars, emsVars, handleVars, wowVars>>

(* One guest programs the counter of the tick, one that of the speaker.     *)
MCPitBudgets == {[c \in {0, 2} |-> IF c = busy THEN 4 ELSE 0] : busy \in {0, 2}}

(* The last days of a century's year and before a leap day, and dates a     *)
(* guest sets.                                                              *)
MCClockStarts == {<<1999, 12, 31>>, <<2000, 2, 28>>}
MCClockDates  == {<<2000, 2, 29>>, <<2001, 2, 29>>, <<2096, 2, 29>>}
MCFieldValues == [time |-> {1}, day |-> {29}, month |-> {2}, year |-> {1900}]

Some(S) == CHOOSE x \in S : TRUE

MachineInit ==
    /\ part \in {"pit", "rtc", "clock", "xms", "ems", "handles", "tasks"}
    /\ PitInit     /\ (part # "pit"     => pitOps = Some(PitBudgets))
    /\ RtcInit
    /\ ClkInit     /\ (part # "clock"   => clkHost = Some({[date |-> d, time |-> 0] : d \in ClockStarts}))
    /\ XmsInit
    /\ EmsInit     /\ (part # "ems"     => emsGuest = Some(EmsGuests))
    /\ HandlesInit /\ (part # "handles" => handleGuest = Some(HandleGuests))
    /\ WowInit     /\ (part # "tasks"   => wowGuest = Some(WowGuests))

DeviceNext ==
    \/ part = "pit"   /\ PitNext /\ UNCHANGED <<rtcVars, clkVars>>
    \/ part = "rtc"   /\ RtcNext /\ UNCHANGED <<pitVars, clkVars>>
    \/ part = "clock" /\ ClkNext /\ UNCHANGED <<pitVars, rtcVars>>

ServiceNext ==
    \/ part = "xms"     /\ XmsNext     /\ UNCHANGED <<emsVars, handleVars, wowVars>>
    \/ part = "ems"     /\ EmsNext     /\ UNCHANGED <<xmsVars, handleVars, wowVars>>
    \/ part = "handles" /\ HandlesNext /\ UNCHANGED <<xmsVars, emsVars, wowVars>>
    \/ part = "tasks"   /\ WowNext     /\ UNCHANGED <<xmsVars, emsVars, handleVars>>

MachineNext ==
    /\ UNCHANGED part
    /\ (DeviceNext /\ UNCHANGED services) \/ (ServiceNext /\ UNCHANGED devices)

MachineSpec == MachineInit /\ [][MachineNext]_<<part, devices, services>>
=============================================================================
