----------------------------- MODULE GuestClock -----------------------------
(***************************************************************************)
(* The times of day a guest sees (dos_clock.h): DOS's clock (INT 21h        *)
(* AH=2Ah..2Dh) and the real-time clock (INT 1Ah AH=02h..05h, CMOS          *)
(* registers 00h..09h) are offsets from the host's clock, and the BIOS tick *)
(* count at 0040:006C is a third clock the guest may store into directly.   *)
(* Dates go through the day-count arithmetic of DosClockDays and            *)
(* DosClockUnpack, checked here against a calendar that only knows the      *)
(* length of each month.                                                    *)
(*                                                                          *)
(* A day has ClockDay units (8,640,000 hundredths in the machine) and a     *)
(* BIOS tick TickUnits of them; the time of day is one number, so hours,    *)
(* minutes and seconds are not told apart.  Ticks arrive in step with the   *)
(* host's time: a paused or overloaded session is not modelled.             *)
(***************************************************************************)
EXTENDS Integers

CONSTANTS ClockDay,     \* units in a day
          TickUnits,    \* units in a BIOS tick; a day is a whole number of ticks
          ClockStarts,  \* the host's dates at start
          ClockDates,   \* dates the guest asks for, real or not
          FieldValues,  \* a record: the values the guest writes to each CMOS clock register
          ClockOps,     \* bound: calls of the guest
          ClockEnd      \* bound: units of host time

ASSUME ClockAssumption == /\ {ClockDay, TickUnits, ClockEnd} \subseteq Nat \ {0}
                          /\ ClockDay % TickUnits = 0 /\ ClockOps \in Nat

VARIABLES clkHost,    \* GetLocalTime: a date and a time of day
          clkDos,     \* DosOffset
          clkRtc,     \* RtcOffset
          clkTicks,   \* 0040:006C, with the witness and what happened since a foreign store
          clkSet,     \* the frozen copy while SET is held in Status B
          clkSpent,   \* host time and guest calls so far (bound)
          clkWant,    \* what each clock should read, kept by the reference calendar
          clkStore    \* the first store into the tick count DOS has yet to notice: the date
                \* it was made on, moved on at each midnight the count has reached since

clkVars == <<clkHost, clkDos, clkRtc, clkTicks, clkSet, clkSpent, clkWant, clkStore>>

TicksPerDay == ClockDay \div TickUnits

(***************************************************************************)
(* dos_clock.h.                                                             *)
(***************************************************************************)
IsLeapYear(y) == (y % 4 = 0 /\ y % 100 # 0) \/ y % 400 = 0
DaysInMonth(y, m) == CASE m \in {4, 6, 9, 11} -> 30
                       [] m = 2 -> IF IsLeapYear(y) THEN 29 ELSE 28
                       [] m \in {1, 3, 5, 7, 8, 10, 12} -> 31
                       [] OTHER -> 0
DosClockIsRealDate(d) == d[1] \in 1 .. 9999 /\ d[2] \in 1 .. 12
                            /\ d[3] \in 1 .. DaysInMonth(d[1], d[2])
DosClockIsDosDateValid(d) == d[1] \in 1980 .. 2099 /\ DosClockIsRealDate(d)
DosClockIsTimeValid(t) == t < ClockDay

ASSUME ClockInputs ==
    /\ \A d \in ClockStarts : d \in Nat \X Nat \X Nat /\ DosClockIsRealDate(d)
    /\ ClockDates \subseteq Nat \X Nat \X Nat
    /\ FieldValues \in [{"time", "day", "month", "year"} -> SUBSET Nat]

\* Days since 0000-03-01: years run from March, so the leap day is a year's last.
DosClockDays(d) ==
    LET shiftedYear  == d[1] - (IF d[2] <= 2 THEN 1 ELSE 0)
        era          == shiftedYear \div 400
        yearOfEra    == shiftedYear - era * 400
        shiftedMonth == IF d[2] > 2 THEN d[2] - 3 ELSE d[2] + 9
        dayOfYear    == (153 * shiftedMonth + 2) \div 5 + d[3] - 1
    IN  era * 146097 + yearOfEra * 365 + yearOfEra \div 4 - yearOfEra \div 100 + dayOfYear

DosClockPack(date, time) == DosClockDays(date) * ClockDay + time

DosClockUnpackDays_NoCentury(days) ==
    LET era       == days \div 146097
        dayOfEra  == days - era * 146097
        yearOfEra == (dayOfEra - dayOfEra \div 1460) \div 365
        dayOfYear == dayOfEra - (365 * yearOfEra + yearOfEra \div 4 - yearOfEra \div 100)
        shiftedMonth == (5 * dayOfYear + 2) \div 153
        month     == IF shiftedMonth < 10 THEN shiftedMonth + 3 ELSE shiftedMonth - 9
    IN  <<yearOfEra + era * 400 + (IF month <= 2 THEN 1 ELSE 0), month,
          dayOfYear - (153 * shiftedMonth + 2) \div 5 + 1>>

DosClockUnpackDays(days) ==
    LET era       == days \div 146097
        dayOfEra  == days - era * 146097
        yearOfEra == (dayOfEra - dayOfEra \div 1460 + dayOfEra \div 36524
                        - dayOfEra \div 146096) \div 365
        dayOfYear == dayOfEra - (365 * yearOfEra + yearOfEra \div 4 - yearOfEra \div 100)
        shiftedMonth == (5 * dayOfYear + 2) \div 153
        month     == IF shiftedMonth < 10 THEN shiftedMonth + 3 ELSE shiftedMonth - 9
    IN  <<yearOfEra + era * 400 + (IF month <= 2 THEN 1 ELSE 0), month,
          dayOfYear - (153 * shiftedMonth + 2) \div 5 + 1>>

DosClockUnpack(packed) == [date |-> DosClockUnpackDays(packed \div ClockDay),
                           time |-> packed % ClockDay]

HostPacked == DosClockPack(clkHost.date, clkHost.time)

\* A clock nobody moved is the host's own reading.
DosClockRead(offset) == IF offset = 0 THEN clkHost ELSE DosClockUnpack(HostPacked + offset)

DosClockSetDate(offset, date) ==
    DosClockPack(date, DosClockUnpack(HostPacked + offset).time) - HostPacked
DosClockSetTime(offset, time) ==
    DosClockPack(DosClockUnpack(HostPacked + offset).date, time) - HostPacked

\* DOS's clock after a store into the tick count: the day of the store, the midnights the
\* count passed since, and the count's time of day.
DosClockFollowTicks_TodaysDate(ticks, wraps, since) ==
    LET atStore == HostPacked + clkDos
    IN  atStore - (atStore % ClockDay) + wraps * ClockDay + ticks * TickUnits - HostPacked

DosClockFollowTicks(ticks, wraps, since) ==
    LET atStore == HostPacked + clkDos - since * TickUnits
    IN  atStore - (atStore % ClockDay) + wraps * ClockDay + ticks * TickUnits - HostPacked

(***************************************************************************)
(* The reference: a calendar as a wall calendar has it.                     *)
(***************************************************************************)
NextDay(d) == IF d[3] < DaysInMonth(d[1], d[2]) THEN <<d[1], d[2], d[3] + 1>>
              ELSE IF d[2] < 12 THEN <<d[1], d[2] + 1, 1>> ELSE <<d[1] + 1, 1, 1>>
NextReading(r) == IF r.time + 1 < ClockDay THEN [r EXCEPT !.time = @ + 1]
                  ELSE [date |-> NextDay(r.date), time |-> 0]

(***************************************************************************)
(* Time passes.  Every TickUnits the BIOS counts a tick (VddPitBiosTick): a *)
(* count that is not the one it left was stored by the guest.               *)
(***************************************************************************)
VddPitTickOwned(count) ==
    [count |-> count, witness |-> count, foreign |-> FALSE, wraps |-> 0, since |-> 0]

VddPitBiosTick(t) ==
    LET foreign == t.foreign \/ t.count # t.witness
        isWrap  == t.count + 1 >= TicksPerDay
        count   == IF isWrap THEN 0 ELSE t.count + 1
        wraps   == IF t.foreign THEN t.wraps ELSE 0
        since   == IF t.foreign THEN t.since ELSE 0
    IN  [count |-> count, witness |-> count, foreign |-> foreign,
         wraps |-> IF foreign /\ isWrap THEN wraps + 1 ELSE wraps,
         since |-> IF foreign THEN since + 1 ELSE since]

\* DOS's clock takes over a count the BIOS did not write.
IsTickTaken == clkTicks.foreign \/ clkTicks.count # clkTicks.witness
TakenWraps == IF clkTicks.foreign THEN clkTicks.wraps ELSE 0
TakenSince == IF clkTicks.foreign THEN clkTicks.since ELSE 0

ClockAdvances ==
    /\ clkSpent.time < ClockEnd
    /\ clkSpent' = [clkSpent EXCEPT !.time = @ + 1]
    /\ clkHost' = NextReading(clkHost)
    /\ IF clkSpent'.time % TickUnits = 0
       THEN /\ clkTicks' = VddPitBiosTick(clkTicks)
            /\ clkStore' = IF IsTickTaken /\ clkTicks.count = TicksPerDay - 1
                           THEN [clkStore EXCEPT !.date = NextDay(@)] ELSE clkStore
       ELSE UNCHANGED <<clkTicks, clkStore>>
    /\ clkWant' = [c \in {"dos", "rtc"} |-> NextReading(clkWant[c])]
    /\ UNCHANGED <<clkDos, clkRtc, clkSet>>

(***************************************************************************)
(* The guest's calls.                                                       *)
(***************************************************************************)
ClockCall == clkSpent.ops < ClockOps /\ clkSpent' = [clkSpent EXCEPT !.ops = @ + 1]

\* DosClockSync.
SyncedOffset == IF IsTickTaken THEN DosClockFollowTicks(clkTicks.count, TakenWraps, TakenSince)
                ELSE clkDos
SyncedTicks == IF IsTickTaken THEN VddPitTickOwned(clkTicks.count) ELSE clkTicks

\* What DOS's clock should read then: the count's time of day, on the date of the first
\* store moved on at each midnight since.  Within a tick of midnight the code's date stands.
FollowedWant(store, count, offset) ==
    [time |-> count * TickUnits,
     date |-> IF store.isNearMidnight THEN DosClockUnpack(HostPacked + offset).date
              ELSE store.date]
SyncedWant == IF IsTickTaken THEN FollowedWant(clkStore, clkTicks.count, SyncedOffset)
              ELSE clkWant["dos"]

\* AH=2Ah, 2Ch.
DosGetClock ==
    /\ ClockCall /\ IsTickTaken
    /\ clkDos' = SyncedOffset /\ clkTicks' = SyncedTicks
    /\ clkWant' = [clkWant EXCEPT !["dos"] = SyncedWant]
    /\ UNCHANGED <<clkHost, clkRtc, clkSet, clkStore>>

\* AH=2Bh: a date DOS accepts moves its clock and the real-time clock.
DosSetDate ==
    /\ ClockCall
    /\ clkTicks' = SyncedTicks
    /\ \E date \in ClockDates :
          LET want == [SyncedWant EXCEPT !.date = date]
          IN  IF DosClockIsDosDateValid(date)
              THEN /\ clkDos' = DosClockSetDate(SyncedOffset, date) /\ clkRtc' = clkDos'
                   /\ clkWant' = [c \in {"dos", "rtc"} |-> want]
              ELSE /\ clkDos' = SyncedOffset /\ UNCHANGED clkRtc
                   /\ clkWant' = [clkWant EXCEPT !["dos"] = SyncedWant]
    /\ UNCHANGED <<clkHost, clkSet, clkStore>>

\* AH=2Dh also reloads the tick count (HostSetTicks).
DosSetTime ==
    /\ ClockCall
    /\ \E time \in {0, ClockDay - 1, ClockDay} :
          LET want == [SyncedWant EXCEPT !.time = time]
          IN  IF DosClockIsTimeValid(time)
              THEN /\ clkDos' = DosClockSetTime(SyncedOffset, time) /\ clkRtc' = clkDos'
                   /\ clkTicks' = VddPitTickOwned(time \div TickUnits)
                   /\ clkWant' = [c \in {"dos", "rtc"} |-> want]
              ELSE /\ clkDos' = SyncedOffset /\ clkTicks' = SyncedTicks /\ UNCHANGED clkRtc
                   /\ clkWant' = [clkWant EXCEPT !["dos"] = SyncedWant]
    /\ UNCHANGED <<clkHost, clkSet, clkStore>>

\* A store into 0040:006C, by an instruction; INT 1Ah AH=01h stores and takes it at once.
FirstStore == IF IsTickTaken THEN clkStore
              ELSE LET dos == DosClockRead(clkDos)
                   IN  [date |-> dos.date, isNearMidnight |-> dos.time < TickUnits
                                                \/ dos.time >= ClockDay - TickUnits]

StoreTicks ==
    /\ ClockCall
    /\ \E count \in {0, TicksPerDay - 1} : clkTicks' = [clkTicks EXCEPT !.count = count]
    /\ clkStore' = FirstStore
    /\ UNCHANGED <<clkHost, clkDos, clkRtc, clkSet, clkWant>>

BiosSetTicks ==
    /\ ClockCall
    /\ \E count \in {0, TicksPerDay - 1} :
          /\ clkDos' = DosClockFollowTicks(count, TakenWraps, TakenSince)
          /\ clkTicks' = VddPitTickOwned(count)
          /\ clkWant' = [clkWant EXCEPT !["dos"] = FollowedWant(FirstStore, count, clkDos')]
    /\ UNCHANGED <<clkHost, clkRtc, clkSet, clkStore>>

\* HostRtcSet: a date or a time that is not one is refused.
HostRtcSet(offset, reading, isDate) ==
    IF isDate THEN (IF DosClockIsRealDate(reading.date)
                    THEN DosClockSetDate(offset, reading.date) ELSE offset)
    ELSE IF DosClockIsTimeValid(reading.time) THEN DosClockSetTime(offset, reading.time) ELSE offset

WantRtc(want, reading, isDate) ==
    IF isDate THEN (IF DosClockIsRealDate(reading.date) THEN [want EXCEPT !.date = reading.date]
                    ELSE want)
    ELSE IF DosClockIsTimeValid(reading.time) THEN [want EXCEPT !.time = reading.time] ELSE want

\* INT 1Ah AH=03h and AH=05h.
BiosSetRtc ==
    /\ ClockCall
    /\ \E date \in ClockDates, time \in {0, ClockDay}, isDate \in BOOLEAN :
          LET reading == [date |-> date, time |-> time]
          IN  /\ clkRtc' = HostRtcSet(clkRtc, reading, isDate)
              /\ clkWant' = [clkWant EXCEPT !["rtc"] = WantRtc(@, reading, isDate)]
    /\ UNCHANGED <<clkHost, clkDos, clkTicks, clkSet, clkStore>>

\* CMOS: a clock register changes one field of the frozen copy, or of the clock at once.
CmosReading == IF clkSet.held THEN clkSet.shadow ELSE DosClockRead(clkRtc)
WithField(r, field, v) ==
    CASE field = "time"  -> [r EXCEPT !.time = v]
      [] field = "day"   -> [r EXCEPT !.date[3] = v]
      [] field = "month" -> [r EXCEPT !.date[2] = v]
      [] field = "year"  -> [r EXCEPT !.date[1] = v]

CmosWriteClock ==
    /\ ClockCall
    /\ \E field \in DOMAIN FieldValues : \E v \in FieldValues[field] :
          LET reading == WithField(CmosReading, field, v)
          IN  IF clkSet.held THEN clkSet' = [clkSet EXCEPT !.shadow = reading]
                                  /\ UNCHANGED <<clkRtc, clkWant>>
              ELSE /\ clkRtc' = HostRtcSet(clkRtc, reading, field # "time")
                   /\ clkWant' = [clkWant EXCEPT !["rtc"] = WantRtc(@, reading, field # "time")]
                   /\ UNCHANGED clkSet
    /\ UNCHANGED <<clkHost, clkDos, clkTicks, clkStore>>

\* SET going high freezes a copy; going low commits its date and then its time.
CmosSetRises ==
    /\ ClockCall /\ ~clkSet.held
    /\ clkSet' = [held |-> TRUE, shadow |-> CmosReading]
    /\ UNCHANGED <<clkHost, clkDos, clkRtc, clkTicks, clkWant, clkStore>>

CmosSetFalls ==
    /\ clkSet.held
    /\ clkSet' = [held |-> FALSE, shadow |-> clkHost]
    /\ clkRtc' = HostRtcSet(HostRtcSet(clkRtc, clkSet.shadow, TRUE), clkSet.shadow, FALSE)
    /\ clkWant' = [clkWant EXCEPT !["rtc"] =
                      WantRtc(WantRtc(@, clkSet.shadow, TRUE), clkSet.shadow, FALSE)]
    /\ UNCHANGED <<clkHost, clkDos, clkTicks, clkSpent, clkStore>>

ClkInit ==
    /\ clkHost \in [date : ClockStarts, time : {0}]
    /\ clkDos = 0 /\ clkRtc = 0
    /\ clkTicks = VddPitTickOwned(clkHost.time \div TickUnits)
    /\ clkSet = [held |-> FALSE, shadow |-> clkHost]
    /\ clkSpent = [time |-> 0, ops |-> 0]
    /\ clkWant = [c \in {"dos", "rtc"} |-> clkHost]
    /\ clkStore = [date |-> clkHost.date, isNearMidnight |-> FALSE]

ClkNext == ClockAdvances \/ DosGetClock \/ DosSetDate \/ DosSetTime \/ StoreTicks \/ BiosSetTicks
              \/ BiosSetRtc \/ CmosWriteClock \/ CmosSetRises \/ CmosSetFalls

ClkSpec == ClkInit /\ [][ClkNext]_clkVars

(***************************************************************************)
(* Properties.                                                              *)
(***************************************************************************)
\* The real-time clock reads what it was last set to, moved on by the time since, over month
\* ends and leap days, whatever else was set in between; a refused value changes nothing
\* (HostRtcSet, DosClockSetDate, DosClockSetTime, DosClockUnpack).
RtcReadsTrue == DosClockRead(clkRtc) = clkWant["rtc"]

\* DOS's clock reads what AH=2Bh and AH=2Dh set, and after a store into the BIOS tick count
\* the count's time on the date of the store plus the midnights counted since, for a store
\* more than a tick away from midnight (DosClockFollowTicks, VddPitBiosTick, VddPitTickTake).
DosReadsTrue == DosClockRead(clkDos) = clkWant["dos"]
=============================================================================
