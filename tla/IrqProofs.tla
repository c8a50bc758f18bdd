----------------------------- MODULE IrqProofs -----------------------------
(***************************************************************************)
(* Theorems about IrqDelivery: for any number of lines, any limits and any *)
(* set of sessions.                                                        *)
(***************************************************************************)
EXTENDS IrqDelivery, PicChipProofs, FiniteSetTheorems

(* A delivery attempt, from AsyncInjectIrq's first test to its accounting. *)
Trying == {"check", "claim", "suspend", "inspect"}

Placed == {"resume", "account"}

Attempt == Trying \cup Placed

-----------------------------------------------------------------------------
(* Who may be where.                                                       *)

NetType == [timeouts : 0 .. IsrTimeoutsMax, autoEoi : BOOLEAN, expired : BOOLEAN]

InjType == inj \in [Injectors -> [pc : InjectorSteps, irq : {NoLine, Timer, Keyboard, Device}]]

GuestType == guest \in [frames : Seq(Frame), vif : BOOLEAN]

(* Every variable has its type; the limits of the latches and of the yield *)
(* count are LatchInv's.                                                   *)
BasicType ==
    /\ session \in Sessions /\ pic \in PairType
    /\ pending0 \in Int /\ pending1 \in Int /\ pendingN \in BOOLEAN /\ keyUp \in BOOLEAN
    /\ net \in NetType
    /\ yielded \in Nat
    /\ lock \in {NoThread, ExecThread, "pacer", "device"}
    /\ ctxWrite \in BOOLEAN /\ inExec \in BOOLEAN /\ suspended \in BOOLEAN
    /\ exec \in ExecSteps /\ event \in {"none", "dos", "io", "eoi", "bop", "in60"}
    /\ InjType /\ GuestType
    /\ owed \in Int /\ due \in BOOLEAN

(* The irqs each thread delivers, and the places it comes to.              *)
ThreadsInv ==
    /\ inj["pacer"].pc \in Attempt => inj["pacer"].irq \in {Timer, Keyboard, Device}
    /\ inj["device"].pc \notin {"choose", "devices"}
    /\ inj["device"].pc \in Attempt => inj["device"].irq = Device
    /\ inj["courier"].pc \notin {"choose", "devices", "unlock"}
    /\ inj["courier"].pc \in Attempt => inj["courier"].irq = Timer
    /\ inj["courier"].pc \in Attempt => session.courier
    /\ \A t \in Injectors :
          inj[t].irq = Device /\ inj[t].pc \in Attempt \ {"check"} => Device \in session.hooked

(* g_Lock is held exactly by the thread that is between its lock and its   *)
(* unlock, and g_InExec is set exactly around the guest.                   *)
LockInv ==
    /\ lock = "pacer" <=> inj["pacer"].pc # "idle"
    /\ lock = "device" <=> inj["device"].pc # "idle"
    /\ lock = ExecThread <=> exec \in {"pumping", "servicing"}
    /\ inExec <=> exec \in {"entering", "guest", "leaving"}

(* g_AsyncContextWrite is owned by the one thread that holds the guest.    *)
ContextInv ==
    /\ ctxWrite <=> \E t \in Injectors : Holding(t)
    /\ \A t, u \in Injectors : Holding(t) /\ Holding(u) => t = u
    /\ suspended <=> \E t \in Injectors : inj[t].pc \in {"inspect", "resume"}
    /\ \A t \in Injectors : inj[t].pc = "resume" => exec = "guest"

-----------------------------------------------------------------------------
(* The latches, for any session.                                           *)

(* An attempt that may still end in a tick: the pacer's key attempt turns  *)
(* into one when it is refused.                                            *)
MayTick(t) == inj[t].pc \in Attempt /\ inj[t].irq \in {Timer, Keyboard}

(* A tick that a thread has placed and not yet taken off the latch.        *)
PlacedTick(t) == IF inj[t].pc \in Placed /\ inj[t].irq = Timer THEN 1 ELSE 0

(* How far below zero the courier and the pacer can drive the tick latch   *)
(* between them.                                                           *)
TickLatchInv ==
    /\ pending0 <= IrqPendingMax
    /\ pending0 >= -(TickDebtMax + 2)
    /\ MayTick("pacer") \/ MayTick("courier") => pending0 >= -(TickDebtMax + 1)
    /\ MayTick("pacer") /\ MayTick("courier") => pending0 >= 0
    /\ pending0 = owed + PlacedTick("pacer") + PlacedTick("courier")

(* Only the pacer's key attempt takes a scancode off without asking again. *)
KeyLatchInv ==
    /\ pending1 \in -1 .. 1
    /\ yielded <= KeyIrqMaxYield
    /\ inj["pacer"].pc \in Attempt /\ inj["pacer"].irq = Keyboard =>
          pending1 >= 0 /\ yielded < KeyIrqMaxYield

LatchInv == TickLatchInv /\ KeyLatchInv

-----------------------------------------------------------------------------
(* The guest's stack, in any session.  A DOS call's frame is the host's    *)
(* and never waits for an EOI.                                             *)
FramesInv ==
    \A i \in 1 .. Len(guest.frames) :
        guest.frames[i].line = NoLine => guest.frames[i].stub /\ guest.frames[i].ended

(* The EOI being serviced is that of an unfinished handler on top.         *)
EoiInv ==
    exec \in {"leaving", "service", "servicing"} /\ event \in {"eoi", "bop"} =>
        /\ guest.frames # <<>> /\ ~ Top.ended
        /\ event = "eoi" <=> ~ Top.stub

-----------------------------------------------------------------------------
(* A guest whose handlers keep interrupts off until they have sent their   *)
(* EOI.                                                                    *)
KeepsInterruptsOff(s) == s.stiBeforeEoi = {} /\ s.eoisTimer

Unended(i) == ~ guest.frames[i].ended

HasUnended == \E i \in 1 .. Len(guest.frames) : Unended(i)

(* An unfinished handler runs with interrupts off, below nothing but DOS   *)
(* calls that will return with them off; one in a host stub is on top and  *)
(* goes nowhere but into its BOP.                                          *)
StackInv ==
    \A i \in 1 .. Len(guest.frames) : Unended(i) =>
        /\ ~ guest.vif
        /\ \A j \in i + 1 .. Len(guest.frames) :
              ~ guest.frames[j].saved /\ guest.frames[j].line = NoLine
        /\ guest.frames[i].line # NoLine
        /\ guest.frames[i].stub =>
              /\ i = Len(guest.frames)
              /\ guest.frames[i].line \in {Timer, Keyboard}
              /\ \/ exec \in {"device", "entering", "guest", "leaving", "service", "servicing"}
                 \/ exec = "keyboard" /\ guest.frames[i].line = Timer
              /\ exec \in {"leaving", "service", "servicing"} => event = "bop"

(* A thread that is about to place an interrupt still has it on its latch, *)
(* or will find the guest inside an unfinished handler that it cannot      *)
(* leave while the thread holds g_Lock.                                    *)
AttemptInv ==
    /\ \A t \in {"pacer", "device"} : inj[t].pc \in Placed => HasUnended
    /\ ~ session.courier =>
          (inj["pacer"].pc \in Trying /\ inj["pacer"].irq \in {Timer, Keyboard} => (pending0 > 0 \/ HasUnended))
    /\ inj["pacer"].pc \in Trying /\ inj["pacer"].irq = Keyboard => pending1 > 0 \/ HasUnended
    /\ \A t \in {"pacer", "device"} :
          inj[t].pc \in Trying /\ inj[t].irq = Device =>
              (pendingN /\ due) \/ HasUnended \/ Device \notin session.hooked
    /\ inj["pacer"].pc \in Placed /\ inj["pacer"].irq = Keyboard => pending1 > 0
    /\ \A t \in {"pacer", "device"} :
          inj[t].pc \in Placed /\ inj[t].irq = Device => pendingN /\ ~ due

(* A device interrupt that a thread has placed and not yet accounted for.  *)
PlacedDevice == \E t \in Injectors : inj[t].pc \in Placed /\ inj[t].irq = Device

(* What the latches hold: TickLatchExact and DeviceLatchExact.  The tick   *)
(* latch alone is the courier's too, which takes no lock.                  *)
ExactInv ==
    /\ ~ session.courier => owed >= 0
    /\ pending1 >= 0
    /\ pendingN <=> due \/ PlacedDevice

QuietInv == StackInv /\ AttemptInv /\ ExactInv

(* Without a stall the master has in service the line of the unfinished    *)
(* handler and no other.                                                   *)
ServiceInv ==
    /\ ~ net.expired /\ ~ net.autoEoi /\ net.timeouts = 0
    /\ ~ pic["master"].IsAutoEoi
    /\ \A l \in pic["master"].Isr : \E i \in 1 .. Len(guest.frames) : Unended(i) /\ guest.frames[i].line = l
    /\ \A i \in 1 .. Len(guest.frames) :
          Unended(i) /\ ~ guest.frames[i].stub => guest.frames[i].line \in pic["master"].Isr

-----------------------------------------------------------------------------
(* A guest that makes no DOS calls and masks its keyboard.  Its handlers   *)
(* may execute STI before their EOI: the PIC alone keeps them apart, and   *)
(* its answer holds until the guest is stopped, as every way out of the    *)
(* guest takes g_Lock.                                                     *)
NestsByRank(s) ==
    /\ ~ s.courier /\ ~ s.stalls /\ s.eoisTimer
    /\ "dos" \notin s.traps /\ Keyboard \notin s.unmasked

(* The chip as the BIOS leaves it, the keyboard masked.                    *)
Plain(chip) ==
    /\ Keyboard \in chip.Imr
    /\ ~ chip.IsAutoEoi /\ ~ chip.IsSpecialMaskMode /\ ~ chip.IsSpecialFullyNested
    /\ chip.LowestPriority = FixedLowest

(* No handler of this line or of a higher one is unfinished.               *)
IsFree(irq) ==
    /\ irq \notin pic["master"].Isr
    /\ irq = Device => Timer \notin pic["master"].Isr

(* What is in service is unfinished, and back; only the timer's handler is *)
(* ever above an unfinished one, the device's.                             *)
NestedFrames ==
    /\ \A i \in 1 .. Len(guest.frames) :
          /\ guest.frames[i].line \in {Timer, Device}
          /\ Unended(i) => guest.frames[i].line \in pic["master"].Isr
          /\ Unended(i) => \A j \in i + 1 .. Len(guest.frames) :
                              guest.frames[i].line = Device /\ guest.frames[j].line = Timer
    /\ \A l \in pic["master"].Isr : \E i \in 1 .. Len(guest.frames) : Unended(i) /\ guest.frames[i].line = l

(* The exec thread between V86RunGuestTimed's entry and the lock that any  *)
(* service takes.                                                          *)
IsInside == exec \in {"entering", "guest", "leaving", "service"}

(* An attempt that the PIC has let pass finds the lines, the latches and   *)
(* the exec thread as they were then; before that, what has gone from its  *)
(* latch is in service and stays so.                                       *)
NestedAttempt(t) ==
    /\ inj[t].pc = "check" =>
          /\ inj[t].irq \in {Timer, Keyboard} => pending0 > 0 \/ Timer \in pic["master"].Isr
          /\ inj[t].irq = Device =>
                (pendingN /\ due) \/ Device \in pic["master"].Isr \/ Device \notin session.hooked
    /\ inj[t].pc \in Trying \ {"check"} =>
          /\ IsInside /\ inj[t].irq # Keyboard /\ IsFree(inj[t].irq)
          /\ inj[t].irq = Timer => pending0 > 0
          /\ inj[t].irq = Device => pendingN /\ due
    /\ inj[t].pc \in Placed =>
          /\ IsInside /\ inj[t].irq # Keyboard
          /\ inj[t].irq = Device => pendingN /\ ~ due

NestInv ==
    /\ ~ net.expired /\ ~ net.autoEoi /\ net.timeouts = 0
    /\ Plain(pic["master"]) /\ event # "dos"
    /\ NestedFrames /\ ExactInv
    /\ NestedAttempt("pacer") /\ NestedAttempt("device")

-----------------------------------------------------------------------------
(* What every session keeps.                                               *)
ControlInv == BasicType /\ ThreadsInv /\ LockInv /\ ContextInv /\ LatchInv /\ FramesInv /\ EoiInv

IrqInv ==
    /\ ControlInv
    /\ KeepsInterruptsOff(session) => QuietInv
    /\ KeepsInterruptsOff(session) /\ ~ session.stalls => ServiceInv
    /\ NestsByRank(session) => NestInv

-----------------------------------------------------------------------------
(* Steps and what they leave alone.                                        *)

LEMMA LineFacts ==
    /\ Timer \in Lines /\ Keyboard \in Lines /\ Device \in Lines
    /\ Lines \subseteq Irqs
    /\ NoLine # Timer /\ NoLine # Keyboard /\ NoLine # Device
    /\ Timer # Keyboard /\ Timer # Device /\ Keyboard # Device
    /\ Device # CascadeLine
    /\ Device \in Int
  BY LinesAssumption, DeliveryAssumption DEF Timer, Keyboard, Lines, Irqs, NoLine

(* The exec thread does nothing while it is suspended, and only the threads*)
(* that inject move themselves, the context's owner and the yield count.   *)
LEMMA ExecSteppers ==
    ASSUME LoopStep \/ LoopLockStep \/ GuestStep
    PROVE  ~ suspended /\ UNCHANGED <<session, inj, ctxWrite, suspended, yielded>>
  BY DEF LoopStep, LoopLockStep, GuestStep, LoopPumpSkip, LoopPumpUnlock, V86DeliverTimerIrq,
         V86DeliverKeyboardIrq, V86DeliverDeviceIrq, LoopEnterGuest, LoopLeaveGuest, ServiceDosCall,
         ServiceEoi, ServiceIo, LoopPumpLock, ServiceIoLock, GuestSti, GuestToggleIf, GuestDosCall,
         GuestIo, GuestEoi, GuestReadKey, GuestBop, GuestIret, HandlerStalls, ExecAt

(* What a thread becomes when its attempt is over: the pacer's refused key *)
(* becomes an attempt at a tick, and no other attempt continues.           *)
IsOver(t, isOk, next) ==
    /\ next \in [pc : InjectorSteps, irq : {NoLine, Timer, Keyboard, Device}]
    /\ t = "courier" => next.pc = "idle"
    /\ t = "device" => next.pc = "unlock"
    /\ t = "pacer" /\ inj[t].irq = Keyboard /\ ~ isOk => next.pc = "check" /\ next.irq = Timer
    /\ t = "pacer" /\ (inj[t].irq # Keyboard \/ isOk) => next.pc \in {"unlock", "devices"}

LEMMA AfterAttemptIs ==
    ASSUME NEW t \in Injectors, NEW isOk \in BOOLEAN
    PROVE  IsOver(t, isOk, AfterAttempt(t, isOk))
<1> USE DEF IsOver
<1> DEFINE inner == CASE inj["pacer"].irq = Keyboard /\ ~ isOk -> [pc |-> "check", irq |-> Timer]
                      [] inj["pacer"].irq = Device              -> [pc |-> "unlock", irq |-> NoLine]
                      [] OTHER                                  -> [pc |-> "devices", irq |-> NoLine]
<1>0. Keyboard # Device
  BY LineFacts
<1>1. CASE t = "courier"
  <2>1. AfterAttempt(t, isOk) = [pc |-> "idle", irq |-> NoLine]
    BY <1>1 DEF AfterAttempt
  <2> QED
    BY <1>1, <2>1 DEF InjectorSteps
<1>2. CASE t = "device"
  <2>1. AfterAttempt(t, isOk) = [pc |-> "unlock", irq |-> NoLine]
    BY <1>2 DEF AfterAttempt
  <2> QED
    BY <1>2, <2>1 DEF InjectorSteps
<1>3. CASE t = "pacer"
  <2>1. AfterAttempt(t, isOk) = inner
    BY <1>3 DEF AfterAttempt
  <2>2. CASE inj["pacer"].irq = Keyboard /\ ~ isOk
    <3>1. inner = [pc |-> "check", irq |-> Timer]
      BY <1>0, <2>2
    <3> HIDE DEF inner
    <3> QED
      BY <1>3, <2>1, <2>2, <3>1 DEF InjectorSteps
  <2>3. CASE ~ (inj["pacer"].irq = Keyboard /\ ~ isOk)
    <3>1. inner = [pc |-> "unlock", irq |-> NoLine] \/ inner = [pc |-> "devices", irq |-> NoLine]
      BY <2>3
    <3> HIDE DEF inner
    <3> QED
      BY <1>3, <2>1, <2>3, <3>1 DEF InjectorSteps
  <2> QED
    BY <2>2, <2>3
<1> QED
  BY <1>1, <1>2, <1>3 DEF Injectors

(* Only the thread itself moves.                                           *)
LEMMA AttemptOver ==
    ASSUME BasicType, NEW t \in Injectors, NEW isOk \in BOOLEAN,
           inj' = [inj EXCEPT ![t] = AfterAttempt(t, isOk)]
    PROVE  /\ IsOver(t, isOk, inj'[t])
           /\ \A u \in Injectors : u # t => inj'[u] = inj[u]
<1>1. inj'[t] = AfterAttempt(t, isOk) /\ \A u \in Injectors : u # t => inj'[u] = inj[u]
  BY DEF BasicType, InjType
<1> QED
  BY <1>1, AfterAttemptIs

LEMMA AttemptGoesOn ==
    ASSUME BasicType, NEW t \in Injectors, NEW step, inj' = [inj EXCEPT ![t].pc = step]
    PROVE  /\ inj'[t].pc = step /\ inj'[t].irq = inj[t].irq
           /\ \A u \in Injectors : u # t => inj'[u] = inj[u]
  BY DEF BasicType, InjType

LEMMA ThreadsStep ==
    ASSUME BasicType, ThreadsInv, Next
    PROVE  ThreadsInv'
<1> USE LineFacts DEF BasicType, InjType, ThreadsInv, Attempt, Trying, Placed, Injectors, InjectorSteps
<1>1. CASE Raise
  BY <1>1 DEF Raise, TickRaise, KeyRaise, DeviceRaise
<1>2. ASSUME NEW t \in Injectors, AsyncInjectIrq(t)
      PROVE  ThreadsInv'
  <2>1. CASE AsyncCheck(t)
    <3>1. CASE Bail(t)
      <4>1. IsOver(t, FALSE, inj'[t]) /\ \A u \in Injectors : u # t => inj'[u] = inj[u]
        BY <3>1, AttemptOver DEF Bail
      <4> QED
        BY <2>1, <4>1 DEF AsyncCheck, IsOver
    <3>2. CASE ~ Bail(t)
      BY <1>2, <2>1, <3>2 DEF AsyncCheck
    <3> QED
      BY <3>1, <3>2
  <2>2. CASE AsyncClaim(t)
    <3>1. CASE Bail(t)
      <4>1. IsOver(t, FALSE, inj'[t]) /\ \A u \in Injectors : u # t => inj'[u] = inj[u]
        BY <3>1, AttemptOver DEF Bail
      <4> QED
        BY <2>2, <4>1 DEF AsyncClaim, IsOver
    <3>2. CASE ~ Bail(t)
      BY <1>2, <2>2, <3>2 DEF AsyncClaim
    <3> QED
      BY <3>1, <3>2
  <2>3. CASE AsyncSuspend(t)
    BY <1>2, <2>3 DEF AsyncSuspend
  <2>4. CASE AsyncInspect(t)
    <3>1. CASE Bail(t)
      <4>1. IsOver(t, FALSE, inj'[t]) /\ \A u \in Injectors : u # t => inj'[u] = inj[u]
        BY <3>1, AttemptOver DEF Bail
      <4> QED
        BY <2>4, <4>1 DEF AsyncInspect, IsOver
    <3>2. CASE ~ Bail(t)
      BY <1>2, <2>4, <3>2 DEF AsyncInspect
    <3> QED
      BY <3>1, <3>2
  <2>5. CASE AsyncResume(t)
    BY <1>2, <2>5 DEF AsyncResume
  <2>6. CASE AsyncAccount(t)
    <3>1. IsOver(t, TRUE, inj'[t]) /\ \A u \in Injectors : u # t => inj'[u] = inj[u]
      BY <2>6, AttemptOver DEF AsyncAccount
    <3> QED
      BY <2>6, <3>1 DEF AsyncAccount, IsOver
  <2> QED
    BY <1>2, <2>1, <2>2, <2>3, <2>4, <2>5, <2>6 DEF AsyncInjectIrq
<1>3. ASSUME NEW t \in Injectors, InjectorUnlock(t)
      PROVE  ThreadsInv'
  BY <1>3 DEF InjectorUnlock
<1>4. CASE PitDeliver
  BY <1>4 DEF PitDeliver, PitDeliverLock, PitDeliverChoose, PitDeliverDevices
<1>5. CASE CourierWake
  BY <1>5 DEF CourierWake
<1>6. CASE LoopStep \/ LoopLockStep \/ GuestStep
  BY <1>6, ExecSteppers
<1> QED
  BY <1>1, <1>2, <1>3, <1>4, <1>5, <1>6 DEF Next, InjectorStep

-----------------------------------------------------------------------------
(* The guest's stack.                                                      *)

(* One frame more, of a handler or of a DOS call, interrupts off.          *)
Pushed(line, stub, ended) ==
    /\ Len(guest'.frames) = Len(guest.frames) + 1
    /\ \A i \in 1 .. Len(guest.frames) + 1 :
          \/ i \in 1 .. Len(guest.frames) /\ guest'.frames[i] = guest.frames[i]
          \/ /\ i = Len(guest.frames) + 1
             /\ guest'.frames[i].line = line /\ guest'.frames[i].stub = stub
             /\ guest'.frames[i].saved = guest.vif /\ guest'.frames[i].ended = ended
    /\ guest'.vif = FALSE

(* One frame less, the flag restored from it.                              *)
Popped ==
    /\ Len(guest'.frames) = Len(guest.frames) - 1
    /\ \A i \in 1 .. Len(guest.frames) - 1 : guest'.frames[i] = guest.frames[i]
    /\ guest'.vif = Top.saved

(* The handler on top has sent its EOI.                                    *)
TopEnded ==
    /\ Len(guest'.frames) = Len(guest.frames)
    /\ \A i \in 1 .. Len(guest.frames) :
          /\ guest'.frames[i].line = guest.frames[i].line
          /\ guest'.frames[i].stub = guest.frames[i].stub
          /\ guest'.frames[i].saved = guest.frames[i].saved
          /\ i # Len(guest.frames) => guest'.frames[i].ended = guest.frames[i].ended
          /\ i = Len(guest.frames) => guest'.frames[i].ended
    /\ guest'.vif = guest.vif

LEMMA PushFrame ==
    ASSUME GuestType, NEW line \in {NoLine, Timer, Keyboard, Device}, NEW stub \in BOOLEAN, NEW ended \in BOOLEAN,
           guest' = [frames |-> Append(guest.frames, [line |-> line, stub |-> stub, saved |-> guest.vif, ended |-> ended]),
                     vif |-> FALSE]
    PROVE  GuestType' /\ Pushed(line, stub, ended)
<1> DEFINE f == [line |-> line, stub |-> stub, saved |-> guest.vif, ended |-> ended]
<1>1. f \in Frame /\ guest.frames \in Seq(Frame)
  BY DEF Frame, GuestType
<1>2. /\ Append(guest.frames, f) \in Seq(Frame)
      /\ Len(Append(guest.frames, f)) = Len(guest.frames) + 1
      /\ \A i \in 1 .. Len(guest.frames) : Append(guest.frames, f)[i] = guest.frames[i]
      /\ Append(guest.frames, f)[Len(guest.frames) + 1] = f
  BY <1>1, AppendProperties
<1>3. guest'.frames = Append(guest.frames, f) /\ guest'.vif = FALSE
  OBVIOUS
<1>4. GuestType'
  BY <1>2, <1>3 DEF GuestType
<1>5. f.line = line /\ f.stub = stub /\ f.saved = guest.vif /\ f.ended = ended
  OBVIOUS
<1> HIDE DEF f
<1> QED
  BY <1>2, <1>3, <1>4, <1>5 DEF Pushed

LEMMA InjectPushes ==
    ASSUME GuestType, NEW irq \in {NoLine, Timer, Keyboard, Device}, InjectInt(irq)
    PROVE  GuestType' /\ Pushed(irq, irq \notin session.hooked, FALSE)
  BY PushFrame DEF InjectInt

LEMMA PopFrame ==
    ASSUME GuestType, guest.frames # <<>>,
           guest' = [frames |-> SubSeq(guest.frames, 1, Len(guest.frames) - 1), vif |-> Top.saved]
    PROVE  GuestType' /\ Popped
<1>1. guest.frames \in Seq(Frame)
  BY DEF GuestType
<1>2. /\ guest'.frames = SubSeq(guest.frames, 1, Len(guest.frames) - 1)
      /\ guest'.vif = Top.saved
  OBVIOUS
<1>3. Top.saved \in BOOLEAN
  <2>1. Top \in Frame
    BY <1>1, FrontOfStack DEF Top
  <2> QED
    BY <2>1 DEF Frame
<1>4. GuestType'
  BY <1>1, <1>2, <1>3, FrontOfStack DEF GuestType
<1> QED
  BY <1>1, <1>2, <1>4, FrontOfStack DEF Popped

LEMMA EndTop ==
    ASSUME GuestType, guest' = [guest EXCEPT !.frames[Len(guest.frames)].ended = TRUE]
    PROVE  GuestType' /\ TopEnded
<1> DEFINE s == guest.frames
           n == Len(s)
           f == [s[n] EXCEPT !.ended = TRUE]
           r == [s EXCEPT ![n] = f]
<1>1. s \in Seq(Frame) /\ n \in Nat /\ s \in [1 .. n -> Frame]
  BY LenProperties DEF GuestType
<1>2. guest'.frames = r /\ guest'.vif = guest.vif /\ guest'.vif \in BOOLEAN
  BY DEF GuestType
<1>3. n \in 1 .. n => /\ f \in Frame /\ f.line = s[n].line /\ f.stub = s[n].stub
                      /\ f.saved = s[n].saved /\ f.ended
  BY <1>1 DEF Frame
<1>4. r \in [1 .. n -> Frame] /\ \A i \in 1 .. n : r[i] = IF i = n THEN f ELSE s[i]
  <2> HIDE DEF f, n, s
  <2> QED
    BY <1>1, <1>3 DEF n
<1>5. r \in Seq(Frame) /\ Len(r) = n
  BY <1>1, <1>4
<1>6. GuestType'
  <2> HIDE DEF r
  <2> QED BY <1>2, <1>5 DEF GuestType
<1>7. TopEnded
  <2> SUFFICES ASSUME NEW i \in 1 .. n
               PROVE  /\ guest'.frames[i].line = s[i].line /\ guest'.frames[i].stub = s[i].stub
                      /\ guest'.frames[i].saved = s[i].saved
                      /\ i # n => guest'.frames[i].ended = s[i].ended
                      /\ i = n => guest'.frames[i].ended
    <3> HIDE DEF r
    <3> QED BY <1>2, <1>5 DEF TopEnded
  <2>1. guest'.frames[i] = IF i = n THEN f ELSE s[i]
    BY <1>2, <1>4
  <2> HIDE DEF f, r
  <2> QED BY <1>3, <2>1
<1> QED
  BY <1>6, <1>7

-----------------------------------------------------------------------------
(* Types.                                                                  *)

LEMMA Irq0CanDeliverType ==
    ASSUME BasicType
    PROVE  /\ Irq0CanDeliver.pic \in PairType
           /\ Irq0CanDeliver.net \in NetType
           /\ Irq0CanDeliver.ok \in BOOLEAN
<1> DEFINE freed == VddPicEndOfInterrupt(pic, Timer)
           count == IF net.timeouts < IsrTimeoutsMax THEN net.timeouts + 1 ELSE net.timeouts
           fixed == [timeouts |-> count, autoEoi |-> count = IsrTimeoutsMax, expired |-> FALSE]
<1>1. freed \in PairType /\ pic \in PairType /\ net \in NetType
  BY EndOfInterruptType DEF BasicType, NetType
<1>2. count \in 0 .. IsrTimeoutsMax
  BY DeliveryAssumption DEF BasicType, NetType
<1>3. fixed \in NetType
  <2> HIDE DEF count
  <2> QED BY <1>2 DEF NetType
<1>4. VddPicCanDeliver(freed, Timer) \in BOOLEAN /\ VddPicCanDeliver(pic, Timer) \in BOOLEAN
  BY DEF VddPicCanDeliver
<1>5. \/ Irq0CanDeliver = [ok |-> VddPicCanDeliver(freed, Timer), pic |-> freed, net |-> fixed]
      \/ Irq0CanDeliver = [ok |-> VddPicCanDeliver(pic, Timer), pic |-> pic, net |-> net]
  BY DEF Irq0CanDeliver
<1> HIDE DEF freed, fixed
<1> QED
  BY <1>1, <1>3, <1>4, <1>5

LEMMA CanDeliverType ==
    ASSUME BasicType, NEW irq
    PROVE  CanDeliver(irq).pic \in PairType /\ CanDeliver(irq).net \in NetType
<1>1. CASE irq = Timer
  BY <1>1, Irq0CanDeliverType DEF CanDeliver
<1>2. CASE irq # Timer
  BY <1>2 DEF CanDeliver, BasicType, NetType
<1> QED
  BY <1>1, <1>2

LEMMA AcknowledgedType ==
    ASSUME BasicType, NEW irq \in {Timer, Keyboard, Device}
    PROVE  Acknowledged(irq) \in PairType
<1>1. irq \in Irqs /\ pic \in PairType
  BY LineFacts DEF BasicType
<1> QED
  BY <1>1, AcknowledgePairType, AcknowledgeAutoEoiType DEF Acknowledged

LEMMA BailType ==
    ASSUME BasicType, NEW t \in Injectors, Bail(t)
    PROVE  InjType' /\ yielded' \in Nat
<1>1. AfterAttempt(t, FALSE) \in [pc : InjectorSteps, irq : {NoLine, Timer, Keyboard, Device}]
  BY AfterAttemptIs DEF IsOver
<1> QED
  BY <1>1 DEF Bail, BasicType, InjType, YieldedAfter

(* What a port access does to the master and the tick latch: nothing, or a *)
(* resync, which leaves the lines in service and the chip's modes alone.   *)
Discarded ==
    /\ exec = "servicing" /\ Timer \in pic'["master"].Isr
    /\ pending0' = 0 /\ owed' = owed - pending0
    /\ UNCHANGED <<pending1, pendingN, due, guest>>

LEMMA PortAccess ==
    ASSUME pic \in PairType, ServiceIo
    PROVE  /\ exec = "servicing" /\ event \in {"io", "in60"} /\ exec' = "pump"
           /\ UNCHANGED <<session, net, guest, event, inj, suspended>>
           /\ pic' \in PairType /\ pic'["master"].Isr = pic["master"].Isr
           /\ pic'["master"].IsAutoEoi = pic["master"].IsAutoEoi
           /\ Plain(pic["master"]) => Plain(pic'["master"])
           /\ UNCHANGED <<pending0, pending1, pendingN, owed, due>> \/ Discarded
<1> DEFINE m == pic["master"]
           cleared == [m EXCEPT !.Irr = @ \ {Timer}]
<1>0. m \in ChipType /\ "master" \in Chips /\ DOMAIN pic = Chips
  BY DEF PairType, Chips
<1>1. cleared \in ChipType /\ cleared.Isr = m.Isr /\ cleared.IsAutoEoi = m.IsAutoEoi
      /\ (Plain(m) => Plain(cleared))
  BY <1>0 DEF ChipType, Plain
<1>2. /\ exec = "servicing" /\ event \in {"io", "in60"} /\ exec' = "pump"
      /\ UNCHANGED <<session, net, guest, event, inj, suspended, pending1, pendingN, due>>
      /\ HostPitResyncCheck \/ UNCHANGED <<pic, pending0, owed>>
  BY DEF ServiceIo, ExecAt
<1>3. CASE HostPitResyncCheck
  <2>1. /\ Timer \in m.Isr /\ pending0' = 0 /\ owed' = owed - pending0
        /\ pic' = [pic EXCEPT !["master"].Irr = @ \ {Timer}]
    BY <1>3 DEF HostPitResyncCheck
  <2>2. pic' = [pic EXCEPT !["master"] = cleared]
    BY <1>0, <2>1
  <2>3. pic' \in PairType /\ pic'["master"] = cleared
    BY <1>0, <1>1, <2>2 DEF PairType
  <2> HIDE DEF cleared
  <2> QED
    BY <1>1, <1>2, <2>1, <2>3 DEF Discarded
<1>4. CASE UNCHANGED <<pic, pending0, owed>>
  BY <1>2, <1>4
<1> QED
  BY <1>2, <1>3, <1>4

LEMMA TypeStep ==
    ASSUME BasicType, ThreadsInv, Next
    PROVE  BasicType'
<1>0. GuestType /\ InjType /\ pic \in PairType /\ net \in NetType
  BY DEF BasicType
<1>U. /\ UNCHANGED inj => InjType'
      /\ UNCHANGED guest => GuestType'
      /\ UNCHANGED net => net' \in NetType
  BY <1>0 DEF InjType, GuestType
<1>T. Timer \in Irqs /\ Keyboard \in Irqs /\ Device \in Irqs
  BY LineFacts
<1>1. CASE Raise
  <2>0. \A irq \in {Timer, Keyboard, Device} : VddPicRaise(pic, irq) \in PairType
    BY <1>0, <1>T, RaiseType
  <2>1. CASE TickRaise
    BY <2>0, <2>1, <1>U DEF TickRaise, BasicType
  <2>2. CASE KeyRaise
    BY <2>0, <2>2, <1>U DEF KeyRaise, BasicType
  <2>3. CASE DeviceRaise
    <3>1. InjType'
      BY <1>0, <2>3 DEF DeviceRaise, InjType, InjectorSteps, Injectors
    <3> QED
      BY <2>0, <2>3, <3>1, <1>U DEF DeviceRaise, BasicType
  <2> QED
    BY <1>1, <2>1, <2>2, <2>3 DEF Raise
<1>2. ASSUME NEW t \in Injectors, AsyncInjectIrq(t)
      PROVE  BasicType'
  <2>0. \A step \in InjectorSteps : inj' = [inj EXCEPT ![t].pc = step] => InjType'
    BY <1>0 DEF InjType
  <2>1. CASE AsyncCheck(t)
    <3>1. pic' \in PairType /\ net' \in NetType
      BY <1>0, <2>1, CanDeliverType DEF AsyncCheck
    <3>2. InjType' /\ yielded' \in Nat
      BY <2>0, <2>1, BailType DEF AsyncCheck, InjectorSteps, BasicType
    <3> QED
      BY <2>1, <3>1, <3>2, <1>U DEF AsyncCheck, BasicType, latches
  <2>2. CASE AsyncClaim(t)
    <3>1. InjType' /\ yielded' \in Nat
      BY <2>0, <2>2, BailType DEF AsyncClaim, InjectorSteps, BasicType
    <3> QED
      BY <2>2, <3>1, <1>U DEF AsyncClaim, BasicType, latches
  <2>3. CASE AsyncSuspend(t)
    BY <2>0, <2>3, <1>U DEF AsyncSuspend, BasicType, InjectorSteps, latches
  <2>4. CASE AsyncInspect(t)
    <3>1. inj[t].irq \in {Timer, Keyboard, Device}
      BY <2>4 DEF ThreadsInv, AsyncInspect, Injectors, Attempt, Trying
    <3>2. Acknowledged(inj[t].irq) \in PairType
      BY <3>1, AcknowledgedType
    <3>3. pic' \in PairType /\ GuestType'
      BY <1>0, <2>4, <3>1, <3>2, InjectPushes DEF AsyncInspect, GuestType
    <3>4. InjType' /\ yielded' \in Nat
      BY <2>0, <2>4, BailType DEF AsyncInspect, InjectorSteps, BasicType
    <3>5. net' \in NetType /\ owed' \in Int
      <4>1. [net EXCEPT !.expired = FALSE] \in NetType
        BY <1>0 DEF NetType
      <4> QED
        <5> DEFINE unexpired == [net EXCEPT !.expired = FALSE]
        <5>1. owed \in Int /\ unexpired \in NetType
          BY <4>1 DEF BasicType
        <5>2. /\ net' = unexpired \/ net' = net
              /\ owed' = owed - 1 \/ owed' = owed
          BY <2>4 DEF AsyncInspect
        <5> HIDE DEF unexpired
        <5> QED
          BY <1>0, <5>1, <5>2
    <3>6. (inj[t].irq # Device /\ due) \in BOOLEAN /\ due \in BOOLEAN
      BY Zenon DEF BasicType
    <3>7. due' \in BOOLEAN /\ suspended' \in BOOLEAN /\ ctxWrite' \in BOOLEAN
      BY <2>4, <3>6 DEF AsyncInspect, BasicType
    <3> QED
      BY <2>4, <3>3, <3>4, <3>5, <3>7 DEF AsyncInspect, BasicType
  <2>5. CASE AsyncResume(t)
    BY <2>0, <2>5, <1>U DEF AsyncResume, BasicType, InjectorSteps, latches
  <2>6. CASE AsyncAccount(t)
    <3>1. AfterAttempt(t, TRUE) \in [pc : InjectorSteps, irq : {NoLine, Timer, Keyboard, Device}]
      BY AfterAttemptIs DEF IsOver
    <3>2. InjType'
      BY <1>0, <2>6, <3>1 DEF AsyncAccount, InjType
    <3>3. (inj[t].irq # Device /\ pendingN) \in BOOLEAN
      BY Zenon
    <3>4. pending0' \in Int /\ pending1' \in Int /\ pendingN' \in BOOLEAN /\ yielded' \in Nat
      BY <2>6, <3>3 DEF AsyncAccount, BasicType
    <3> QED
      BY <2>6, <3>2, <3>4, <1>U DEF AsyncAccount, BasicType
  <2> QED
    BY <1>2, <2>1, <2>2, <2>3, <2>4, <2>5, <2>6 DEF AsyncInjectIrq
<1>3. ASSUME NEW t \in Injectors, InjectorUnlock(t)
      PROVE  BasicType'
  BY <1>3, <1>U DEF InjectorUnlock, BasicType, latches, InjectorSteps, InjType
<1>4. CASE PitDeliver
  BY <1>4, <1>U DEF PitDeliver, PitDeliverLock, PitDeliverChoose, PitDeliverDevices, BasicType, latches, InjectorSteps, Injectors, InjType
<1>5. CASE CourierWake
  BY <1>5, <1>U DEF CourierWake, BasicType, latches, InjectorSteps, Injectors, InjType
<1>6. CASE LoopStep
  <2>1. CASE V86DeliverTimerIrq
    <3>1. /\ VddPicAcknowledgeAutoEoi(Irq0CanDeliver.pic, Timer) \in PairType
          /\ VddPicAcknowledge(Irq0CanDeliver.pic, Timer) \in PairType
          /\ Irq0CanDeliver.pic \in PairType /\ Irq0CanDeliver.net \in NetType
          /\ [Irq0CanDeliver.net EXCEPT !.expired = FALSE] \in NetType
      BY <1>T, Irq0CanDeliverType, AcknowledgePairType, AcknowledgeAutoEoiType DEF NetType
    <3>2. InjectInt(Timer) => GuestType'
      BY <1>0, InjectPushes
    <3>3. /\ pic' \in PairType /\ net' \in NetType /\ GuestType'
          /\ pending0' \in Int /\ owed' \in Int
      <4>1. pic' \in PairType /\ net' \in NetType
        BY <1>0, <2>1, <3>1 DEF V86DeliverTimerIrq
      <4> QED
        BY <1>0, <2>1, <3>2, <4>1, <1>U DEF V86DeliverTimerIrq, BasicType
    <3> QED
      BY <2>1, <3>3, <1>U DEF V86DeliverTimerIrq, BasicType, ExecSteps
  <2>2. CASE V86DeliverKeyboardIrq
    <3>1. /\ VddPicEndOfInterrupt(VddPicAcknowledge(pic, Keyboard), Keyboard) \in PairType
          /\ VddPicAcknowledge(pic, Keyboard) \in PairType
      BY <1>0, <1>T, AcknowledgePairType, EndOfInterruptType
    <3>2. InjectInt(Keyboard) => GuestType'
      BY <1>0, InjectPushes
    <3>3. pic' \in PairType /\ GuestType' /\ pending1' \in Int
      BY <1>0, <2>2, <3>1, <3>2, <1>U DEF V86DeliverKeyboardIrq, BasicType
    <3> QED
      BY <2>2, <3>3, <1>U DEF V86DeliverKeyboardIrq, BasicType, ExecSteps
  <2>3. CASE V86DeliverDeviceIrq
    <3>1. VddPicAcknowledge(pic, Device) \in PairType
      BY <1>0, <1>T, AcknowledgePairType
    <3>2. InjectInt(Device) => GuestType'
      BY <1>0, InjectPushes
    <3>3. pic' \in PairType /\ GuestType' /\ pendingN' \in BOOLEAN /\ due' \in BOOLEAN
      BY <1>0, <2>3, <3>1, <3>2, <1>U DEF V86DeliverDeviceIrq, BasicType
    <3> QED
      BY <2>3, <3>3, <1>U DEF V86DeliverDeviceIrq, BasicType, ExecSteps
  <2>4. CASE ServiceEoi
    <3>1. [pic EXCEPT !["master"] = PicOcw2(@, "nonspecificEoi", 0)] \in PairType
      <4>1. PicOcw2(pic["master"], "nonspecificEoi", 0) \in ChipType
        BY <1>0, Ocw2Type, LineFacts DEF PairType, Chips, Ocw2Commands, Timer
      <4> QED
        BY <1>0, <4>1 DEF PairType
    <3>2. VddPicEndOfInterrupt(pic, Top.line) \in PairType
      BY <1>0, EndOfInterruptType
    <3>3. GuestType'
      BY <1>0, <2>4, EndTop DEF ServiceEoi
    <3>4. pic' \in PairType /\ keyUp' \in BOOLEAN
      BY <2>4, <3>1, <3>2 DEF ServiceEoi
    <3> QED
      BY <2>4, <3>3, <3>4, <1>U DEF ServiceEoi, BasicType, ExecSteps
  <2>5. CASE ServiceIo
    <3>1. (keyUp /\ event # "in60") \in BOOLEAN
      BY Zenon
    <3>2. pic' \in PairType /\ pending0' \in Int /\ owed' \in Int
      BY <2>5, <1>0, PortAccess DEF Discarded, BasicType
    <3> QED
      BY <2>5, <3>1, <3>2, <1>U DEF ServiceIo, BasicType, ExecSteps
  <2>6. CASE LoopPumpSkip \/ LoopPumpUnlock
    BY <2>6, <1>U DEF LoopPumpSkip, LoopPumpUnlock, BasicType, latches, ExecSteps
  <2>7. CASE LoopEnterGuest
    BY <2>7, <1>U DEF LoopEnterGuest, BasicType, latches, ExecSteps
  <2>8. CASE LoopLeaveGuest
    BY <2>8, <1>U DEF LoopLeaveGuest, BasicType, latches, ExecSteps
  <2>9. CASE ServiceDosCall
    BY <2>9, <1>U DEF ServiceDosCall, BasicType, latches, ExecSteps
  <2> QED
    BY <1>6, <2>1, <2>2, <2>3, <2>4, <2>5, <2>6, <2>7, <2>8, <2>9 DEF LoopStep
<1>7. CASE LoopLockStep
  BY <1>7, <1>U DEF LoopLockStep, LoopPumpLock, ServiceIoLock, BasicType, latches, ExecSteps
<1>8. CASE GuestStep
  <2>1. CASE GuestDosCall
    <3>1. GuestType'
      BY <1>0, <2>1, PushFrame DEF GuestDosCall
    <3> QED
      BY <2>1, <3>1, <1>U DEF GuestDosCall, BasicType, ExecSteps, latches
  <2>2. CASE GuestIret
    <3>1. GuestType'
      BY <1>0, <2>2, PopFrame DEF GuestIret
    <3> QED
      BY <2>2, <3>1, <1>U DEF GuestIret, BasicType, latches
  <2>3. CASE GuestSti \/ GuestToggleIf
    <3>1. GuestType'
      BY <1>0, <2>3 DEF GuestSti, GuestToggleIf, GuestType
    <3> QED
      BY <2>3, <3>1, <1>U DEF GuestSti, GuestToggleIf, BasicType, latches
  <2>4. CASE GuestIo \/ GuestEoi \/ GuestReadKey \/ GuestBop
    BY <2>4, <1>U DEF GuestIo, GuestEoi, GuestReadKey, GuestBop, BasicType, latches, ExecSteps
  <2>5. CASE HandlerStalls
    <3>1. net' \in NetType
      BY <1>0, <2>5 DEF HandlerStalls, NetType
    <3> QED
      BY <2>5, <3>1, <1>U DEF HandlerStalls, BasicType, latches
  <2> QED
    BY <1>8, <2>1, <2>2, <2>3, <2>4, <2>5 DEF GuestStep
<1> QED
  BY <1>1, <1>2, <1>3, <1>4, <1>5, <1>6, <1>7, <1>8 DEF Next, InjectorStep

-----------------------------------------------------------------------------
(* g_Lock and the guest's context.                                         *)

(* A step of an attempt is its thread's alone, and ends the attempt or     *)
(* takes it further.                                                       *)
LEMMA AttemptMoves ==
    ASSUME BasicType, NEW t \in Injectors, AsyncInjectIrq(t)
    PROVE  /\ inj[t].pc \in Attempt
           /\ \A u \in Injectors : u # t => inj'[u] = inj[u]
           /\ \/ IsOver(t, FALSE, inj'[t])
              \/ IsOver(t, TRUE, inj'[t])
              \/ inj'[t].pc \in Attempt /\ inj'[t].irq = inj[t].irq
           /\ UNCHANGED <<session, keyUp, lock, inExec, exec, event>>
<1> USE DEF Attempt, Trying, Placed
<1>1. ASSUME Bail(t)
      PROVE  IsOver(t, FALSE, inj'[t]) /\ \A u \in Injectors : u # t => inj'[u] = inj[u]
  BY <1>1, AttemptOver DEF Bail
<1>2. CASE AsyncCheck(t)
  <2>1. CASE Bail(t)
    BY <1>1, <1>2, <2>1 DEF AsyncCheck, latches
  <2>2. CASE inj' = [inj EXCEPT ![t].pc = "claim"]
    BY <1>2, <2>2, AttemptGoesOn DEF AsyncCheck, latches
  <2> QED
    BY <1>2, <2>1, <2>2 DEF AsyncCheck
<1>3. CASE AsyncClaim(t)
  <2>1. CASE Bail(t)
    BY <1>1, <1>3, <2>1 DEF AsyncClaim, latches
  <2>2. CASE inj' = [inj EXCEPT ![t].pc = "suspend"]
    BY <1>3, <2>2, AttemptGoesOn DEF AsyncClaim, latches
  <2> QED
    BY <1>3, <2>1, <2>2 DEF AsyncClaim
<1>4. CASE AsyncSuspend(t)
  BY <1>4, AttemptGoesOn DEF AsyncSuspend, latches
<1>5. CASE AsyncInspect(t)
  <2>1. CASE Bail(t)
    BY <1>1, <1>5, <2>1 DEF AsyncInspect
  <2>2. CASE inj' = [inj EXCEPT ![t].pc = "resume"]
    BY <1>5, <2>2, AttemptGoesOn DEF AsyncInspect
  <2> QED
    BY <1>5, <2>1, <2>2 DEF AsyncInspect
<1>6. CASE AsyncResume(t)
  BY <1>6, AttemptGoesOn DEF AsyncResume, latches
<1>7. CASE AsyncAccount(t)
  BY <1>7, AttemptOver DEF AsyncAccount
<1> QED
  BY <1>2, <1>3, <1>4, <1>5, <1>6, <1>7 DEF AsyncInjectIrq

LEMMA LockStep ==
    ASSUME BasicType, ThreadsInv, LockInv, Next
    PROVE  LockInv'
<1> USE DEF LockInv, Injectors
<1>0. InjType
  BY DEF BasicType
<1>1. CASE Raise
  BY <1>0, <1>1 DEF Raise, TickRaise, KeyRaise, DeviceRaise, InjType, NoThread, ExecThread
<1>2. ASSUME NEW t \in Injectors, AsyncInjectIrq(t)
      PROVE  LockInv'
  BY <1>2, AttemptMoves DEF IsOver, Attempt, Trying, Placed
<1>3. ASSUME NEW t \in Injectors, InjectorUnlock(t)
      PROVE  LockInv'
  BY <1>0, <1>3 DEF InjectorUnlock, InjType, NoThread, ExecThread, ThreadsInv
<1>4. CASE PitDeliver
  BY <1>0, <1>4 DEF PitDeliver, PitDeliverLock, PitDeliverChoose, PitDeliverDevices, InjType, NoThread, ExecThread
<1>5. CASE CourierWake
  BY <1>0, <1>5 DEF CourierWake, InjType
<1>6. CASE LoopStep
  BY <1>6, ExecSteppers
     DEF LoopStep, LoopPumpSkip, LoopPumpUnlock, V86DeliverTimerIrq, V86DeliverKeyboardIrq, V86DeliverDeviceIrq,
         LoopEnterGuest, LoopLeaveGuest, ServiceDosCall, ServiceEoi, ServiceIo, ExecAt, NoThread, ExecThread
<1>7. CASE LoopLockStep
  BY <1>7, ExecSteppers DEF LoopLockStep, LoopPumpLock, ServiceIoLock, ExecAt, NoThread, ExecThread
<1>8. CASE GuestStep
  BY <1>8, ExecSteppers
     DEF GuestStep, GuestSti, GuestToggleIf, GuestDosCall, GuestIo, GuestEoi, GuestReadKey, GuestBop,
         GuestIret, HandlerStalls, ExecAt
<1> QED
  BY <1>1, <1>2, <1>3, <1>4, <1>5, <1>6, <1>7, <1>8 DEF Next, InjectorStep

LEMMA ContextStep ==
    ASSUME BasicType, ThreadsInv, LockInv, ContextInv, Next
    PROVE  ContextInv'
<1> USE DEF ContextInv, Holding
<1>0. InjType
  BY DEF BasicType
<1>1. CASE Raise
  BY <1>0, <1>1 DEF Raise, TickRaise, KeyRaise, DeviceRaise, InjType, Injectors
<1>2. ASSUME NEW t \in Injectors, AsyncInjectIrq(t)
      PROVE  ContextInv'
  <2>0. /\ \A u \in Injectors : u # t => inj'[u] = inj[u]
        /\ exec' = exec
    BY <1>2, AttemptMoves
  <2>b. Bail(t) => inj'[t].pc \in {"idle", "check", "devices", "unlock"}
    BY AttemptOver DEF Bail, IsOver, Injectors
  <2>1. CASE AsyncCheck(t)
    <3>1. /\ inj[t].pc = "check" /\ inj'[t].pc \in {"idle", "check", "devices", "unlock", "claim"}
          /\ UNCHANGED <<ctxWrite, suspended>>
      BY <2>b, <2>1, AttemptGoesOn DEF AsyncCheck
    <3> QED
      BY <2>0, <3>1
  <2>2. CASE AsyncClaim(t)
    <3>1. /\ inj[t].pc = "claim" /\ UNCHANGED suspended
          /\ \/ inj'[t].pc \in {"idle", "check", "devices", "unlock"} /\ UNCHANGED ctxWrite
             \/ inj'[t].pc = "suspend" /\ ~ ctxWrite /\ ctxWrite'
      BY <2>b, <2>2, AttemptGoesOn DEF AsyncClaim
    <3> QED
      BY <2>0, <3>1
  <2>3. CASE AsyncSuspend(t)
    <3>1. inj[t].pc = "suspend" /\ inj'[t].pc = "inspect" /\ UNCHANGED ctxWrite /\ suspended'
      BY <2>3, AttemptGoesOn DEF AsyncSuspend
    <3> QED
      BY <2>0, <3>1
  <2>4. CASE AsyncInspect(t)
    <3>1. /\ inj[t].pc = "inspect"
          /\ \/ /\ inj'[t].pc = "resume" /\ UNCHANGED <<ctxWrite, suspended>>
                /\ exec = "guest"
             \/ /\ inj'[t].pc \in {"idle", "check", "devices", "unlock"}
                /\ ~ ctxWrite' /\ ~ suspended'
      BY <2>b, <2>4, AttemptGoesOn DEF AsyncInspect, MayRewrite
    <3> QED
      BY <2>0, <3>1
  <2>5. CASE AsyncResume(t)
    <3>1. inj[t].pc = "resume" /\ inj'[t].pc = "account" /\ ~ ctxWrite' /\ ~ suspended'
      BY <2>5, AttemptGoesOn DEF AsyncResume
    <3> QED
      BY <2>0, <3>1
  <2>6. CASE AsyncAccount(t)
    <3>1. /\ inj[t].pc = "account" /\ inj'[t].pc \in {"idle", "check", "devices", "unlock"}
          /\ UNCHANGED <<ctxWrite, suspended>>
      BY <2>6, AttemptOver DEF AsyncAccount, IsOver, Injectors
    <3> QED
      BY <2>0, <3>1
  <2> QED
    BY <1>2, <2>1, <2>2, <2>3, <2>4, <2>5, <2>6 DEF AsyncInjectIrq
<1>3. ASSUME NEW t \in Injectors, InjectorUnlock(t)
      PROVE  ContextInv'
  BY <1>0, <1>3 DEF InjectorUnlock, InjType
<1>4. CASE PitDeliver
  BY <1>0, <1>4 DEF PitDeliver, PitDeliverLock, PitDeliverChoose, PitDeliverDevices, InjType, Injectors
<1>5. CASE CourierWake
  BY <1>0, <1>5 DEF CourierWake, InjType, Injectors
<1>6. CASE LoopStep \/ LoopLockStep \/ GuestStep
  BY <1>6, ExecSteppers
<1> QED
  BY <1>1, <1>2, <1>3, <1>4, <1>5, <1>6 DEF Next, InjectorStep

-----------------------------------------------------------------------------
(* The kinds of step a delivery attempt takes.                             *)

(* The PIC and the safety net are touched by the first test alone.         *)
OnlyAsked(t) ==
    \/ UNCHANGED <<pic, net>>
    \/ /\ inj[t].pc = "check"
       /\ pic' = CanDeliver(inj[t].irq).pic /\ net' = CanDeliver(inj[t].irq).net

Refused(t) ==
    /\ inj[t].pc \in Trying /\ IsOver(t, FALSE, inj'[t])
    /\ yielded' = YieldedAfter(t, FALSE)
    /\ UNCHANGED <<latches, guest>> /\ OnlyAsked(t)

Further(t) ==
    /\ inj[t].pc \in Trying /\ inj'[t].pc \in Trying \ {"check"} /\ inj'[t].irq = inj[t].irq
    /\ inj[t].pc = "check" => CanDeliver(inj[t].irq).ok /\ inExec
    /\ inj[t].pc = "check" => (inj[t].irq = Device => Device \in session.hooked)
    /\ UNCHANGED <<latches, guest, yielded>> /\ OnlyAsked(t)

Place(t) ==
    /\ inj[t].pc = "inspect" /\ inj'[t].pc = "resume" /\ inj'[t].irq = inj[t].irq
    /\ MayRewrite /\ InjectInt(inj[t].irq)
    /\ pic' = Acknowledged(inj[t].irq)
    /\ owed' = IF inj[t].irq = Timer THEN owed - 1 ELSE owed
    /\ due' = (inj[t].irq # Device /\ due)
    /\ net' = IF inj[t].irq = Timer THEN [net EXCEPT !.expired = FALSE] ELSE net
    /\ UNCHANGED <<pending0, pending1, pendingN, yielded>>

Released(t) ==
    /\ inj[t].pc = "resume" /\ inj'[t].pc = "account" /\ inj'[t].irq = inj[t].irq
    /\ UNCHANGED <<pic, net, latches, guest, yielded>>

Accounted(t) ==
    /\ inj[t].pc = "account" /\ IsOver(t, TRUE, inj'[t])
    /\ pending0' = IF inj[t].irq = Timer THEN pending0 - 1 ELSE pending0
    /\ pending1' = IF inj[t].irq = Keyboard THEN pending1 - 1 ELSE pending1
    /\ pendingN' = (inj[t].irq # Device /\ pendingN)
    /\ yielded' = IF inj[t].irq = Keyboard THEN yielded + 1 ELSE yielded
    /\ UNCHANGED <<pic, net, owed, due, guest>>

LEMMA AttemptKinds ==
    ASSUME BasicType, NEW t \in Injectors, AsyncInjectIrq(t)
    PROVE  Refused(t) \/ Further(t) \/ Place(t) \/ Released(t) \/ Accounted(t)
<1> USE DEF Trying
<1>1. ASSUME Bail(t)
      PROVE  IsOver(t, FALSE, inj'[t]) /\ yielded' = YieldedAfter(t, FALSE)
  BY <1>1, AttemptOver DEF Bail
<1>2. CASE AsyncCheck(t)
  <2>1. OnlyAsked(t) /\ UNCHANGED <<latches, guest>> /\ inj[t].pc = "check"
    BY <1>2 DEF AsyncCheck, OnlyAsked
  <2>2. CASE Bail(t)
    BY <1>1, <2>1, <2>2 DEF Refused
  <2>3. CASE ~ Bail(t)
    <3>1. /\ CanDeliver(inj[t].irq).ok /\ (inj[t].irq = Device => Device \in session.hooked) /\ inExec
          /\ inj' = [inj EXCEPT ![t].pc = "claim"] /\ UNCHANGED yielded
      BY <1>2, <2>3 DEF AsyncCheck
    <3>2. inj'[t].pc = "claim" /\ inj'[t].irq = inj[t].irq
      BY <3>1, AttemptGoesOn
    <3> QED
      BY <2>1, <3>1, <3>2 DEF Further
  <2> QED
    BY <2>2, <2>3
<1>3. CASE AsyncClaim(t)
  <2>1. CASE Bail(t)
    BY <1>1, <1>3, <2>1 DEF AsyncClaim, Refused, OnlyAsked
  <2>2. CASE inj' = [inj EXCEPT ![t].pc = "suspend"] /\ UNCHANGED yielded
    BY <1>3, <2>2, AttemptGoesOn DEF AsyncClaim, Further, OnlyAsked
  <2> QED
    BY <1>3, <2>1, <2>2 DEF AsyncClaim
<1>4. CASE AsyncSuspend(t)
  BY <1>4, AttemptGoesOn DEF AsyncSuspend, Further, OnlyAsked
<1>5. CASE AsyncInspect(t)
  <2>1. CASE MayRewrite
    BY <1>5, <2>1, AttemptGoesOn DEF AsyncInspect, Place
  <2>2. CASE ~ MayRewrite
    BY <1>1, <1>5, <2>2 DEF AsyncInspect, Refused, OnlyAsked, latches
  <2> QED
    BY <2>1, <2>2
<1>6. CASE AsyncResume(t)
  BY <1>6, AttemptGoesOn DEF AsyncResume, Released
<1>7. CASE AsyncAccount(t)
  BY <1>7, AttemptOver DEF AsyncAccount, Accounted
<1> QED
  BY <1>2, <1>3, <1>4, <1>5, <1>6, <1>7 DEF AsyncInjectIrq

-----------------------------------------------------------------------------
(* The latches.                                                            *)

LEMMA TickLatchStep ==
    ASSUME BasicType, ThreadsInv, LockInv, TickLatchInv, Next
    PROVE  TickLatchInv'
<1> USE LineFacts, DeliveryAssumption DEF TickLatchInv, MayTick, PlacedTick
<1>0. /\ InjType /\ pending0 \in Int /\ owed \in Int /\ TickDebtMax \in Nat
      /\ "pacer" \in Injectors /\ "courier" \in Injectors
  BY DEF BasicType, Injectors
<1>1. CASE Raise
  <2>1. inj'["pacer"] = inj["pacer"] /\ inj'["courier"] = inj["courier"]
    BY <1>0, <1>1 DEF Raise, TickRaise, KeyRaise, DeviceRaise, InjType
  <2>2. \/ pending0 < IrqPendingMax /\ pending0' = pending0 + 1 /\ owed' = owed + 1
        \/ UNCHANGED <<pending0, owed>>
    BY <1>0, <1>1 DEF Raise, TickRaise, KeyRaise, DeviceRaise
  <2> QED
    BY <1>0, <2>1, <2>2
<1>2. ASSUME NEW t \in Injectors, AsyncInjectIrq(t)
      PROVE  TickLatchInv'
  <2> USE DEF IsOver, Attempt, Trying, Placed
  <2>0. /\ \A u \in Injectors : u # t => inj'[u] = inj[u]
        /\ inj[t].irq = Timer => t \in {"pacer", "courier"}
    BY <1>2, AttemptMoves DEF ThreadsInv, Injectors
  <2>1. CASE Refused(t)
    BY <1>0, <2>0, <2>1 DEF Refused, latches, Injectors
  <2>2. CASE Further(t)
    BY <1>0, <2>0, <2>2 DEF Further, latches
  <2>3. CASE Place(t)
    BY <1>0, <2>0, <2>3 DEF Place
  <2>4. CASE Released(t)
    BY <1>0, <2>0, <2>4 DEF Released, latches
  <2>5. CASE Accounted(t)
    BY <1>0, <2>0, <2>5 DEF Accounted, ThreadsInv, Injectors
  <2> QED
    BY <1>2, <2>1, <2>2, <2>3, <2>4, <2>5, AttemptKinds
<1>3. ASSUME NEW t \in Injectors, InjectorUnlock(t)
      PROVE  TickLatchInv'
  BY <1>0, <1>3 DEF InjectorUnlock, InjType, latches, Attempt, Trying, Placed
<1>4. CASE PitDeliver
  BY <1>0, <1>4 DEF PitDeliver, PitDeliverLock, PitDeliverChoose, PitDeliverDevices, InjType, Injectors, latches,
                    Attempt, Trying, Placed
<1>5. CASE CourierWake
  BY <1>0, <1>5 DEF CourierWake, InjType, latches, Attempt, Trying, Placed
<1>6. CASE LoopStep \/ LoopLockStep \/ GuestStep
  <2>1. UNCHANGED inj
    BY <1>6, ExecSteppers
  <2>2. \/ UNCHANGED <<pending0, owed>>
        \/ /\ pending0 # 0 /\ pending0 >= -TickDebtMax
           /\ pending0' = pending0 - 1 /\ owed' = owed - 1
        \/ pending0' = 0 /\ owed' = owed - pending0
    BY <1>6 DEF LoopStep, LoopLockStep, GuestStep, HostPitResyncCheck, LoopPumpSkip, LoopPumpUnlock, V86DeliverTimerIrq,
         V86DeliverKeyboardIrq, V86DeliverDeviceIrq, LoopEnterGuest, LoopLeaveGuest, ServiceDosCall,
         ServiceEoi, ServiceIo, LoopPumpLock, ServiceIoLock, GuestSti, GuestToggleIf, GuestDosCall,
         GuestIo, GuestEoi, GuestReadKey, GuestBop, GuestIret, HandlerStalls, latches
  <2> QED
    BY <1>0, <2>1, <2>2
<1> QED
  BY <1>1, <1>2, <1>3, <1>4, <1>5, <1>6 DEF Next, InjectorStep

LEMMA KeyLatchStep ==
    ASSUME BasicType, ThreadsInv, LockInv, KeyLatchInv, Next
    PROVE  KeyLatchInv'
<1> USE LineFacts, DeliveryAssumption DEF KeyLatchInv
<1>0. InjType /\ pending1 \in Int /\ yielded \in Nat /\ "pacer" \in Injectors /\ KeyIrqMaxYield \in Nat
  BY DEF BasicType, Injectors
<1>1. CASE Raise
  <2>1. inj'["pacer"] = inj["pacer"]
    BY <1>0, <1>1 DEF Raise, TickRaise, KeyRaise, DeviceRaise, InjType
  <2>2. UNCHANGED yielded /\ (pending1' = pending1 \/ (pending1 < 1 /\ pending1' = pending1 + 1))
    BY <1>1 DEF Raise, TickRaise, KeyRaise, DeviceRaise
  <2> QED
    BY <1>0, <2>1, <2>2
<1>2. ASSUME NEW t \in Injectors, AsyncInjectIrq(t)
      PROVE  KeyLatchInv'
  <2> USE DEF IsOver, Attempt, Trying, Placed
  <2>0. /\ \A u \in Injectors : u # t => inj'[u] = inj[u]
        /\ inj[t].irq = Keyboard => t = "pacer"
    BY <1>2, AttemptMoves DEF ThreadsInv, Injectors
  <2>1. CASE Refused(t)
    BY <1>0, <2>0, <2>1 DEF Refused, latches, YieldedAfter, Injectors
  <2>2. CASE Further(t)
    BY <1>0, <2>0, <2>2 DEF Further, latches
  <2>3. CASE Place(t)
    BY <1>0, <2>0, <2>3 DEF Place
  <2>4. CASE Released(t)
    BY <1>0, <2>0, <2>4 DEF Released, latches
  <2>5. CASE Accounted(t)
    BY <1>0, <2>0, <2>5 DEF Accounted, ThreadsInv, Injectors
  <2> QED
    BY <1>2, <2>1, <2>2, <2>3, <2>4, <2>5, AttemptKinds
<1>3. ASSUME NEW t \in Injectors, InjectorUnlock(t)
      PROVE  KeyLatchInv'
  BY <1>0, <1>3 DEF InjectorUnlock, InjType, latches, Attempt, Trying, Placed
<1>4. CASE PitDeliver
  BY <1>0, <1>4 DEF PitDeliver, PitDeliverLock, PitDeliverChoose, PitDeliverDevices, InjType, Injectors, latches,
                    Attempt, Trying, Placed
<1>5. CASE CourierWake
  BY <1>0, <1>5 DEF CourierWake, InjType, latches, Attempt, Trying, Placed
<1>6. CASE LoopStep \/ LoopLockStep \/ GuestStep
  <2>1. UNCHANGED <<inj, yielded>>
    BY <1>6, ExecSteppers
  <2>2. UNCHANGED pending1 \/ (pending1 > 0 /\ pending1' = pending1 - 1)
    BY <1>6 DEF LoopStep, LoopLockStep, GuestStep, LoopPumpSkip, LoopPumpUnlock, V86DeliverTimerIrq,
         V86DeliverKeyboardIrq, V86DeliverDeviceIrq, LoopEnterGuest, LoopLeaveGuest, ServiceDosCall,
         ServiceEoi, ServiceIo, LoopPumpLock, ServiceIoLock, GuestSti, GuestToggleIf, GuestDosCall,
         GuestIo, GuestEoi, GuestReadKey, GuestBop, GuestIret, HandlerStalls, latches
  <2> QED
    BY <1>0, <2>1, <2>2
<1> QED
  BY <1>1, <1>2, <1>3, <1>4, <1>5, <1>6 DEF Next, InjectorStep

-----------------------------------------------------------------------------
(* What the steps do to the guest's stack.                                 *)

(* The exec loop's three deliveries.                                       *)
Delivered(irq) ==
    /\ InjectInt(irq) /\ ~ suspended /\ GuestIfEnabled
    /\ UNCHANGED event
    /\ \/ exec = "timer" /\ exec' = "keyboard" /\ irq = Timer /\ ~ InStubOf({Timer})
       \/ exec = "keyboard" /\ exec' = "device" /\ irq = Keyboard /\ ~ InStubOf({Timer, Keyboard})
       \/ exec = "device" /\ exec' = "entering" /\ irq = Device /\ ~ AtBop /\ Device \in session.hooked

(* A step that delivers, calls DOS, returns, or ends a handler.            *)
StackMoves ==
    \/ \E t \in Injectors : AsyncInjectIrq(t) /\ Place(t)
    \/ \E irq \in {Timer, Keyboard, Device} : Delivered(irq)
    \/ GuestSti \/ GuestToggleIf \/ GuestDosCall \/ GuestIret \/ ServiceEoi

(* Any other step leaves the guest alone, and takes the exec thread from   *)
(* one place in its loop to the next.                                      *)
ExecMoves ==
    /\ UNCHANGED guest
    /\ \/ UNCHANGED <<exec, event>>
       \/ /\ UNCHANGED event
          /\ \/ exec = "pump" /\ exec' \in {"timer", "pumping"}
             \/ exec = "pumping" /\ exec' = "timer"
             \/ exec = "timer" /\ exec' = "keyboard"
             \/ exec = "keyboard" /\ exec' = "device"
             \/ exec = "device" /\ exec' = "entering"
             \/ exec = "entering" /\ exec' = "guest"
             \/ exec = "leaving" /\ exec' = "service"
             \/ exec = "service" /\ event = "dos" /\ exec' = "pump"
             \/ exec = "service" /\ event # "dos" /\ exec' = "servicing"
             \/ exec = "servicing" /\ event \in {"io", "in60"} /\ exec' = "pump"
       \/ /\ exec = "guest" /\ exec' = "leaving"
          /\ \/ ~ InStub /\ event' \in {"io", "in60"}
             \/ InHandler /\ ~ Top.ended /\ event' = "eoi"
             \/ AtBop /\ event' = "bop"

LEMMA StepKinds ==
    ASSUME BasicType, Next
    PROVE  StackMoves \/ ExecMoves
<1>1. CASE Raise
  BY <1>1 DEF Raise, TickRaise, KeyRaise, DeviceRaise, ExecMoves
<1>2. ASSUME NEW t \in Injectors, AsyncInjectIrq(t)
      PROVE  StackMoves \/ ExecMoves
  BY <1>2, AttemptKinds, AttemptMoves DEF Refused, Further, Released, Accounted, StackMoves, ExecMoves
<1>3. ASSUME NEW t \in Injectors, InjectorUnlock(t)
      PROVE  ExecMoves
  BY <1>3 DEF InjectorUnlock, ExecMoves
<1>4. CASE PitDeliver
  BY <1>4 DEF PitDeliver, PitDeliverLock, PitDeliverChoose, PitDeliverDevices, ExecMoves
<1>5. CASE CourierWake
  BY <1>5 DEF CourierWake, ExecMoves
<1>6. CASE V86DeliverTimerIrq
  <2>1. UNCHANGED guest \/ (InjectInt(Timer) /\ GuestIfEnabled /\ ~ InStubOf({Timer}))
    BY <1>6 DEF V86DeliverTimerIrq
  <2>2. exec = "timer" /\ exec' = "keyboard" /\ ~ suspended /\ UNCHANGED event
    BY <1>6 DEF V86DeliverTimerIrq, ExecAt
  <2> QED
    BY <2>1, <2>2 DEF StackMoves, ExecMoves, Delivered
<1>7. CASE V86DeliverKeyboardIrq
  <2>1. UNCHANGED guest \/ (InjectInt(Keyboard) /\ GuestIfEnabled /\ ~ InStubOf({Timer, Keyboard}))
    BY <1>7 DEF V86DeliverKeyboardIrq
  <2>2. exec = "keyboard" /\ exec' = "device" /\ ~ suspended /\ UNCHANGED event
    BY <1>7 DEF V86DeliverKeyboardIrq, ExecAt
  <2> QED
    BY <2>1, <2>2 DEF StackMoves, ExecMoves, Delivered
<1>8. CASE V86DeliverDeviceIrq
  <2>1. UNCHANGED guest \/ (InjectInt(Device) /\ GuestIfEnabled /\ ~ AtBop /\ Device \in session.hooked)
    BY <1>8 DEF V86DeliverDeviceIrq
  <2>2. exec = "device" /\ exec' = "entering" /\ ~ suspended /\ UNCHANGED event
    BY <1>8 DEF V86DeliverDeviceIrq, ExecAt
  <2> QED
    BY <2>1, <2>2 DEF StackMoves, ExecMoves, Delivered
<1>9. CASE LoopPumpSkip \/ LoopPumpUnlock \/ LoopEnterGuest \/ LoopLeaveGuest \/ ServiceDosCall \/ ServiceIo \/ LoopLockStep
  BY <1>9 DEF LoopPumpSkip, LoopPumpUnlock, LoopEnterGuest, LoopLeaveGuest, ServiceDosCall, ServiceIo,
              LoopLockStep, LoopPumpLock, ServiceIoLock, ExecAt, ExecMoves
<1>10. CASE GuestIo \/ GuestEoi \/ GuestReadKey \/ GuestBop \/ HandlerStalls
  BY <1>10 DEF GuestIo, GuestEoi, GuestReadKey, GuestBop, HandlerStalls, ExecAt, InHandler, ExecMoves
<1> QED
  BY <1>1, <1>2, <1>3, <1>4, <1>5, <1>6, <1>7, <1>8, <1>9, <1>10
     DEF Next, InjectorStep, LoopStep, GuestStep, StackMoves

(* What a delivery adds to the stack.                                      *)
LEMMA DeliveryPushes ==
    ASSUME BasicType, ThreadsInv,
           \/ \E t \in Injectors : AsyncInjectIrq(t) /\ Place(t)
           \/ \E irq \in {Timer, Keyboard, Device} : Delivered(irq)
    PROVE  \E irq \in {Timer, Keyboard, Device}, stub \in BOOLEAN :
              /\ Pushed(irq, stub, FALSE) /\ stub = (irq \notin session.hooked)
              /\ irq = Device => ~ stub
              /\ exec' \in {"device", "entering", "guest"} \/ (exec' = "keyboard" /\ irq = Timer)
<1>0. GuestType
  BY DEF BasicType
<1>1. ASSUME NEW t \in Injectors, AsyncInjectIrq(t), Place(t)
      PROVE  /\ inj[t].irq \in {Timer, Keyboard, Device}
             /\ Pushed(inj[t].irq, inj[t].irq \notin session.hooked, FALSE)
             /\ inj[t].irq = Device => Device \in session.hooked
             /\ exec' = "guest"
  <2>1. inj[t].irq \in {Timer, Keyboard, Device} /\ (inj[t].irq = Device => Device \in session.hooked)
    BY <1>1 DEF ThreadsInv, Place, Injectors, Attempt, Trying
  <2>2. exec' = "guest"
    BY <1>1, AttemptMoves DEF Place, MayRewrite
  <2> QED
    BY <1>0, <1>1, <2>1, <2>2, InjectPushes DEF Place
<1>2. ASSUME NEW irq \in {Timer, Keyboard, Device}, Delivered(irq)
      PROVE  /\ Pushed(irq, irq \notin session.hooked, FALSE) /\ (irq = Device => Device \in session.hooked)
             /\ exec' \in {"device", "entering", "guest"} \/ (exec' = "keyboard" /\ irq = Timer)
  BY <1>0, <1>2, InjectPushes, LineFacts DEF Delivered
<1> QED
  BY <1>1, <1>2

LEMMA FramesStep ==
    ASSUME BasicType, ThreadsInv, FramesInv, EoiInv, Next
    PROVE  FramesInv' /\ EoiInv'
<1> USE LineFacts DEF FramesInv, EoiInv, Top
<1>0. GuestType /\ Len(guest.frames) \in Nat
  BY LenProperties DEF BasicType, GuestType
<1>1. CASE StackMoves
  <2>1. CASE \/ \E t \in Injectors : AsyncInjectIrq(t) /\ Place(t)
             \/ \E irq \in {Timer, Keyboard, Device} : Delivered(irq)
    <3>1. PICK irq \in {Timer, Keyboard, Device}, stub \in BOOLEAN : Pushed(irq, stub, FALSE)
      BY <2>1, DeliveryPushes
    <3>2. FramesInv'
      <4>1. irq # NoLine
        BY LineFacts
      <4>2. \A i \in 1 .. Len(guest'.frames) :
                \/ i \in 1 .. Len(guest.frames) /\ guest'.frames[i] = guest.frames[i]
                \/ guest'.frames[i].line = irq
        BY <1>0, <3>1 DEF Pushed
      <4> QED
        BY <4>1, <4>2
    <3>3. exec' \in {"keyboard", "device", "entering", "guest"}
      BY <2>1, AttemptMoves DEF Place, MayRewrite, Delivered
    <3> QED
      BY <3>2, <3>3
  <2>2. CASE GuestSti \/ GuestToggleIf
    BY <1>0, <2>2 DEF GuestSti, GuestToggleIf, GuestType, ExecAt
  <2>3. CASE GuestDosCall
    <3>1. Pushed(NoLine, TRUE, TRUE) /\ event' = "dos"
      BY <1>0, <2>3, PushFrame DEF GuestDosCall
    <3>2. FramesInv'
      BY <1>0, <3>1 DEF Pushed
    <3> QED
      BY <3>1, <3>2
  <2>4. CASE GuestIret
    <3>1. Popped /\ exec' = "guest"
      BY <1>0, <2>4, PopFrame DEF GuestIret, ExecAt
    <3>2. FramesInv'
      <4> SUFFICES ASSUME NEW i \in 1 .. Len(guest.frames) - 1, guest.frames[i].line = NoLine
                   PROVE  guest.frames[i].stub /\ guest.frames[i].ended
        BY <1>0, <3>1 DEF Popped
      <4> QED
        BY <1>0
    <3>3. EoiInv'
      BY <3>1
    <3> QED
      BY <3>2, <3>3
  <2>5. CASE ServiceEoi
    <3>1. TopEnded /\ exec' = "pump"
      BY <1>0, <2>5, EndTop DEF ServiceEoi
    <3> QED
      BY <1>0, <3>1 DEF TopEnded
  <2> QED
    BY <1>1, <2>1, <2>2, <2>3, <2>4, <2>5 DEF StackMoves
<1>2. CASE ExecMoves
  BY <1>2 DEF ExecMoves, InHandler, InStub, AtBop, InStubOf, Top
<1> QED
  BY <1>1, <1>2, StepKinds

-----------------------------------------------------------------------------
(* Every session.                                                          *)

LEMMA ControlInit ==
    ASSUME Init
    PROVE  ControlInv
<1> USE LineFacts, DeliveryAssumption DEF Init
<1>1. pic \in PairType
  <2> DEFINE mask == Lines \ session.unmasked
  <2>1. VddPicReset \in PairType /\ VddPicReset["master"] \in ChipType
    BY ResetType DEF PairType, Chips
  <2>2. [VddPicReset["master"] EXCEPT !.Imr = mask] \in ChipType
    BY <2>1 DEF ChipType
  <2>3. pic = [VddPicReset EXCEPT !["master"] = [VddPicReset["master"] EXCEPT !.Imr = mask]]
    BY <2>1 DEF PairType, Chips
  <2> HIDE DEF mask, Init
  <2> QED
    BY <2>1, <2>2, <2>3, ReplaceChipType DEF Chips
<1>2. net \in NetType
  <2>1. net = [timeouts |-> 0, autoEoi |-> FALSE, expired |-> FALSE] /\ 0 \in 0 .. IsrTimeoutsMax
    OBVIOUS
  <2> HIDE DEF Init
  <2> QED
    BY <2>1 DEF NetType
<1>3. GuestType
  <2>1. guest.frames = <<>> /\ guest.vif = TRUE /\ <<>> \in Seq(Frame)
    BY EmptySeq
  <2> QED
    BY <2>1 DEF GuestType
<1>4. InjType
  BY DEF InjType, InjectorSteps
<1>5. BasicType
  <2>1. /\ session \in Sessions /\ pending0 = 0 /\ pending1 = 0 /\ pendingN = FALSE /\ keyUp = FALSE
        /\ yielded = 0 /\ lock = NoThread /\ ctxWrite = FALSE /\ inExec = FALSE /\ suspended = FALSE
        /\ exec = "pump" /\ event = "none" /\ owed = 0 /\ due = FALSE
    OBVIOUS
  <2> HIDE DEF Init
  <2>2. /\ pending0 \in Int /\ pending1 \in Int /\ yielded \in Nat /\ owed \in Int
    BY <2>1
  <2>3. /\ pendingN \in BOOLEAN /\ keyUp \in BOOLEAN /\ due \in BOOLEAN
        /\ ctxWrite \in BOOLEAN /\ inExec \in BOOLEAN /\ suspended \in BOOLEAN
        /\ lock \in {NoThread, ExecThread, "pacer", "device"}
        /\ exec \in ExecSteps /\ event \in {"none", "dos", "io", "eoi", "bop", "in60"}
    BY <2>1 DEF ExecSteps
  <2> QED
    BY <1>1, <1>2, <1>3, <1>4, <2>1, <2>2, <2>3, Zenon DEF BasicType
<1>6. ThreadsInv /\ LockInv /\ ContextInv /\ LatchInv
  <2>1. /\ \A t \in Injectors : inj[t].pc = "idle"
        /\ pending0 = 0 /\ owed = 0 /\ pending1 = 0 /\ yielded = 0
        /\ lock = NoThread /\ ctxWrite = FALSE /\ inExec = FALSE /\ suspended = FALSE /\ exec = "pump"
    OBVIOUS
  <2> HIDE DEF Init
  <2> USE <2>1 DEF Injectors, Attempt, Trying, Placed
  <2>2. ThreadsInv /\ ContextInv
    BY DEF ThreadsInv, ContextInv, Holding
  <2>3. LockInv
    BY DEF LockInv, NoThread, ExecThread
  <2>4. LatchInv
    BY DEF LatchInv, TickLatchInv, KeyLatchInv, MayTick, PlacedTick
  <2> QED
    BY <2>2, <2>3, <2>4
<1>7. FramesInv /\ EoiInv
  <2>1. Len(guest.frames) = 0 /\ exec = "pump"
    BY EmptySeq
  <2> HIDE DEF Init
  <2> QED
    BY <2>1 DEF FramesInv, EoiInv
<1> QED
  BY <1>5, <1>6, <1>7 DEF ControlInv

LEMMA ControlStep ==
    ASSUME ControlInv, [Next]_vars
    PROVE  ControlInv'
<1>1. CASE Next
  BY <1>1, TypeStep, ThreadsStep, LockStep, ContextStep, TickLatchStep, KeyLatchStep, FramesStep
     DEF ControlInv, LatchInv
<1>2. CASE UNCHANGED vars
  <2> USE <1>2 DEF vars
  <2>1. BasicType'
    BY DEF ControlInv, BasicType, InjType, GuestType
  <2>2. ThreadsInv' /\ LockInv' /\ ContextInv'
    BY DEF ControlInv, ThreadsInv, LockInv, ContextInv, Holding
  <2>3. LatchInv'
    BY DEF ControlInv, LatchInv, TickLatchInv, KeyLatchInv, MayTick, PlacedTick
  <2>4. FramesInv' /\ EoiInv'
    BY DEF ControlInv, FramesInv, EoiInv, Top
  <2> QED
    BY <2>1, <2>2, <2>3, <2>4 DEF ControlInv
<1> QED
  BY <1>1, <1>2

(* In every session: types, who may run where, the lock's owner, the       *)
(* context's owner, the limits of the latches, the shape of the stack of   *)
(* handlers and what an EOI or BOP in service belongs to.                  *)
THEOREM ControlCorrect == Spec => []ControlInv
<1> QED
  BY ControlInit, ControlStep, PTL DEF Spec

LEMMA ControlTypeOK ==
    ASSUME ControlInv
    PROVE  TypeOK
<1>1. BasicType /\ LatchInv
  BY DEF ControlInv
<1>2. /\ guest.vif \in BOOLEAN /\ guest.frames \in Seq(Frame)
  BY <1>1 DEF BasicType, GuestType
<1>3. \A i \in 1 .. Len(guest.frames) : guest.frames[i] \in Frame
  BY <1>2, ElementOfSeq
<1>4. /\ pending0 \in -(TickDebtMax + 2) .. IrqPendingMax
      /\ owed \in -(TickDebtMax + 2) .. IrqPendingMax
  <2>1. /\ pending0 \in Int /\ owed \in Int /\ TickDebtMax \in Nat /\ IrqPendingMax \in Nat
        /\ TickLatchInv
    BY <1>1, DeliveryAssumption DEF LatchInv, BasicType
  <2>2. /\ PlacedTick("pacer") = 1 => MayTick("pacer")
        /\ PlacedTick("courier") = 1 => MayTick("courier")
        /\ PlacedTick("pacer") \in {0, 1} /\ PlacedTick("courier") \in {0, 1}
    BY DEF PlacedTick, MayTick, Attempt
  <2> HIDE DEF PlacedTick, MayTick
  <2> QED
    BY <2>1, <2>2 DEF TickLatchInv
<1>5. pending1 \in -1 .. 1 /\ yielded \in 0 .. KeyIrqMaxYield
  BY <1>1, DeliveryAssumption DEF LatchInv, KeyLatchInv, BasicType
<1> QED
  BY <1>1, <1>2, <1>3, <1>4, <1>5 DEF TypeOK, BasicType, InjType, NetType

(* In every session, the tick courier's included, the latches and the      *)
(* yield count stay within their limits: a tick latch that two threads and *)
(* the exec loop decrement without a common lock is never further below    *)
(* zero than the last two of them can take it.                             *)
THEOREM DeliveryTypeCorrect == Spec => []TypeOK
  BY ControlCorrect, ControlTypeOK, PTL

LEMMA ControlInterlock ==
    ASSUME ControlInv
    PROVE  SuspendInterlock
  BY DEF ControlInv, ContextInv, LockInv, SuspendInterlock

(* Whoever injects, and with or without g_Lock: one thread at a time owns  *)
(* the guest's context, the exec thread is stopped exactly while that      *)
(* thread is about to rewrite it, and a rewritten context is that of guest *)
(* code that does not hold g_Lock.                                         *)
THEOREM SuspendInterlocked == Spec => []SuspendInterlock
  BY ControlCorrect, ControlInterlock, PTL

-----------------------------------------------------------------------------
(* A guest that keeps interrupts off.                                      *)

LEMMA SessionKept ==
    ASSUME BasicType, Next
    PROVE  UNCHANGED session
<1>1. ASSUME NEW t \in Injectors, AsyncInjectIrq(t)
      PROVE  UNCHANGED session
  BY <1>1, AttemptMoves
<1>2. ASSUME NEW t \in Injectors, InjectorUnlock(t)
      PROVE  UNCHANGED session
  BY <1>2 DEF InjectorUnlock
<1>3. Raise \/ PitDeliver \/ CourierWake => UNCHANGED session
  BY DEF Raise, TickRaise, KeyRaise, DeviceRaise, PitDeliver, PitDeliverLock, PitDeliverChoose,
         PitDeliverDevices, CourierWake
<1> QED
  BY <1>1, <1>2, <1>3, ExecSteppers DEF Next, InjectorStep

(* Neither path delivers onto an unfinished handler.                       *)
LEMMA NoneUnended ==
    ASSUME BasicType, StackInv,
           \/ \E t \in Injectors : Place(t)
           \/ \E irq \in {Timer, Keyboard, Device} : Delivered(irq)
    PROVE  ~ HasUnended
<1> SUFFICES ASSUME NEW i \in 1 .. Len(guest.frames), Unended(i)
             PROVE  FALSE
  BY DEF HasUnended
<1> DEFINE n == Len(guest.frames)
<1>0. n \in Nat /\ i \in 1 .. n /\ guest.frames # <<>>
      /\ Timer # Keyboard /\ Timer # Device /\ Keyboard # Device
  BY LenProperties, EmptySeq, LineFacts DEF BasicType, GuestType
<1>1. /\ ~ guest.vif
      /\ \A j \in i + 1 .. n : ~ guest.frames[j].saved
  BY DEF StackInv
<1>2. CASE i # n
  <2>1. n \in i + 1 .. n
    BY <1>0, <1>2
  <2>2. ~ Top.saved
    BY <1>1, <2>1 DEF Top
  <2> QED
    BY <1>1, <2>2 DEF Place, MayRewrite, Delivered, GuestIfEnabled
<1>3. CASE i = n
  <2>1. ~ Top.ended
    BY <1>3 DEF Unended, Top
  <2>2. Top.stub
    BY <1>0, <1>1 DEF Place, MayRewrite, Delivered, GuestIfEnabled, InStub
  <2>3. /\ Top.line \in {Timer, Keyboard}
        /\ \/ exec \in {"device", "entering", "guest", "leaving", "service", "servicing"}
           \/ exec = "keyboard" /\ Top.line = Timer
    BY <1>3, <2>2 DEF StackInv, Top
  <2> QED
    BY <1>0, <2>1, <2>2, <2>3 DEF Place, MayRewrite, Delivered, InStub, InStubOf, AtBop
<1> QED
  BY <1>2, <1>3

LEMMA StackStep ==
    ASSUME BasicType, ThreadsInv, FramesInv, EoiInv, KeepsInterruptsOff(session), StackInv, Next
    PROVE  StackInv'
<1> DEFINE n == Len(guest.frames)
<1>0. GuestType /\ n \in Nat
  BY LenProperties DEF BasicType, GuestType
<1>1. CASE StackMoves
  <2>1. CASE \/ \E t \in Injectors : AsyncInjectIrq(t) /\ Place(t)
             \/ \E irq \in {Timer, Keyboard, Device} : Delivered(irq)
    <3>1. PICK irq \in {Timer, Keyboard, Device}, stub \in BOOLEAN :
             /\ Pushed(irq, stub, FALSE)
             /\ irq = Device => ~ stub
             /\ exec' \in {"device", "entering", "guest"} \/ (exec' = "keyboard" /\ irq = Timer)
      BY <2>1, DeliveryPushes
    <3>2. ~ HasUnended
      BY <2>1, NoneUnended
    <3>3. Len(guest'.frames) = n + 1 /\ ~ guest'.vif
      BY <3>1 DEF Pushed
    <3>4. irq # NoLine
      BY LineFacts
    <3> SUFFICES ASSUME NEW i \in 1 .. Len(guest'.frames), Unended(i)'
                 PROVE  StackInv!(i)'
      BY DEF StackInv
    <3>5. i = n + 1 /\ guest'.frames[i].line = irq /\ guest'.frames[i].stub = stub
      <4>1. \/ i \in 1 .. n /\ guest'.frames[i] = guest.frames[i]
            \/ i = n + 1 /\ guest'.frames[i].line = irq /\ guest'.frames[i].stub = stub
        BY <1>0, <3>1 DEF Pushed
      <4> QED
        BY <3>2, <4>1 DEF HasUnended, Unended
    <3> QED
      BY <1>0, <3>1, <3>3, <3>4, <3>5
  <2>2. CASE GuestSti \/ GuestToggleIf
    <3>1. ~ HasUnended
      <4> SUFFICES ASSUME NEW i \in 1 .. n, Unended(i)
                   PROVE  FALSE
        BY DEF HasUnended
      <4>1. n # 0 /\ guest.frames # <<>>
        BY EmptySeq
      <4>2. Top.ended /\ ~ Top.stub
        BY <2>2, <4>1 DEF GuestSti, GuestToggleIf, InHandler, InStub, KeepsInterruptsOff
      <4>3. n \in i + 1 .. n
        BY <1>0, <4>2 DEF Top, Unended
      <4>4. Top.line = NoLine
        BY <4>3 DEF StackInv, Top
      <4> QED
        BY <1>0, <4>1, <4>2, <4>4 DEF FramesInv, Top
    <3>2. guest'.frames = guest.frames
      BY <1>0, <2>2 DEF GuestSti, GuestToggleIf, GuestType
    <3> QED
      BY <3>1, <3>2 DEF StackInv, HasUnended, Unended
  <2>3. CASE GuestDosCall
    <3>1. Pushed(NoLine, TRUE, TRUE) /\ ~ InStub
      BY <1>0, <2>3, PushFrame DEF GuestDosCall
    <3>2. \A i \in 1 .. Len(guest'.frames) :
              \/ i \in 1 .. n /\ guest'.frames[i] = guest.frames[i]
              \/ /\ i = n + 1 /\ guest'.frames[i].line = NoLine
                 /\ guest'.frames[i].saved = guest.vif /\ guest'.frames[i].ended = TRUE
      BY <1>0, <3>1 DEF Pushed
    <3>3. Len(guest'.frames) = n + 1 /\ guest'.vif = FALSE
      BY <3>1 DEF Pushed
    <3> SUFFICES ASSUME NEW i \in 1 .. Len(guest'.frames), Unended(i)'
                 PROVE  StackInv!(i)'
      BY DEF StackInv
    <3>4. i \in 1 .. n /\ guest'.frames[i] = guest.frames[i] /\ Unended(i)
      BY <3>2 DEF Unended
    <3>5. ~ guest.frames[i].stub
      BY <3>1, <3>4, EmptySeq DEF StackInv, InStub, Top
    <3>6. /\ ~ guest.vif /\ guest.frames[i].line # NoLine
          /\ \A j \in i + 1 .. n : ~ guest.frames[j].saved /\ guest.frames[j].line = NoLine
      BY <3>4 DEF StackInv
    <3>7. \A j \in i + 1 .. n + 1 : ~ guest'.frames[j].saved /\ guest'.frames[j].line = NoLine
      BY <1>0, <3>2, <3>3, <3>4, <3>6
    <3> QED
      BY <3>3, <3>4, <3>5, <3>6, <3>7
  <2>4. CASE GuestIret
    <3>1. Popped /\ Top.ended /\ guest.frames # <<>>
      BY <1>0, <2>4, PopFrame DEF GuestIret, KeepsInterruptsOff
    <3> SUFFICES ASSUME NEW i \in 1 .. Len(guest'.frames), Unended(i)'
                 PROVE  StackInv!(i)'
      BY DEF StackInv
    <3>2. /\ Len(guest'.frames) = n - 1
          /\ \A j \in 1 .. n - 1 : guest'.frames[j] = guest.frames[j]
          /\ guest'.vif = Top.saved /\ i \in 1 .. n /\ n \in i + 1 .. n
      BY <1>0, <3>1 DEF Popped
    <3>3. guest'.frames[i] = guest.frames[i] /\ Unended(i)
      BY <1>0, <3>2 DEF Unended
    <3>4. ~ Top.saved
      BY <3>2, <3>3 DEF StackInv, Top
    <3>5. /\ i # n /\ i \in 1 .. n - 1
          /\ \A j \in i + 1 .. n - 1 : j \in i + 1 .. n /\ j \in 1 .. n - 1
      BY <1>0, <3>2
    <3>6. /\ ~ guest.frames[i].stub /\ guest.frames[i].line # NoLine
          /\ \A j \in i + 1 .. n : ~ guest.frames[j].saved /\ guest.frames[j].line = NoLine
      BY <3>2, <3>3, <3>5 DEF StackInv
    <3>7. \A j \in i + 1 .. n - 1 : ~ guest'.frames[j].saved /\ guest'.frames[j].line = NoLine
      BY <3>2, <3>5, <3>6
    <3> QED
      BY <3>2, <3>3, <3>4, <3>6, <3>7
  <2>5. CASE ServiceEoi
    <3>1. TopEnded
      BY <1>0, <2>5, EndTop DEF ServiceEoi
    <3> SUFFICES ASSUME NEW i \in 1 .. Len(guest'.frames), Unended(i)'
                 PROVE  StackInv!(i)'
      BY DEF StackInv
    <3>2. Len(guest'.frames) = n /\ i \in 1 .. n /\ i # n /\ Unended(i)
      BY <3>1 DEF TopEnded, Unended
    <3> QED
      BY <1>0, <3>1, <3>2 DEF StackInv, TopEnded
  <2> QED
    BY <1>1, <2>1, <2>2, <2>3, <2>4, <2>5 DEF StackMoves
<1>2. CASE ExecMoves
  <2> SUFFICES ASSUME NEW i \in 1 .. n, Unended(i)
               PROVE  StackInv!(i)'
    BY <1>2 DEF StackInv, ExecMoves, Unended
  <2>1. StackInv!(i) /\ UNCHANGED guest
    BY <1>2 DEF StackInv, ExecMoves
  <2>2. CASE ~ guest.frames[i].stub
    BY <2>1, <2>2
  <2>3. CASE guest.frames[i].stub
    <3>1. InStub /\ AtBop /\ ~ InHandler
      BY <2>1, <2>3, EmptySeq DEF InStub, AtBop, InStubOf, InHandler, Top, Unended
    <3> QED
      BY <1>2, <2>1, <2>3, <3>1 DEF ExecMoves
  <2> QED
    BY <2>2, <2>3
<1> QED
  BY <1>1, <1>2, StepKinds

LEMMA DeliveryUnended ==
    ASSUME BasicType, ThreadsInv,
           \/ \E t \in Injectors : AsyncInjectIrq(t) /\ Place(t)
           \/ \E irq \in {Timer, Keyboard, Device} : Delivered(irq)
    PROVE  HasUnended'
<1>1. PICK irq \in {Timer, Keyboard, Device}, stub \in BOOLEAN : Pushed(irq, stub, FALSE)
  BY DeliveryPushes
<1>2. Len(guest.frames) \in Nat
  BY LenProperties DEF BasicType, GuestType
<1>3. Len(guest'.frames) = Len(guest.frames) + 1 /\ ~ guest'.frames[Len(guest.frames) + 1].ended
  BY <1>1, <1>2 DEF Pushed
<1> QED
  BY <1>2, <1>3 DEF HasUnended, Unended

(* A handler ends only under g_Lock, so none does while the pacer or the   *)
(* device's thread is at work.                                             *)
LEMMA UnendedStays ==
    ASSUME BasicType, ThreadsInv, LockInv, KeepsInterruptsOff(session), HasUnended, Next,
           inj["pacer"].pc # "idle" \/ inj["device"].pc # "idle"
    PROVE  HasUnended'
<1> DEFINE n == Len(guest.frames)
<1>0. GuestType /\ n \in Nat
  BY LenProperties DEF BasicType, GuestType
<1>1. PICK i \in 1 .. n : Unended(i)
  BY DEF HasUnended
<1>2. CASE StackMoves
  <2>1. CASE \/ \E t \in Injectors : AsyncInjectIrq(t) /\ Place(t)
             \/ \E irq \in {Timer, Keyboard, Device} : Delivered(irq)
    BY <2>1, DeliveryUnended
  <2>2. CASE GuestSti \/ GuestToggleIf
    BY <1>0, <1>1, <2>2 DEF GuestSti, GuestToggleIf, GuestType, HasUnended, Unended
  <2>3. CASE GuestDosCall
    <3>1. Pushed(NoLine, TRUE, TRUE)
      BY <1>0, <2>3, PushFrame DEF GuestDosCall
    <3>2. Len(guest'.frames) = n + 1 /\ guest'.frames[i] = guest.frames[i]
      BY <1>0, <1>1, <3>1 DEF Pushed
    <3> QED
      BY <1>0, <1>1, <3>2 DEF HasUnended, Unended
  <2>4. CASE GuestIret
    <3>1. Popped /\ Top.ended
      BY <1>0, <2>4, PopFrame DEF GuestIret, KeepsInterruptsOff
    <3>2. i # n
      BY <1>1, <3>1 DEF Unended, Top
    <3> QED
      BY <1>0, <1>1, <3>1, <3>2 DEF Popped, HasUnended, Unended
  <2>5. CASE ServiceEoi
    BY <2>5 DEF ServiceEoi, ExecAt, LockInv, ExecThread
  <2> QED
    BY <1>2, <2>1, <2>2, <2>3, <2>4, <2>5 DEF StackMoves
<1>3. CASE ExecMoves
  BY <1>1, <1>3 DEF ExecMoves, HasUnended, Unended
<1> QED
  BY <1>2, <1>3, StepKinds

(* What the exec thread takes off the latches.                             *)
LEMMA LoopLatches ==
    ASSUME BasicType, LoopStep \/ LoopLockStep \/ GuestStep
    PROVE  \/ UNCHANGED <<pending0, pending1, pendingN, owed, due>>
           \/ Discarded
           \/ /\ Delivered(Timer) /\ pending0 # 0 /\ pending0' = pending0 - 1 /\ owed' = owed - 1
              /\ UNCHANGED <<pending1, pendingN, due>>
           \/ /\ Delivered(Keyboard) /\ pending1 > 0 /\ pending1' = pending1 - 1
              /\ UNCHANGED <<pending0, pendingN, owed, due>>
           \/ /\ Delivered(Device) \/ (Device \notin session.hooked /\ UNCHANGED guest)
              /\ pendingN /\ ~ pendingN' /\ ~ due'
              /\ UNCHANGED <<pending0, pending1, owed>>
<1>1. CASE V86DeliverTimerIrq
  <2>1. \/ UNCHANGED <<pending0, owed>>
        \/ /\ InjectInt(Timer) /\ GuestIfEnabled /\ ~ InStubOf({Timer})
           /\ pending0 # 0 /\ pending0' = pending0 - 1 /\ owed' = owed - 1
    BY <1>1 DEF V86DeliverTimerIrq
  <2> QED
    BY <1>1, <2>1 DEF V86DeliverTimerIrq, ExecAt, Delivered
<1>2. CASE V86DeliverKeyboardIrq
  BY <1>2 DEF V86DeliverKeyboardIrq, ExecAt, Delivered
<1>3. CASE V86DeliverDeviceIrq
  <2>1. \/ pendingN' = pendingN /\ due' = due
        \/ /\ pendingN /\ ~ pendingN' /\ ~ due'
           /\ \/ Device \notin session.hooked /\ UNCHANGED guest
              \/ InjectInt(Device) /\ GuestIfEnabled /\ ~ AtBop /\ Device \in session.hooked
    <3> DEFINE isOpen == pendingN /\ GuestIfEnabled /\ ~ AtBop
               isDropped == isOpen /\ Device \notin session.hooked
               isDelivered == isOpen /\ Device \in session.hooked /\ VddPicCanDeliver(pic, Device)
    <3>1. /\ pendingN' = (pendingN /\ ~ isDropped /\ ~ isDelivered)
          /\ due' = (due /\ ~ isDropped /\ ~ isDelivered)
          /\ IF isDelivered THEN InjectInt(Device) ELSE UNCHANGED guest
      BY <1>3, Zenon DEF V86DeliverDeviceIrq
    <3>2. CASE isDropped
      BY <3>1, <3>2, Zenon
    <3>3. CASE isDelivered
      BY <3>1, <3>3, Zenon
    <3>4. CASE ~ isDropped /\ ~ isDelivered
      <4>1. pendingN \in BOOLEAN /\ due \in BOOLEAN
        BY DEF BasicType
      <4> HIDE DEF isDropped, isDelivered
      <4> QED
        BY <3>1, <3>4, <4>1
    <3> QED
      BY <3>2, <3>3, <3>4
  <2> QED
    BY <1>3, <2>1 DEF V86DeliverDeviceIrq, ExecAt, Delivered
<1>4. CASE LoopPumpSkip \/ LoopPumpUnlock \/ LoopEnterGuest \/ LoopLeaveGuest \/ ServiceDosCall \/ ServiceEoi
  BY <1>4 DEF LoopPumpSkip, LoopPumpUnlock, LoopEnterGuest, LoopLeaveGuest, ServiceDosCall, ServiceEoi, latches
<1>6. CASE ServiceIo
  BY <1>6, PortAccess DEF BasicType
<1>5. CASE LoopLockStep \/ GuestStep
  BY <1>5 DEF LoopLockStep, LoopPumpLock, ServiceIoLock, GuestStep, GuestSti, GuestToggleIf, GuestDosCall,
              GuestIo, GuestEoi, GuestReadKey, GuestBop, GuestIret, HandlerStalls, latches
<1> QED
  BY <1>1, <1>2, <1>3, <1>4, <1>5, <1>6 DEF LoopStep

(* The pacer and the device's thread are not at an attempt together: both  *)
(* would hold g_Lock.                                                      *)
LEMMA OneAttempt ==
    ASSUME BasicType, ThreadsInv, LockInv
    PROVE  /\ inj["pacer"].pc = "idle" \/ inj["device"].pc = "idle"
           /\ lock \in {NoThread, ExecThread} => inj["pacer"].pc = "idle" /\ inj["device"].pc = "idle"
           /\ ~ session.courier => inj["courier"].pc \notin Attempt /\ PlacedTick("courier") = 0
<1>1. ~ session.courier => inj["courier"].pc \notin Attempt
  BY DEF ThreadsInv
<1> QED
  BY <1>1 DEF LockInv, NoThread, ExecThread, PlacedTick, Attempt

LEMMA QuietStep ==
    ASSUME BasicType, ThreadsInv, LockInv, ContextInv, LatchInv, KeepsInterruptsOff(session), QuietInv, Next
    PROVE  AttemptInv' /\ ExactInv'
<1> USE LineFacts DEF QuietInv, AttemptInv, ExactInv, PlacedDevice, Attempt, Trying, Placed
<1>0. /\ InjType /\ "pacer" \in Injectors /\ "device" \in Injectors /\ "courier" \in Injectors
      /\ \A t \in Injectors : t \in {"pacer", "device", "courier"}
      /\ pending0 \in Int /\ pending1 \in Int /\ owed \in Int /\ pendingN \in BOOLEAN /\ due \in BOOLEAN
      /\ session' = session
  BY SessionKept DEF BasicType, Injectors
<1>a. /\ inj["pacer"].pc = "idle" \/ inj["device"].pc = "idle"
      /\ lock \in {NoThread, ExecThread} => inj["pacer"].pc = "idle" /\ inj["device"].pc = "idle"
      /\ ~ session.courier => inj["courier"].pc \notin Attempt /\ PlacedTick("courier") = 0
      /\ inj["courier"].pc \in Attempt => inj["courier"].irq = Timer
  BY OneAttempt DEF ThreadsInv
<1>b. inj["pacer"].pc # "idle" \/ inj["device"].pc # "idle" => (HasUnended => HasUnended')
  BY UnendedStays
<1>1. CASE TickRaise
  BY <1>0, <1>1, <1>b DEF TickRaise
<1>2. CASE KeyRaise
  BY <1>0, <1>2, <1>b DEF KeyRaise
<1>3. CASE DeviceRaise
  <2>1. /\ inj'["pacer"] = inj["pacer"] /\ inj'["courier"] = inj["courier"]
        /\ inj'["device"] = [pc |-> "check", irq |-> Device]
    BY <1>0, <1>3 DEF DeviceRaise, InjType
  <2> QED
    BY <1>0, <1>a, <1>3, <2>1 DEF DeviceRaise, NoThread, ExecThread
<1>4. ASSUME NEW t \in Injectors, AsyncInjectIrq(t)
      PROVE  AttemptInv' /\ ExactInv'
  <2>0. /\ \A u \in Injectors : u # t => inj'[u] = inj[u]
        /\ inj[t].pc \in Attempt
    BY <1>0, <1>4, AttemptMoves
(* The courier touches the tick latch only.                                *)
  <2>1. CASE t = "courier"
    <3>1. /\ inj'["pacer"] = inj["pacer"] /\ inj'["device"] = inj["device"]
          /\ session.courier /\ inj[t].irq = Timer
      BY <1>0, <1>a, <2>0, <2>1 DEF ThreadsInv
    <3>2. /\ UNCHANGED <<pending1, pendingN, due>>
          /\ inj'[t].pc \in Attempt => inj'[t].irq = Timer
      BY <1>0, <1>4, <2>1, <3>1, AttemptKinds DEF Refused, Further, Place, Released, Accounted, latches, IsOver
    <3>3. HasUnended => HasUnended'
      <4>1. CASE Place(t)
        BY <1>4, <4>1, DeliveryUnended
      <4>2. CASE UNCHANGED guest
        BY <4>2 DEF HasUnended, Unended
      <4> QED
        BY <1>4, <4>1, <4>2, AttemptKinds DEF Refused, Further, Released, Accounted
    <3>4. inj[t].irq # Device /\ (inj'[t].pc \in Attempt => inj'[t].irq # Device)
      BY <3>1, <3>2
    <3>5. AttemptInv'
      BY <1>0, <3>1, <3>2, <3>3
    <3>6. PlacedDevice' <=> PlacedDevice
      BY <1>0, <2>1, <3>1, <3>4
    <3> HIDE DEF PlacedDevice
    <3> QED
      BY <1>0, <3>1, <3>2, <3>5, <3>6
(* One of the two that hold the lock: the other is not at an attempt.      *)
  <2>2. CASE t # "courier"
    <3>0. /\ t \in {"pacer", "device"} /\ (t = "device" => inj[t].irq = Device)
          /\ inj[t].irq = Timer => inj[t].irq # Keyboard /\ inj[t].irq # Device
          /\ \A u \in {"pacer", "device"} : u # t => inj[u].pc \notin Attempt
          /\ \A u \in Injectors : u # t => ~ (inj[u].pc \in Attempt /\ inj[u].irq = Device)
      <4>1. t \in {"pacer", "device"} /\ (t = "device" => inj[t].irq = Device)
        BY <1>0, <2>0, <2>2 DEF ThreadsInv
      <4>2. \A u \in {"pacer", "device"} : u # t => inj[u].pc \notin Attempt
        BY <1>a, <2>0, <4>1
      <4> QED
        BY <1>0, <1>a, <4>1, <4>2
    <3>1. CASE Refused(t)
      BY <1>0, <1>b, <2>0, <3>0, <3>1 DEF Refused, latches, IsOver
    <3>2. CASE Further(t)
      BY <1>0, <1>b, <2>0, <3>0, <3>2 DEF Further, latches
    <3>3. CASE Place(t)
      <4>1. ~ HasUnended /\ HasUnended'
        BY <1>4, <3>3, NoneUnended, DeliveryUnended
      <4>2. inj[t].irq = Timer /\ ~ session.courier => pending0 > 0 /\ owed = pending0
        <5> SUFFICES ASSUME inj[t].irq = Timer, ~ session.courier
                     PROVE  pending0 > 0 /\ owed = pending0
          OBVIOUS
        <5>1. t = "pacer" /\ inj["pacer"].pc = "inspect"
          BY <3>0, <3>3 DEF Place
        <5>2. PlacedTick("pacer") = 0 /\ pending0 > 0
          BY <4>1, <5>1 DEF PlacedTick
        <5> QED
          BY <1>0, <1>a, <5>2 DEF LatchInv, TickLatchInv
      <4>3. inj[t].irq = Device => pendingN /\ ~ due' /\ Device \in session.hooked
        BY <3>0, <3>3, <4>1 DEF Place, ThreadsInv
      <4>4. inj[t].irq # Device => due' = due
        BY <1>0, <3>3 DEF Place
      <4>5. (~ session.courier => owed' >= 0) /\ UNCHANGED <<pending1, pendingN>>
        BY <1>0, <3>3, <4>2 DEF Place
      <4> QED
        BY <1>0, <2>0, <3>0, <3>3, <4>1, <4>3, <4>4, <4>5 DEF Place
    <3>4. CASE Released(t)
      BY <1>0, <1>b, <2>0, <3>0, <3>4 DEF Released, latches
    <3>5. CASE Accounted(t)
      BY <1>0, <1>b, <2>0, <3>0, <3>5 DEF Accounted, IsOver
    <3> QED
      BY <1>4, <3>1, <3>2, <3>3, <3>4, <3>5, AttemptKinds
  <2> QED
    BY <2>1, <2>2
<1>5. ASSUME NEW t \in Injectors, InjectorUnlock(t)
      PROVE  AttemptInv' /\ ExactInv'
  BY <1>0, <1>5, <1>b DEF InjectorUnlock, InjType, latches
<1>6. CASE PitDeliverLock
  BY <1>0, <1>6, <1>b DEF PitDeliverLock, InjType, latches
<1>7. CASE PitDeliverChoose
  BY <1>0, <1>7, <1>b DEF PitDeliverChoose, InjType, latches
<1>8. CASE PitDeliverDevices
  BY <1>0, <1>a, <1>8, <1>b DEF PitDeliverDevices, InjType, latches, ThreadsInv
<1>9. CASE CourierWake
  BY <1>0, <1>9, <1>b DEF CourierWake, latches
<1>10. CASE LoopStep \/ LoopLockStep \/ GuestStep
  <2>0. UNCHANGED inj
    BY <1>10, ExecSteppers
  <2>1. CASE UNCHANGED <<pending0, pending1, pendingN, owed, due>>
    BY <1>0, <1>b, <2>0, <2>1
  <2>2. CASE \E irq \in {Timer, Keyboard, Device} : Delivered(irq)
    <3>1. ~ HasUnended /\ HasUnended'
      BY <2>2, NoneUnended, DeliveryUnended
    <3>2. ~ Discarded
      BY <3>1 DEF Discarded, HasUnended, Unended
    <3> QED
      BY <1>0, <1>a, <1>10, <2>0, <3>1, <3>2, LoopLatches DEF LatchInv, TickLatchInv, PlacedTick
  <2>3. CASE /\ Device \notin session.hooked /\ ~ pendingN' /\ ~ due'
             /\ UNCHANGED <<pending0, pending1, owed>>
    BY <1>0, <1>b, <2>0, <2>3 DEF ThreadsInv
(* A resync is made with g_Lock: no tick is placed and not accounted for.  *)
  <2>4. CASE Discarded
    <3>1. /\ inj["pacer"].pc = "idle" /\ inj["device"].pc = "idle"
          /\ owed' = owed - pending0 /\ UNCHANGED <<pending1, pendingN, due, guest>>
      BY <1>a, <2>4 DEF Discarded, LockInv
    <3>2. ~ session.courier => owed' = 0
      <4>1. pending0 = owed + PlacedTick("pacer") + PlacedTick("courier") /\ PlacedTick("pacer") = 0
        BY <3>1 DEF LatchInv, TickLatchInv, PlacedTick
      <4> QED
        BY <1>0, <1>a, <3>1, <4>1
    <3> QED
      BY <1>0, <2>0, <3>1, <3>2
  <2> QED
    BY <1>10, <2>1, <2>2, <2>3, <2>4, LoopLatches
<1> QED
  BY <1>1, <1>2, <1>3, <1>4, <1>5, <1>6, <1>7, <1>8, <1>9, <1>10 DEF Next, InjectorStep, Raise, PitDeliver

-----------------------------------------------------------------------------
(* The lines in service, when no handler stalls.                           *)

(* What the PIC's answer leaves in force without a stall.                  *)
LEMMA NoTimeout ==
    ASSUME BasicType, ServiceInv, NEW irq
    PROVE  /\ CanDeliver(irq).pic = pic /\ CanDeliver(irq).net = net
           /\ Irq0CanDeliver.pic = pic /\ Irq0CanDeliver.net = net
<1>1. Irq0CanDeliver.pic = pic /\ Irq0CanDeliver.net = net
  BY DEF Irq0CanDeliver, ServiceInv
<1> QED
  BY <1>1 DEF CanDeliver

(* The handler being ended is the only unfinished one.                     *)
LEMMA OnlyTopUnended ==
    ASSUME BasicType, FramesInv, StackInv, guest.frames # <<>>, ~ Top.ended,
           NEW i \in 1 .. Len(guest.frames), Unended(i)
    PROVE  i = Len(guest.frames)
<1>1. Len(guest.frames) \in Nat \ {0}
  BY EmptySeq DEF BasicType, GuestType
<1> SUFFICES ASSUME i # Len(guest.frames)
             PROVE  FALSE
  OBVIOUS
<1>2. Len(guest.frames) \in i + 1 .. Len(guest.frames)
  BY <1>1
<1>3. Top.line = NoLine
  BY <1>2 DEF StackInv, Top
<1> QED
  BY <1>1, <1>3 DEF FramesInv, Top

(* ... so its line is the only one in service.                             *)
LEMMA OnlyTopInService ==
    ASSUME BasicType, FramesInv, StackInv, ServiceInv, guest.frames # <<>>, ~ Top.ended
    PROVE  /\ pic["master"].Isr \subseteq {Top.line}
           /\ ~ Top.stub => pic["master"].Isr = {Top.line}
<1>1. Len(guest.frames) \in Nat \ {0}
  BY EmptySeq DEF BasicType, GuestType
<1>2. ASSUME NEW l \in pic["master"].Isr
      PROVE  l = Top.line
  BY <1>2, OnlyTopUnended DEF ServiceInv, Top
<1>3. ~ Top.stub => Top.line \in pic["master"].Isr
  BY <1>1 DEF ServiceInv, Top, Unended
<1> QED
  BY <1>2, <1>3

LEMMA OwnLine ==
    ASSUME BasicType, FramesInv, EoiInv, StackInv, ServiceInv
    PROVE  EoiEndsOwnLine
<1> SUFFICES ASSUME exec = "servicing", event = "eoi"
             PROVE  PicTopLine(pic["master"], pic["master"].Isr) = Top.line
  BY DEF EoiEndsOwnLine
<1>1. pic["master"].Isr = {Top.line}
  BY OnlyTopInService DEF EoiInv
<1>2. pic["master"] \in ChipType /\ pic["master"].Isr \in SUBSET Lines
  BY DEF BasicType, PairType, Chips, ChipType
<1> QED
  BY <1>1, <1>2, TopLineOutranks

(* The parts of ServiceInv: what is in service is unfinished, and back.    *)
Held == \A l \in pic["master"].Isr : \E i \in 1 .. Len(guest.frames) : Unended(i) /\ guest.frames[i].line = l

InService ==
    \A i \in 1 .. Len(guest.frames) :
        Unended(i) /\ ~ guest.frames[i].stub => guest.frames[i].line \in pic["master"].Isr

LEMMA ServiceParts ==
    ServiceInv <=> /\ ~ net.expired /\ ~ net.autoEoi /\ net.timeouts = 0
                   /\ ~ pic["master"].IsAutoEoi
                   /\ Held /\ InService
  BY DEF ServiceInv, Held, InService

(* A delivery puts its line in service, or leaves nothing there.           *)
LEMMA DeliveryInService ==
    ASSUME BasicType, NEW irq \in {Timer, Keyboard, Device}, NEW stub \in BOOLEAN, Pushed(irq, stub, FALSE),
           ~ HasUnended,
           \/ pic'["master"].Isr = {irq}
           \/ pic'["master"].Isr = {} /\ stub
    PROVE  Held' /\ InService'
<1> DEFINE n == Len(guest.frames)
<1>1. n \in Nat /\ Len(guest'.frames) = n + 1
  BY LenProperties DEF BasicType, GuestType, Pushed
<1>2. /\ n + 1 \in 1 .. n + 1
      /\ guest'.frames[n + 1].line = irq /\ guest'.frames[n + 1].stub = stub /\ ~ guest'.frames[n + 1].ended
  BY <1>1 DEF Pushed
<1>3. \A i \in 1 .. n + 1 : Unended(i)' => i = n + 1
  BY DEF Pushed, HasUnended, Unended
<1>4. Held'
  <2> SUFFICES ASSUME NEW l \in pic'["master"].Isr
               PROVE  \E i \in 1 .. n + 1 : ~ guest'.frames[i].ended /\ guest'.frames[i].line = l
    BY <1>1 DEF Held, Unended
  <2> QED
    BY <1>2
<1>5. InService'
  <2> SUFFICES ASSUME NEW i \in 1 .. n + 1, Unended(i)', ~ guest'.frames[i].stub
               PROVE  guest'.frames[i].line \in pic'["master"].Isr
    BY <1>1 DEF InService
  <2> QED
    BY <1>2, <1>3
<1> QED
  BY <1>4, <1>5

(* The guest's own steps: a handler that returns has ended.                *)
LEMMA SameInService ==
    ASSUME BasicType, KeepsInterruptsOff(session), Held, InService,
           pic'["master"].Isr = pic["master"].Isr,
           GuestSti \/ GuestToggleIf \/ GuestDosCall \/ GuestIret
    PROVE  Held' /\ InService'
<1> DEFINE n == Len(guest.frames)
<1>0. GuestType /\ n \in Nat
  BY LenProperties DEF BasicType, GuestType
<1>1. CASE GuestSti \/ GuestToggleIf
  <2>1. guest'.frames = guest.frames
    BY <1>0, <1>1 DEF GuestSti, GuestToggleIf, GuestType
  <2>2. Held'
    BY <2>1 DEF Held, Unended
  <2>3. InService'
    BY <2>1 DEF InService, Unended
  <2> QED
    BY <2>2, <2>3
<1>2. CASE GuestDosCall
  <2>1. Pushed(NoLine, TRUE, TRUE)
    BY <1>0, <1>2, PushFrame DEF GuestDosCall
  <2>2. /\ Len(guest'.frames) = n + 1
        /\ \A i \in 1 .. n : guest'.frames[i] = guest.frames[i]
        /\ guest'.frames[n + 1].stub
    <3>1. /\ n + 1 \in 1 .. n + 1 /\ n + 1 \notin 1 .. n
          /\ \A i \in 1 .. n : i \in 1 .. n + 1 /\ i # n + 1
      BY <1>0
    <3> QED
      BY <2>1, <3>1 DEF Pushed
  <2>3. Held'
    <3> SUFFICES ASSUME NEW l \in pic["master"].Isr
                 PROVE  \E i \in 1 .. Len(guest'.frames) :
                            ~ guest'.frames[i].ended /\ guest'.frames[i].line = l
      BY DEF Held, Unended
    <3>1. PICK i \in 1 .. n : ~ guest.frames[i].ended /\ guest.frames[i].line = l
      BY DEF Held, Unended
    <3> QED
      BY <1>0, <2>2, <3>1 DEF Unended
  <2>4. InService'
    BY <1>0, <2>2 DEF InService, Unended
  <2> QED
    BY <2>3, <2>4
<1>3. CASE GuestIret
  <2>1. Popped /\ Top.ended
    BY <1>0, <1>3, PopFrame DEF GuestIret, KeepsInterruptsOff
  <2>2. /\ Len(guest'.frames) = n - 1
        /\ \A i \in 1 .. n - 1 : guest'.frames[i] = guest.frames[i]
        /\ \A i \in 1 .. n : Unended(i) => i \in 1 .. n - 1
    BY <1>0, <2>1 DEF Popped, Unended, Top
  <2>3. Held'
    <3> SUFFICES ASSUME NEW l \in pic["master"].Isr
                 PROVE  \E i \in 1 .. Len(guest'.frames) :
                            ~ guest'.frames[i].ended /\ guest'.frames[i].line = l
      BY DEF Held, Unended
    <3>1. PICK i \in 1 .. n : ~ guest.frames[i].ended /\ guest.frames[i].line = l
      BY DEF Held, Unended
    <3> QED
      BY <1>0, <2>2, <3>1 DEF Unended
  <2>4. InService'
    <3> SUFFICES ASSUME NEW i \in 1 .. n - 1,
                        ~ guest.frames[i].ended, ~ guest.frames[i].stub
                 PROVE  guest.frames[i].line \in pic["master"].Isr
      BY <1>0, <2>2 DEF InService, Unended
    <3>1. i \in 1 .. n
      BY <1>0
    <3> QED
      BY <3>1 DEF InService, Unended
  <2> QED
    BY <2>3, <2>4
<1> QED
  BY <1>1, <1>2, <1>3

(* The acknowledgement of either path, with nothing in service before it.  *)
LEMMA AcknowledgedLine ==
    ASSUME BasicType, ServiceInv, ~ HasUnended, NEW irq \in {Timer, Keyboard, Device}
    PROVE  /\ VddPicAcknowledge(pic, irq)["master"].Isr = {irq}
           /\ ~ VddPicAcknowledge(pic, irq)["master"].IsAutoEoi
           /\ ~ Acknowledged(irq)["master"].IsAutoEoi
           /\ \/ Acknowledged(irq)["master"].Isr = {irq}
              \/ Acknowledged(irq)["master"].Isr = {} /\ irq \notin session.hooked
<1>1. pic["master"].Isr = {} /\ ~ pic["master"].IsAutoEoi /\ ~ net.autoEoi
  BY DEF ServiceInv, HasUnended
<1>2. irq \in Lines /\ pic \in PairType
  BY LineFacts DEF BasicType
<1>3. /\ VddPicAcknowledge(pic, irq)["master"].Isr = {irq}
      /\ ~ VddPicAcknowledge(pic, irq)["master"].IsAutoEoi
      /\ VddPicAcknowledgeAutoEoi(pic, irq)["master"].Isr = {}
      /\ ~ VddPicAcknowledgeAutoEoi(pic, irq)["master"].IsAutoEoi
  BY <1>1, <1>2, MasterLine
<1> QED
  BY <1>1, <1>3 DEF Acknowledged, IsAutoEoi, AsyncVectorIsOurStub

LEMMA ServiceStep ==
    ASSUME ControlInv, KeepsInterruptsOff(session), ~ session.stalls, StackInv, ServiceInv, Next
    PROVE  ServiceInv'
<1>0. /\ BasicType /\ ThreadsInv /\ LockInv /\ FramesInv /\ EoiInv /\ GuestType
      /\ pic \in PairType /\ net \in NetType
      /\ ~ net.expired /\ ~ net.autoEoi /\ net.timeouts = 0 /\ ~ pic["master"].IsAutoEoi
      /\ Held /\ InService
      /\ Timer \in Lines /\ Keyboard \in Lines /\ Device \in Lines
  BY LineFacts, ServiceParts DEF ControlInv, BasicType
<1> DEFINE NetKept == ~ net'.expired /\ ~ net'.autoEoi /\ net'.timeouts = 0
(* A delivery.                                                             *)
<1>1. ASSUME \/ \E t \in Injectors : AsyncInjectIrq(t) /\ Place(t)
             \/ \E irq \in {Timer, Keyboard, Device} : Delivered(irq),
             NEW irq \in {Timer, Keyboard, Device}, NEW stub \in BOOLEAN, Pushed(irq, stub, FALSE),
             NetKept, ~ pic'["master"].IsAutoEoi,
             \/ pic'["master"].Isr = {irq}
             \/ pic'["master"].Isr = {} /\ stub
      PROVE  ServiceInv'
  <2>1. ~ HasUnended
    BY <1>0, <1>1, NoneUnended
  <2>2. Held' /\ InService'
    BY <1>0, <1>1, <2>1, DeliveryInService
  <2> QED
    BY <1>1, <2>2 DEF ServiceInv, Held, InService
(* The guest's own steps.                                                  *)
<1>2. ASSUME pic'["master"].Isr = pic["master"].Isr, ~ pic'["master"].IsAutoEoi, NetKept,
             GuestSti \/ GuestToggleIf \/ GuestDosCall \/ GuestIret
      PROVE  ServiceInv'
  <2>1. Held' /\ InService'
    BY <1>0, <1>2, SameInService
  <2> QED
    BY <1>2, <2>1 DEF ServiceInv, Held, InService
<1>3. CASE Raise
  <2>1. /\ pic'["master"].Isr = pic["master"].Isr /\ ~ pic'["master"].IsAutoEoi
        /\ UNCHANGED <<net, guest>>
    BY <1>0, <1>3, MasterLine DEF Raise, TickRaise, KeyRaise, DeviceRaise
  <2> QED
    BY <1>0, <2>1 DEF ServiceInv, Unended
<1>4. ASSUME NEW t \in Injectors, AsyncInjectIrq(t)
      PROVE  ServiceInv'
  <2>1. CASE Refused(t) \/ Further(t) \/ Released(t) \/ Accounted(t)
    <3>1. UNCHANGED <<pic, net, guest>>
      BY <1>0, <2>1, NoTimeout DEF Refused, Further, Released, Accounted, OnlyAsked
    <3> QED
      BY <3>1 DEF ServiceInv, Unended
  <2>2. CASE Place(t)
    <3>1. inj[t].irq \in {Timer, Keyboard, Device}
      BY <1>0, <2>2 DEF ThreadsInv, Place, Injectors, Attempt, Trying
    <3>2. ~ HasUnended
      BY <1>0, <2>2, NoneUnended
    <3>3. Pushed(inj[t].irq, inj[t].irq \notin session.hooked, FALSE)
      BY <1>0, <2>2, <3>1, InjectPushes DEF Place
    <3>4. NetKept
      BY <1>0, <2>2 DEF Place, NetType
    <3>5. /\ ~ pic'["master"].IsAutoEoi
          /\ \/ pic'["master"].Isr = {inj[t].irq}
             \/ pic'["master"].Isr = {} /\ inj[t].irq \notin session.hooked
      BY <1>0, <2>2, <3>1, <3>2, AcknowledgedLine DEF Place
    <3> HIDE DEF NetKept
    <3> QED
      BY <1>1, <1>4, <2>2, <3>1, <3>3, <3>4, <3>5
  <2> QED
    BY <1>0, <1>4, <2>1, <2>2, AttemptKinds
<1>5. ASSUME NEW t \in Injectors, InjectorUnlock(t)
      PROVE  ServiceInv'
  BY <1>5 DEF InjectorUnlock, ServiceInv, Unended
<1>6. CASE PitDeliver \/ CourierWake
  BY <1>6 DEF PitDeliver, PitDeliverLock, PitDeliverChoose, PitDeliverDevices, CourierWake, ServiceInv, Unended
<1>7. CASE V86DeliverTimerIrq
  <2>1. Irq0CanDeliver.pic = pic /\ Irq0CanDeliver.net = net
    BY <1>0, NoTimeout
  <2>2. \/ UNCHANGED <<pic, net, guest>>
        \/ /\ Delivered(Timer)
           /\ pic' = VddPicAcknowledge(pic, Timer) /\ net' = [net EXCEPT !.expired = FALSE]
    BY <1>0, <1>7, <2>1 DEF V86DeliverTimerIrq, Delivered, ExecAt
  <2>3. CASE UNCHANGED <<pic, net, guest>>
    BY <2>3 DEF ServiceInv, Unended
  <2>4. CASE Delivered(Timer) /\ pic' = VddPicAcknowledge(pic, Timer) /\ net' = [net EXCEPT !.expired = FALSE]
    <3>1. ~ HasUnended
      BY <1>0, <2>4, NoneUnended
    <3>2. Pushed(Timer, Timer \notin session.hooked, FALSE)
      BY <1>0, <2>4, InjectPushes DEF Delivered
    <3>3. NetKept
      BY <1>0, <2>4 DEF NetType
    <3>4. pic'["master"].Isr = {Timer} /\ ~ pic'["master"].IsAutoEoi
      BY <1>0, <2>4, <3>1, AcknowledgedLine
    <3> HIDE DEF NetKept
    <3> QED
      BY <1>1, <2>4, <3>2, <3>3, <3>4
  <2> QED
    BY <2>2, <2>3, <2>4
<1>8. CASE V86DeliverKeyboardIrq
  <2>1. \/ UNCHANGED <<pic, guest>>
        \/ /\ Delivered(Keyboard)
           /\ pic' = IF Keyboard \notin session.hooked
                       THEN VddPicEndOfInterrupt(VddPicAcknowledge(pic, Keyboard), Keyboard)
                       ELSE VddPicAcknowledge(pic, Keyboard)
    BY <1>8, LineFacts DEF V86DeliverKeyboardIrq, Delivered, ExecAt, AsyncVectorIsOurStub
  <2>2. UNCHANGED net
    BY <1>8 DEF V86DeliverKeyboardIrq
  <2>3. CASE UNCHANGED <<pic, guest>>
    BY <2>2, <2>3 DEF ServiceInv, Unended
  <2>4. CASE Delivered(Keyboard) /\ ~ UNCHANGED <<pic, guest>>
    <3>1. ~ HasUnended
      BY <1>0, <2>4, NoneUnended
    <3>2. Pushed(Keyboard, Keyboard \notin session.hooked, FALSE)
      BY <1>0, <2>4, InjectPushes DEF Delivered
    <3>3. NetKept
      BY <1>0, <2>2
    <3> DEFINE acked == VddPicAcknowledge(pic, Keyboard)
    <3>4. acked \in PairType /\ acked["master"].Isr = {Keyboard} /\ ~ acked["master"].IsAutoEoi
      BY <1>0, <3>1, AcknowledgedLine, AcknowledgePairType, LineFacts
    <3> HIDE DEF acked
    <3>5. /\ VddPicEndOfInterrupt(acked, Keyboard)["master"].Isr = {}
          /\ ~ VddPicEndOfInterrupt(acked, Keyboard)["master"].IsAutoEoi
      BY <1>0, <3>4, MasterLine
    <3>6. /\ ~ pic'["master"].IsAutoEoi
          /\ \/ pic'["master"].Isr = {Keyboard}
             \/ pic'["master"].Isr = {} /\ Keyboard \notin session.hooked
      BY <2>1, <2>4, <3>4, <3>5 DEF acked
    <3> HIDE DEF NetKept
    <3> QED
      BY <1>1, <2>4, <3>2, <3>3, <3>6
  <2> QED
    BY <2>1, <2>3, <2>4
<1>9. CASE V86DeliverDeviceIrq
  <2>1. \/ UNCHANGED <<pic, guest>>
        \/ Delivered(Device) /\ pic' = VddPicAcknowledge(pic, Device)
    BY <1>9 DEF V86DeliverDeviceIrq, Delivered, ExecAt
  <2>2. UNCHANGED net
    BY <1>9 DEF V86DeliverDeviceIrq
  <2>3. CASE UNCHANGED <<pic, guest>>
    BY <2>2, <2>3 DEF ServiceInv, Unended
  <2>4. CASE Delivered(Device) /\ pic' = VddPicAcknowledge(pic, Device)
    <3>1. ~ HasUnended
      BY <1>0, <2>4, NoneUnended
    <3>2. Pushed(Device, Device \notin session.hooked, FALSE)
      BY <1>0, <2>4, InjectPushes DEF Delivered
    <3>3. NetKept
      BY <1>0, <2>2
    <3>4. pic'["master"].Isr = {Device} /\ ~ pic'["master"].IsAutoEoi
      BY <1>0, <2>4, <3>1, AcknowledgedLine
    <3> HIDE DEF NetKept
    <3> QED
      BY <1>1, <2>4, <3>2, <3>3, <3>4
  <2> QED
    BY <2>1, <2>3, <2>4
<1>10. CASE ServiceEoi
  <2> DEFINE n == Len(guest.frames)
  <2>1. TopEnded /\ UNCHANGED net /\ event \in {"eoi", "bop"} /\ exec = "servicing"
    BY <1>0, <1>10, EndTop DEF ServiceEoi, ExecAt
  <2>2. guest.frames # <<>> /\ ~ Top.ended /\ (event = "eoi" <=> ~ Top.stub)
    BY <1>0, <2>1 DEF EoiInv
  <2>3. \A i \in 1 .. n : ~ Unended(i)'
    <3> SUFFICES ASSUME NEW i \in 1 .. n, Unended(i)'
                 PROVE  FALSE
      OBVIOUS
    <3>1. i # n /\ Unended(i)
      BY <2>1 DEF TopEnded, Unended
    <3> QED
      BY <1>0, <2>2, <3>1, OnlyTopUnended
  <2>4. pic'["master"].Isr = {} /\ ~ pic'["master"].IsAutoEoi
    <3>1. pic["master"].Isr \subseteq {Top.line} /\ (~ Top.stub => pic["master"].Isr = {Top.line})
      BY <1>0, <2>2, OnlyTopInService
    <3>2. CASE event = "eoi"
      <4> DEFINE m == pic["master"]
      <4>1. m \in ChipType /\ m.Isr \in SUBSET Lines /\ m.Isr = {Top.line}
        BY <1>0, <2>2, <3>1, <3>2 DEF PairType, Chips, ChipType
      <4>2. PicTopLine(m, m.Isr) = Top.line
        BY <4>1, TopLineOutranks
      <4>3. pic' = [pic EXCEPT !["master"] = PicOcw2(m, "nonspecificEoi", 0)]
        BY <1>0, <1>10, <3>2 DEF ServiceEoi, PairType, Chips
      <4>4. PicOcw2(m, "nonspecificEoi", 0) = [m EXCEPT !.Isr = @ \ {Top.line}]
        BY <4>2 DEF PicOcw2, PicEndLine
      <4>5. pic'["master"] = [m EXCEPT !.Isr = @ \ {Top.line}]
        BY <1>0, <4>3, <4>4 DEF PairType, Chips
      <4> QED
        BY <1>0, <4>1, <4>5 DEF ChipType
    <3>3. CASE event = "bop"
      <4>1. Top.line \in Lines
        <5>1. /\ Top.stub /\ n \in 1 .. n /\ Unended(n)
          BY <2>1, <2>2, <3>3, <1>0, EmptySeq DEF Unended, Top, GuestType
        <5>2. Top.line \in {Timer, Keyboard}
          BY <5>1 DEF StackInv, Top
        <5> QED
          BY <1>0, <5>2
      <4>2. pic' = VddPicEndOfInterrupt(pic, Top.line)
        BY <1>10, <3>3 DEF ServiceEoi
      <4> QED
        BY <1>0, <3>1, <4>1, <4>2, MasterLine
    <3> QED
      BY <2>1, <3>2, <3>3
  <2> QED
    BY <1>0, <2>1, <2>3, <2>4 DEF ServiceInv, TopEnded
<1>11. CASE LoopPumpSkip \/ LoopPumpUnlock \/ LoopEnterGuest \/ LoopLeaveGuest \/ ServiceDosCall \/ LoopLockStep
  BY <1>11 DEF LoopPumpSkip, LoopPumpUnlock, LoopEnterGuest, LoopLeaveGuest, ServiceDosCall,
               LoopLockStep, LoopPumpLock, ServiceIoLock, ServiceInv, Unended
<1>13. CASE ServiceIo
  <2>1. /\ pic'["master"].Isr = pic["master"].Isr /\ ~ pic'["master"].IsAutoEoi
        /\ UNCHANGED <<net, guest>>
    BY <1>0, <1>13, PortAccess
  <2> QED
    BY <1>0, <2>1 DEF ServiceInv, Unended
<1>12. CASE GuestStep
  <2>1. UNCHANGED <<pic, net>>
    BY <1>12 DEF GuestStep, GuestSti, GuestToggleIf, GuestDosCall, GuestIo, GuestEoi, GuestReadKey, GuestBop,
                 GuestIret, HandlerStalls
  <2>2. NetKept
    BY <1>0, <2>1
  <2>3. GuestSti \/ GuestToggleIf \/ GuestDosCall \/ GuestIret \/ UNCHANGED guest
    BY <1>12 DEF GuestStep, GuestIo, GuestEoi, GuestReadKey, GuestBop, HandlerStalls
  <2> HIDE DEF NetKept
  <2>4. CASE UNCHANGED guest
    BY <2>1, <2>4 DEF ServiceInv, Unended
  <2> QED
    BY <1>0, <1>2, <2>1, <2>2, <2>3, <2>4
<1> QED
  BY <1>3, <1>4, <1>5, <1>6, <1>7, <1>8, <1>9, <1>10, <1>11, <1>12, <1>13 DEF Next, InjectorStep, LoopStep

-----------------------------------------------------------------------------
(* Handlers that the PIC alone keeps apart.                                *)

LEMMA PlainRank ==
    ASSUME NEW chip, Plain(chip), NEW line \in Lines
    PROVE  PicRank(chip, line) = line
  BY LinesAssumption DEF Plain, PicRank, FixedLowest, Lines

(* No operation but a change of mode touches what Plain says.              *)
LEMMA PlainKept ==
    ASSUME NEW pair \in PairType, Plain(pair["master"]), NEW irq \in Lines
    PROVE  /\ Plain(VddPicRaise(pair, irq)["master"])
           /\ Plain(VddPicAcknowledge(pair, irq)["master"])
           /\ Plain(VddPicEndOfInterrupt(pair, irq)["master"])
<1> DEFINE m == pair["master"]
           cleared == [m EXCEPT !.Irr = @ \ {irq}]
<1>0. /\ m \in ChipType /\ "master" \in Chips /\ ChipOf(irq) = "master" /\ LineOf(irq) = irq
      /\ DOMAIN pair = Chips
  BY LinesAssumption DEF PairType, Chips, ChipOf, LineOf, Lines
<1>1. cleared \in ChipType /\ Plain(cleared)
  BY <1>0 DEF ChipType, Plain
<1>2. Plain(VddPicRaise(pair, irq)["master"])
  <2>1. VddPicRaise(pair, irq)["master"] = [m EXCEPT !.Irr = @ \cup {irq}]
    BY <1>0 DEF VddPicRaise
  <2> QED
    BY <1>0, <2>1 DEF ChipType, Plain
<1>3. Plain(VddPicAcknowledge(pair, irq)["master"])
  <2>1. VddPicAcknowledge(pair, irq)["master"] = PicInterruptAcknowledge(cleared, irq)
    BY <1>0 DEF VddPicAcknowledge
  <2> HIDE DEF cleared
  <2>2. PicInterruptAcknowledge(cleared, irq) = [cleared EXCEPT !.Isr = @ \cup {irq}]
    BY <1>1 DEF PicInterruptAcknowledge, Plain
  <2> QED
    BY <1>1, <2>1, <2>2 DEF ChipType, Plain
<1>4. Plain(VddPicEndOfInterrupt(pair, irq)["master"])
  <2>1. VddPicEndOfInterrupt(pair, irq)["master"] = [m EXCEPT !.Isr = @ \ {irq}]
    BY <1>0 DEF VddPicEndOfInterrupt, PicEndLine
  <2> QED
    BY <1>0, <2>1 DEF ChipType, Plain
<1> QED
  BY <1>2, <1>3, <1>4

(* What the PIC lets pass is free, and never the masked keyboard.          *)
LEMMA OpenIsFree ==
    ASSUME BasicType, Plain(pic["master"]), NEW irq \in {Timer, Keyboard, Device}, VddPicCanDeliver(pic, irq)
    PROVE  irq # Keyboard /\ IsFree(irq)
<1> DEFINE m == pic["master"]
<1>0. /\ irq \in Lines /\ Timer \in Lines /\ Device \in Lines /\ Keyboard \in Lines
      /\ m.Isr \in SUBSET Lines
      /\ ChipOf(irq) = "master" /\ LineOf(irq) = irq
      /\ Timer = 0 /\ Lines \subseteq Nat
  BY LineFacts, LinesAssumption DEF BasicType, PairType, Chips, ChipType, ChipOf, LineOf, Lines, Timer
<1>1. PicIsLineOpen(m, irq, TRUE)
  BY <1>0 DEF VddPicCanDeliver
<1>2. irq \notin m.Imr /\ PicBlockers(m, irq, TRUE) = {}
  BY <1>1 DEF PicIsLineOpen
<1>3. irq # Keyboard
  BY <1>2 DEF Plain
<1>4. ASSUME NEW o \in m.Isr
      PROVE  ~ (o <= irq)
  <2>1. PicRank(m, o) = o /\ PicRank(m, irq) = irq
    BY <1>0, PlainRank
  <2>2. o \in PicBlockers(m, irq, TRUE) <=> PicRank(m, o) <= PicRank(m, irq)
    BY DEF PicBlockers, Plain
  <2> QED
    BY <1>2, <2>1, <2>2
<1>5. 0 <= irq
  BY <1>0
<1> QED
  BY <1>0, <1>3, <1>4, <1>5 DEF IsFree

LEMMA CanDeliverFree ==
    ASSUME BasicType, NestInv, NEW irq \in {Timer, Keyboard, Device}, CanDeliver(irq).ok
    PROVE  irq # Keyboard /\ IsFree(irq)
<1>1. VddPicCanDeliver(pic, irq)
  BY DEF CanDeliver, Irq0CanDeliver, NestInv
<1> QED
  BY <1>1, OpenIsFree DEF NestInv

LEMMA NoTimeoutNested ==
    ASSUME NestInv, NEW irq
    PROVE  /\ CanDeliver(irq).pic = pic /\ CanDeliver(irq).net = net
           /\ Irq0CanDeliver.pic = pic /\ Irq0CanDeliver.net = net
           /\ Irq0CanDeliver.ok => VddPicCanDeliver(pic, Timer)
<1>1. /\ Irq0CanDeliver.pic = pic /\ Irq0CanDeliver.net = net
      /\ Irq0CanDeliver.ok => VddPicCanDeliver(pic, Timer)
  BY DEF Irq0CanDeliver, NestInv
<1> QED
  BY <1>1 DEF CanDeliver

(* What a step does to the stack and to the lines in service.              *)
NestPlace ==
    \E irq \in {Timer, Device}, stub \in BOOLEAN :
        /\ IsFree(irq) /\ Pushed(irq, stub, FALSE)
        /\ pic'["master"].Isr = pic["master"].Isr \cup {irq}

NestEnd ==
    /\ exec = "servicing" /\ guest.frames # <<>> /\ ~ Top.ended /\ TopEnded
    /\ pic'["master"].Isr = pic["master"].Isr \ {Top.line}

NestReturn ==
    /\ guest.frames # <<>> /\ Top.ended /\ Popped
    /\ pic'["master"].Isr = pic["master"].Isr

NestStays ==
    /\ guest'.frames = guest.frames
    /\ pic'["master"].Isr = pic["master"].Isr

NestQuiet ==
    /\ ~ net'.expired /\ ~ net'.autoEoi /\ net'.timeouts = 0
    /\ Plain(pic'["master"]) /\ event' # "dos"

(* The handler that sends its EOI is the one whose line outranks the       *)
(* others in service.                                                      *)
LEMMA NestedTop ==
    ASSUME BasicType, Plain(pic["master"]), NestedFrames, guest.frames # <<>>, ~ Top.ended
    PROVE  Top.line \in {Timer, Device} /\ PicTopLine(pic["master"], pic["master"].Isr) = Top.line
<1> DEFINE n == Len(guest.frames)
           m == pic["master"]
           top == PicTopLine(m, m.Isr)
<1>0. n \in Nat /\ n \in 1 .. n
  BY EmptySeq, LenProperties DEF BasicType, GuestType
<1>1. Top.line \in {Timer, Device} /\ Top.line \in m.Isr
  BY <1>0 DEF NestedFrames, Unended, Top
<1>2. /\ m \in ChipType /\ m.Isr \in SUBSET Lines /\ m.Isr # {}
  BY <1>1 DEF BasicType, PairType, Chips, ChipType
<1>3. top \in m.Isr /\ PicRank(m, top) <= PicRank(m, Top.line)
  BY <1>1, <1>2, TopLineOutranks
<1>4. top <= Top.line /\ top \in Lines /\ Top.line \in Lines
  BY <1>1, <1>2, <1>3, PlainRank
<1>5. PICK i \in 1 .. n : Unended(i) /\ guest.frames[i].line = top
  BY <1>3 DEF NestedFrames
<1>6. CASE i = n
  BY <1>5, <1>6, <1>1 DEF Top
<1>7. CASE i # n
  <2>1. n \in i + 1 .. n
    BY <1>0, <1>7
  <2>2. top = Device /\ Top.line = Timer
    BY <1>5, <2>1 DEF NestedFrames, Top
  <2>3. Device \in Nat /\ Device # 0 /\ Timer = 0
    BY LineFacts, LinesAssumption DEF Timer, Lines
  <2> QED
    BY <1>4, <2>2, <2>3
<1> QED
  BY <1>1, <1>6, <1>7

LEMMA NestedEoi ==
    ASSUME BasicType, FramesInv, EoiInv, NestInv, ServiceEoi
    PROVE  NestEnd /\ NestQuiet
<1> DEFINE m == pic["master"]
<1>0. /\ GuestType /\ "master" \in Chips /\ pic \in PairType /\ m \in ChipType /\ DOMAIN pic = Chips
      /\ Plain(m) /\ NestedFrames
  BY DEF BasicType, PairType, Chips, NestInv
<1>1. /\ TopEnded /\ UNCHANGED <<net, event>> /\ event \in {"eoi", "bop"} /\ exec = "servicing"
  BY <1>0, EndTop DEF ServiceEoi, ExecAt
<1>2. guest.frames # <<>> /\ ~ Top.ended
  BY <1>1 DEF EoiInv
<1>3. Top.line \in {Timer, Device} /\ PicTopLine(m, m.Isr) = Top.line /\ Top.line \in Lines
  BY <1>0, <1>2, NestedTop, LineFacts
<1>4. CASE event = "eoi"
  <2>1. pic' = [pic EXCEPT !["master"] = PicOcw2(m, "nonspecificEoi", 0)]
    BY <1>0, <1>4 DEF ServiceEoi
  <2>2. PicOcw2(m, "nonspecificEoi", 0) = [m EXCEPT !.Isr = @ \ {Top.line}]
    BY <1>3 DEF PicOcw2, PicEndLine
  <2>3. pic'["master"] = [m EXCEPT !.Isr = @ \ {Top.line}]
    BY <1>0, <2>1, <2>2
  <2>4. pic'["master"].Isr = m.Isr \ {Top.line} /\ Plain(pic'["master"])
    BY <1>0, <2>3 DEF ChipType, Plain
  <2> QED
    BY <1>1, <1>2, <2>4 DEF NestEnd, NestQuiet, NestInv
<1>5. CASE event = "bop"
  <2>1. pic' = VddPicEndOfInterrupt(pic, Top.line)
    BY <1>5 DEF ServiceEoi
  <2>2. pic'["master"].Isr = m.Isr \ {Top.line} /\ Plain(pic'["master"])
    BY <1>0, <1>3, <2>1, MasterLine, PlainKept DEF Plain
  <2> QED
    BY <1>1, <1>2, <2>2 DEF NestEnd, NestQuiet, NestInv
<1> QED
  BY <1>1, <1>4, <1>5

(* A delivery by either path.                                              *)
LEMMA NestedDelivery ==
    ASSUME BasicType, NestInv, NEW irq \in {Timer, Device}, NEW stub \in BOOLEAN, IsFree(irq),
           Pushed(irq, stub, FALSE), pic' = VddPicAcknowledge(pic, irq),
           net' = net \/ net' = [net EXCEPT !.expired = FALSE], UNCHANGED event
    PROVE  NestPlace /\ NestQuiet
<1>0. /\ irq \in Lines /\ pic \in PairType /\ ~ pic["master"].IsAutoEoi /\ Plain(pic["master"])
  BY LineFacts DEF BasicType, NestInv, Plain
<1>1. pic'["master"].Isr = pic["master"].Isr \cup {irq} /\ Plain(pic'["master"])
  BY <1>0, MasterLine, PlainKept
<1>2. ~ net'.expired /\ ~ net'.autoEoi /\ net'.timeouts = 0
  BY DEF BasicType, NetType, NestInv
<1> QED
  BY <1>1, <1>2 DEF NestPlace, NestQuiet, NestInv

LEMMA NestMoves ==
    ASSUME BasicType, ThreadsInv, FramesInv, EoiInv, NestsByRank(session), NestInv, Next
    PROVE  NestQuiet /\ (NestPlace \/ NestEnd \/ NestReturn \/ NestStays)
<1>0. /\ GuestType /\ pic \in PairType
      /\ ~ net.expired /\ ~ net.autoEoi /\ net.timeouts = 0 /\ ~ pic["master"].IsAutoEoi
      /\ Plain(pic["master"]) /\ event # "dos"
      /\ Timer \in Lines /\ Keyboard \in Lines /\ Device \in Lines
  BY LineFacts DEF BasicType, NestInv, Plain
<1>a. UNCHANGED <<pic, net>> /\ event' # "dos" => NestQuiet
  BY <1>0 DEF NestQuiet
<1>1. CASE Raise
  <2>1. /\ pic'["master"].Isr = pic["master"].Isr /\ Plain(pic'["master"])
        /\ UNCHANGED <<net, guest, event>>
    BY <1>0, <1>1, MasterLine, PlainKept DEF Raise, TickRaise, KeyRaise, DeviceRaise
  <2> QED
    BY <1>0, <2>1 DEF NestStays, NestQuiet
<1>2. ASSUME NEW t \in Injectors, AsyncInjectIrq(t)
      PROVE  NestQuiet /\ (NestPlace \/ NestEnd \/ NestReturn \/ NestStays)
  <2>0. UNCHANGED event
    BY <1>2, AttemptMoves
  <2>1. CASE Refused(t) \/ Further(t) \/ Released(t) \/ Accounted(t)
    <3>1. UNCHANGED <<pic, net, guest>>
      BY <2>1, NoTimeoutNested DEF Refused, Further, Released, Accounted, OnlyAsked
    <3> QED
      BY <1>0, <1>a, <2>0, <3>1 DEF NestStays
  <2>2. CASE Place(t)
    <3>1. t \in {"pacer", "device"} /\ inj[t].irq \in {Timer, Keyboard, Device}
      BY <2>2 DEF Place, ThreadsInv, NestsByRank, Injectors, Attempt, Trying
    <3>2. inj[t].irq \in {Timer, Device} /\ IsFree(inj[t].irq)
      BY <2>2, <3>1 DEF Place, NestInv, NestedAttempt, Trying
    <3>3. inj[t].irq = Device => Device \in session.hooked
      BY <1>2, <2>2, DeliveryPushes, <3>1 DEF ThreadsInv, Place, Attempt, Trying
    <3>4. ~ IsAutoEoi(inj[t].irq)
      BY <1>0, <3>2, <3>3 DEF IsAutoEoi, AsyncVectorIsOurStub
    <3>5. pic' = VddPicAcknowledge(pic, inj[t].irq)
      BY <2>2, <3>4 DEF Place, Acknowledged
    <3>6. Pushed(inj[t].irq, inj[t].irq \notin session.hooked, FALSE)
      BY <1>0, <2>2, <3>1, InjectPushes DEF Place
    <3>7. net' = net \/ net' = [net EXCEPT !.expired = FALSE]
      BY <2>2 DEF Place
    <3> QED
      BY <2>0, <3>2, <3>5, <3>6, <3>7, NestedDelivery
  <2> QED
    BY <1>2, <2>1, <2>2, AttemptKinds
<1>3. ASSUME NEW t \in Injectors, InjectorUnlock(t)
      PROVE  NestQuiet /\ NestStays
  BY <1>0, <1>a, <1>3 DEF InjectorUnlock, NestStays
<1>4. CASE PitDeliver \/ CourierWake
  BY <1>0, <1>a, <1>4 DEF PitDeliver, PitDeliverLock, PitDeliverChoose, PitDeliverDevices, CourierWake, NestStays
<1>5. CASE V86DeliverTimerIrq
  <2>1. /\ Irq0CanDeliver.pic = pic /\ Irq0CanDeliver.net = net
        /\ Irq0CanDeliver.ok => VddPicCanDeliver(pic, Timer)
    BY NoTimeoutNested
  <2>2. \/ UNCHANGED <<pic, net, guest, event>>
        \/ /\ Delivered(Timer) /\ VddPicCanDeliver(pic, Timer)
           /\ pic' = VddPicAcknowledge(pic, Timer) /\ net' = [net EXCEPT !.expired = FALSE]
    BY <1>0, <1>5, <2>1 DEF V86DeliverTimerIrq, Delivered, ExecAt
  <2>3. CASE UNCHANGED <<pic, net, guest, event>>
    BY <1>0, <1>a, <2>3 DEF NestStays
  <2>4. CASE /\ Delivered(Timer) /\ VddPicCanDeliver(pic, Timer)
             /\ pic' = VddPicAcknowledge(pic, Timer) /\ net' = [net EXCEPT !.expired = FALSE]
    <3>1. IsFree(Timer)
      BY <1>0, <2>4, OpenIsFree
    <3>2. Pushed(Timer, Timer \notin session.hooked, FALSE) /\ UNCHANGED event
      BY <1>0, <2>4, InjectPushes DEF Delivered
    <3> QED
      BY <2>4, <3>1, <3>2, NestedDelivery
  <2> QED
    BY <2>2, <2>3, <2>4
<1>6. CASE V86DeliverKeyboardIrq
  <2>1. UNCHANGED <<pic, net, guest, event>>
    BY <1>0, <1>6 DEF V86DeliverKeyboardIrq, Plain
  <2> QED
    BY <1>0, <1>a, <2>1 DEF NestStays
<1>7. CASE V86DeliverDeviceIrq
  <2>1. \/ UNCHANGED <<pic, guest>>
        \/ Delivered(Device) /\ pic' = VddPicAcknowledge(pic, Device) /\ VddPicCanDeliver(pic, Device)
    BY <1>7 DEF V86DeliverDeviceIrq, Delivered, ExecAt
  <2>2. UNCHANGED <<net, event>>
    BY <1>7 DEF V86DeliverDeviceIrq
  <2>3. CASE UNCHANGED <<pic, guest>>
    BY <1>0, <1>a, <2>2, <2>3 DEF NestStays
  <2>4. CASE Delivered(Device) /\ pic' = VddPicAcknowledge(pic, Device) /\ VddPicCanDeliver(pic, Device)
    <3>1. IsFree(Device)
      BY <1>0, <2>4, OpenIsFree
    <3>2. Pushed(Device, Device \notin session.hooked, FALSE)
      BY <1>0, <2>4, InjectPushes DEF Delivered
    <3> QED
      BY <2>2, <2>4, <3>1, <3>2, NestedDelivery
  <2> QED
    BY <2>1, <2>3, <2>4
<1>8. CASE ServiceEoi
  BY <1>8, NestedEoi
<1>9. CASE LoopPumpSkip \/ LoopPumpUnlock \/ LoopEnterGuest \/ LoopLeaveGuest \/ ServiceDosCall \/ LoopLockStep
  BY <1>0, <1>a, <1>9 DEF LoopPumpSkip, LoopPumpUnlock, LoopEnterGuest, LoopLeaveGuest, ServiceDosCall,
               LoopLockStep, LoopPumpLock, ServiceIoLock, NestStays
<1>11. CASE ServiceIo
  BY <1>0, <1>11, PortAccess DEF NestStays, NestQuiet
<1>10. CASE GuestStep
  <2>1. CASE GuestIret
    <3>1. Popped /\ Top.ended /\ guest.frames # <<>> /\ UNCHANGED <<pic, net, event>>
      BY <1>0, <2>1, PopFrame DEF GuestIret, NestsByRank
    <3> QED
      BY <1>0, <1>a, <3>1 DEF NestReturn
  <2>2. CASE GuestSti \/ GuestToggleIf \/ GuestIo \/ GuestEoi \/ GuestReadKey \/ GuestBop
    <3>1. UNCHANGED <<pic, net>> /\ event' # "dos" /\ guest'.frames = guest.frames
      BY <1>0, <2>2 DEF GuestSti, GuestToggleIf, GuestIo, GuestEoi, GuestReadKey, GuestBop, GuestType
    <3> QED
      BY <1>0, <1>a, <3>1 DEF NestStays
  <2>3. ~ GuestDosCall /\ ~ HandlerStalls
    BY DEF GuestDosCall, HandlerStalls, NestsByRank
  <2> QED
    BY <1>10, <2>1, <2>2, <2>3 DEF GuestStep
<1> QED
  BY <1>1, <1>2, <1>3, <1>4, <1>5, <1>6, <1>7, <1>8, <1>9, <1>10, <1>11 DEF Next, InjectorStep, LoopStep

LEMMA NestedFramesStep ==
    ASSUME BasicType, NestedFrames, NestPlace \/ NestEnd \/ NestReturn \/ NestStays
    PROVE  NestedFrames'
<1> DEFINE n == Len(guest.frames)
           isr == pic["master"].Isr
<1> USE DEF Unended
<1>0. n \in Nat /\ (guest.frames # <<>> => n \in 1 .. n) /\ Timer # Device
  BY EmptySeq, LenProperties, LineFacts DEF BasicType, GuestType
<1>a. \A i \in 1 .. n :
         /\ guest.frames[i].line \in {Timer, Device}
         /\ Unended(i) => guest.frames[i].line \in isr
         /\ Unended(i) => \A j \in i + 1 .. n : guest.frames[i].line = Device /\ guest.frames[j].line = Timer
  BY DEF NestedFrames
<1>b. \A l \in isr : \E i \in 1 .. n : Unended(i) /\ guest.frames[i].line = l
  BY DEF NestedFrames
<1>1. CASE NestPlace
  <2>1. PICK irq \in {Timer, Device}, stub \in BOOLEAN :
           /\ IsFree(irq) /\ Pushed(irq, stub, FALSE)
           /\ pic'["master"].Isr = isr \cup {irq}
    BY <1>1 DEF NestPlace
  <2>2. /\ Len(guest'.frames) = n + 1
        /\ \A i \in 1 .. n : guest'.frames[i] = guest.frames[i]
        /\ guest'.frames[n + 1].line = irq /\ ~ guest'.frames[n + 1].ended
    BY <1>0, <2>1 DEF Pushed
(* An unfinished handler below is the device's, the new one the timer's.   *)
  <2>3. \A i \in 1 .. n : Unended(i) => guest.frames[i].line = Device /\ irq = Timer
    BY <1>a, <2>1 DEF IsFree
  <2>4. ASSUME NEW i \in 1 .. n + 1
        PROVE  /\ guest'.frames[i].line \in {Timer, Device}
               /\ ~ guest'.frames[i].ended => guest'.frames[i].line \in pic'["master"].Isr
               /\ ~ guest'.frames[i].ended =>
                     \A j \in i + 1 .. n + 1 : guest'.frames[i].line = Device /\ guest'.frames[j].line = Timer
    <3>1. CASE i = n + 1
      BY <1>0, <2>1, <2>2, <3>1
    <3>2. CASE i \in 1 .. n
      <4>1. /\ guest'.frames[i] = guest.frames[i] /\ guest.frames[i].line \in {Timer, Device}
            /\ Unended(i) => guest.frames[i].line \in isr /\ guest.frames[i].line = Device /\ irq = Timer
        BY <1>a, <2>2, <2>3, <3>2
      <4>2. ASSUME Unended(i), NEW j \in i + 1 .. n + 1
            PROVE  guest'.frames[j].line = Timer
        <5>1. CASE j = n + 1
          BY <2>2, <4>1, <4>2, <5>1
        <5>2. CASE j \in i + 1 .. n
          <6>1. j \in 1 .. n
            BY <1>0, <3>2, <5>2
          <6> QED
            BY <1>a, <2>2, <3>2, <4>2, <5>2, <6>1
        <5> QED
          BY <1>0, <3>2, <4>2, <5>1, <5>2
      <4> QED
        BY <2>1, <4>1, <4>2
    <3> QED
      BY <1>0, <3>1, <3>2
  <2>5. ASSUME NEW l \in pic'["master"].Isr
        PROVE  \E i \in 1 .. n + 1 : ~ guest'.frames[i].ended /\ guest'.frames[i].line = l
    <3>1. CASE l = irq
      BY <1>0, <2>2, <3>1
    <3>2. CASE l \in isr
      <4>1. PICK i \in 1 .. n : Unended(i) /\ guest.frames[i].line = l
        BY <1>b, <3>2
      <4> QED
        BY <1>0, <2>2, <4>1
    <3> QED
      BY <2>1, <3>1, <3>2
  <2> QED
    BY <2>2, <2>4, <2>5 DEF NestedFrames
<1>2. CASE NestEnd
  <2>1. /\ Len(guest'.frames) = n /\ n \in 1 .. n /\ ~ guest.frames[n].ended
        /\ \A i \in 1 .. n : /\ guest'.frames[i].line = guest.frames[i].line
                             /\ ~ guest'.frames[i].ended <=> i # n /\ Unended(i)
        /\ pic'["master"].Isr = isr \ {guest.frames[n].line}
    BY <1>0, <1>2 DEF NestEnd, TopEnded, Top
  <2>2. ASSUME NEW i \in 1 .. n, i # n, Unended(i)
        PROVE  guest.frames[i].line # guest.frames[n].line
    <3>1. n \in i + 1 .. n
      BY <1>0, <2>2
    <3> QED
      BY <1>0, <1>a, <2>2, <3>1
  <2>3. ASSUME NEW i \in 1 .. n
        PROVE  /\ guest'.frames[i].line \in {Timer, Device}
               /\ ~ guest'.frames[i].ended => guest'.frames[i].line \in pic'["master"].Isr
               /\ ~ guest'.frames[i].ended =>
                     \A j \in i + 1 .. n : guest'.frames[i].line = Device /\ guest'.frames[j].line = Timer
    <3>1. \A j \in i + 1 .. n : j \in 1 .. n
      BY <1>0
    <3> QED
      BY <1>a, <2>1, <2>2, <3>1
  <2>4. ASSUME NEW l \in pic'["master"].Isr
        PROVE  \E i \in 1 .. n : ~ guest'.frames[i].ended /\ guest'.frames[i].line = l
    <3>1. PICK i \in 1 .. n : Unended(i) /\ guest.frames[i].line = l
      BY <1>b, <2>1
    <3> QED
      BY <2>1, <3>1
  <2> QED
    BY <2>1, <2>3, <2>4 DEF NestedFrames
<1>3. CASE NestReturn
  <2>1. /\ Len(guest'.frames) = n - 1 /\ n \in 1 .. n /\ guest.frames[n].ended
        /\ \A i \in 1 .. n - 1 : guest'.frames[i] = guest.frames[i]
        /\ pic'["master"].Isr = isr
    BY <1>0, <1>3 DEF NestReturn, Popped, Top
  <2>2. \A i \in 1 .. n : Unended(i) => i \in 1 .. n - 1
    BY <1>0, <2>1
  <2>3. ASSUME NEW i \in 1 .. n - 1
        PROVE  /\ guest'.frames[i].line \in {Timer, Device}
               /\ ~ guest'.frames[i].ended => guest'.frames[i].line \in pic'["master"].Isr
               /\ ~ guest'.frames[i].ended =>
                     \A j \in i + 1 .. n - 1 : guest'.frames[i].line = Device /\ guest'.frames[j].line = Timer
    <3>1. i \in 1 .. n /\ \A j \in i + 1 .. n - 1 : j \in i + 1 .. n /\ j \in 1 .. n - 1
      BY <1>0
    <3> QED
      BY <1>a, <2>1, <3>1
  <2>4. ASSUME NEW l \in pic'["master"].Isr
        PROVE  \E i \in 1 .. n - 1 : ~ guest'.frames[i].ended /\ guest'.frames[i].line = l
    <3>1. PICK i \in 1 .. n : Unended(i) /\ guest.frames[i].line = l
      BY <1>b, <2>1
    <3> QED
      BY <2>1, <2>2, <3>1
  <2> QED
    BY <2>1, <2>3, <2>4 DEF NestedFrames
<1>4. CASE NestStays
  BY <1>4 DEF NestStays, NestedFrames
<1> QED
  BY <1>1, <1>2, <1>3, <1>4

(* Whoever holds g_Lock keeps every service out, so no line leaves         *)
(* service and, once it has seen the guest running, nothing it asked about *)
(* changes.                                                                *)
LEMMA InsideHolds ==
    ASSUME BasicType, ThreadsInv, LockInv, FramesInv, EoiInv, NestsByRank(session), NestInv, Next,
           inj["pacer"].pc # "idle" \/ inj["device"].pc # "idle"
    PROVE  /\ pic["master"].Isr \subseteq pic'["master"].Isr
           /\ LoopStep \/ LoopLockStep \/ GuestStep =>
                 (IsInside => IsInside' /\ UNCHANGED <<pic, pending0, pending1, pendingN, owed, due>>)
<1>0. lock \in {"pacer", "device"} /\ lock # NoThread /\ lock # ExecThread /\ exec \notin {"pumping", "servicing"}
  BY DEF LockInv, NoThread, ExecThread
<1>1. pic["master"].Isr \subseteq pic'["master"].Isr
  <2>1. NestPlace \/ NestEnd \/ NestReturn \/ NestStays
    BY NestMoves
  <2> QED
    BY <1>0, <2>1 DEF NestPlace, NestEnd, NestReturn, NestStays
<1> SUFFICES ASSUME LoopStep \/ LoopLockStep \/ GuestStep, IsInside
             PROVE  IsInside' /\ UNCHANGED <<pic, pending0, pending1, pendingN, owed, due>>
  BY <1>1
<1> USE DEF IsInside
<1>2. CASE LoopStep
  <2>1. CASE LoopEnterGuest \/ LoopLeaveGuest
    BY <2>1 DEF LoopEnterGuest, LoopLeaveGuest, latches
  <2>2. ~ (LoopEnterGuest \/ LoopLeaveGuest) => FALSE
    BY <1>0, <1>2 DEF LoopStep, LoopPumpSkip, LoopPumpUnlock, V86DeliverTimerIrq, V86DeliverKeyboardIrq,
           V86DeliverDeviceIrq, ServiceDosCall, ServiceEoi, ServiceIo, ExecAt, NestInv
  <2> QED
    BY <2>1, <2>2
<1>3. CASE LoopLockStep
  BY <1>0, <1>3 DEF LoopLockStep, LoopPumpLock, ServiceIoLock
<1>4. CASE GuestStep
  BY <1>4 DEF GuestStep, GuestSti, GuestToggleIf, GuestDosCall, GuestIo, GuestEoi, GuestReadKey, GuestBop,
              GuestIret, HandlerStalls, ExecAt, latches
<1> QED
  BY <1>2, <1>3, <1>4

(* What the exec loop takes off a latch it has put in service.             *)
LEMMA NestedLatches ==
    ASSUME BasicType, NestInv, LoopStep \/ LoopLockStep \/ GuestStep
    PROVE  \/ UNCHANGED <<pending0, pending1, pendingN, owed, due>>
           \/ Discarded
           \/ /\ exec = "timer" /\ pending0 # 0 /\ pending0' = pending0 - 1 /\ owed' = owed - 1
              /\ Timer \in pic'["master"].Isr
              /\ UNCHANGED <<pending1, pendingN, due>>
           \/ /\ exec = "device" /\ ~ pendingN' /\ ~ due'
              /\ Device \notin session.hooked \/ Device \in pic'["master"].Isr
              /\ UNCHANGED <<pending0, pending1, owed>>
<1>0. /\ pic \in PairType /\ Plain(pic["master"]) /\ ~ pic["master"].IsAutoEoi /\ ~ net.autoEoi
      /\ Timer \in Lines /\ Device \in Lines /\ pendingN \in BOOLEAN /\ due \in BOOLEAN
  BY LineFacts DEF BasicType, NestInv, Plain
<1>a. \A irq \in {Timer, Device} : irq \in VddPicAcknowledge(pic, irq)["master"].Isr
  BY <1>0, MasterLine
<1>1. CASE V86DeliverTimerIrq
  <2>1. Irq0CanDeliver.net = net /\ Irq0CanDeliver.pic = pic
    BY NoTimeoutNested
  <2> QED
    BY <1>0, <1>1, <1>a, <2>1 DEF V86DeliverTimerIrq, ExecAt
<1>2. CASE V86DeliverKeyboardIrq
  BY <1>0, <1>2 DEF V86DeliverKeyboardIrq, Plain
<1>3. CASE V86DeliverDeviceIrq
  <2> DEFINE isDropped == pendingN /\ GuestIfEnabled /\ ~ AtBop /\ Device \notin session.hooked
             isDelivered == /\ pendingN /\ GuestIfEnabled /\ ~ AtBop
                            /\ Device \in session.hooked /\ VddPicCanDeliver(pic, Device)
  <2>1. /\ exec = "device"
        /\ pendingN' = (pendingN /\ ~ isDropped /\ ~ isDelivered)
        /\ due' = (due /\ ~ isDropped /\ ~ isDelivered)
        /\ isDelivered => pic' = VddPicAcknowledge(pic, Device)
        /\ UNCHANGED <<pending0, pending1, owed>>
    BY <1>3, Zenon DEF V86DeliverDeviceIrq, ExecAt
  <2>2. isDropped => Device \notin session.hooked
    OBVIOUS
  <2> HIDE DEF isDropped, isDelivered
  <2>3. CASE isDropped \/ isDelivered
    <3>1. ~ pendingN' /\ ~ due'
      BY <2>1, <2>3, Zenon
    <3> QED
      BY <1>a, <2>1, <2>2, <2>3, <3>1
  <2>4. CASE ~ isDropped /\ ~ isDelivered
    <3>1. UNCHANGED <<pendingN, due>>
      BY <1>0, <2>1, <2>4
    <3> QED
      BY <2>1, <3>1
  <2> QED
    BY <2>3, <2>4
<1>4. CASE LoopPumpSkip \/ LoopPumpUnlock \/ LoopEnterGuest \/ LoopLeaveGuest \/ ServiceDosCall \/ ServiceEoi
  BY <1>4 DEF LoopPumpSkip, LoopPumpUnlock, LoopEnterGuest, LoopLeaveGuest, ServiceDosCall, ServiceEoi, latches
<1>6. CASE ServiceIo
  BY <1>6, PortAccess DEF BasicType
<1>5. CASE LoopLockStep \/ GuestStep
  BY <1>5 DEF LoopLockStep, LoopPumpLock, ServiceIoLock, GuestStep, GuestSti, GuestToggleIf, GuestDosCall,
              GuestIo, GuestEoi, GuestReadKey, GuestBop, GuestIret, HandlerStalls, latches
<1> QED
  BY <1>1, <1>2, <1>3, <1>4, <1>5, <1>6 DEF LoopStep

LEMMA NestedAttemptStep ==
    ASSUME BasicType, ThreadsInv, LockInv, LatchInv, FramesInv, EoiInv, NestsByRank(session), NestInv, Next
    PROVE  NestedAttempt("pacer")' /\ NestedAttempt("device")' /\ ExactInv'
<1>a. /\ inj["pacer"].pc = "idle" \/ inj["device"].pc = "idle"
      /\ lock = NoThread => inj["pacer"].pc = "idle" /\ inj["device"].pc = "idle"
      /\ ~ session.courier /\ inj["courier"].pc \notin Attempt
      /\ pending0 = owed + PlacedTick("pacer")
  <2>1. ~ session.courier
    BY DEF NestsByRank
  <2>2. pending0 = owed + PlacedTick("pacer") + PlacedTick("courier") /\ PlacedTick("pacer") \in {0, 1}
    BY DEF LatchInv, TickLatchInv, PlacedTick
  <2> QED
    BY <2>1, <2>2, OneAttempt DEF BasicType
<1>b. TickRaise => pic'["master"].Isr = pic["master"].Isr
  <2>1. ~ pic["master"].IsAutoEoi /\ pic \in PairType /\ Timer \in Lines
    BY LineFacts DEF BasicType, NestInv, Plain
  <2> QED
    BY <2>1, MasterLine DEF TickRaise
<1> USE LineFacts DEF NestedAttempt, ExactInv, PlacedDevice, IsFree, Attempt, Trying, Placed
<1>0. /\ InjType /\ "pacer" \in Injectors /\ "device" \in Injectors /\ "courier" \in Injectors
      /\ \A t \in Injectors : t \in {"pacer", "device", "courier"}
      /\ pending0 \in Int /\ pending1 \in Int /\ owed \in Int /\ pendingN \in BOOLEAN /\ due \in BOOLEAN
      /\ pic \in PairType /\ session' = session
      /\ NestedAttempt("pacer") /\ NestedAttempt("device") /\ ExactInv
  BY SessionKept DEF BasicType, Injectors, NestInv
<1>1. CASE TickRaise
  <2>1. pic'["master"].Isr = pic["master"].Isr
    BY <1>1, <1>b
  <2>2. pending0' >= pending0 /\ owed' >= owed /\ UNCHANGED <<pending1, pendingN, due, inj, exec>>
    BY <1>0, <1>1 DEF TickRaise
  <2>3. (pending0 > 0 => pending0' > 0) /\ owed' >= 0
    BY <1>0, <1>1, <1>a DEF TickRaise
  <2> QED
    BY <1>0, <2>1, <2>2, <2>3 DEF IsInside
<1>2. CASE KeyRaise
  BY <1>0, <1>2, <1>a DEF KeyRaise
<1>3. CASE DeviceRaise
  <2>1. /\ inj'["pacer"] = inj["pacer"] /\ inj'["courier"] = inj["courier"]
        /\ inj'["device"] = [pc |-> "check", irq |-> Device]
    BY <1>0, <1>3 DEF DeviceRaise, InjType
  <2> QED
    BY <1>0, <1>a, <1>3, <2>1 DEF DeviceRaise
<1>4. ASSUME NEW t \in Injectors, AsyncInjectIrq(t)
      PROVE  NestedAttempt("pacer")' /\ NestedAttempt("device")' /\ ExactInv'
  <2>0. /\ \A u \in Injectors : u # t => inj'[u] = inj[u]
        /\ inj[t].pc \in Attempt /\ exec' = exec
    BY <1>0, <1>4, AttemptMoves
  <2>a. /\ t \in {"pacer", "device"} /\ inj[t].irq \in {Timer, Keyboard, Device}
        /\ \A u \in Injectors : u # t => inj[u].pc \notin Attempt /\ inj'[u].pc \notin Attempt
    BY <1>0, <1>a, <2>0 DEF ThreadsInv
  <2>b. \A u \in {"pacer", "device"} : u # t => NestedAttempt(u)'
    BY <1>0, <2>a
  <2>c. /\ PlacedDevice <=> inj[t].pc \in Placed /\ inj[t].irq = Device
        /\ PlacedDevice' <=> inj'[t].pc \in Placed /\ inj'[t].irq = Device
    BY <1>0, <2>a
  <2>d. NestedAttempt(t)
    BY <1>0, <2>a
  <2>e. NestedAttempt(t)' /\ ExactInv' => NestedAttempt("pacer")' /\ NestedAttempt("device")' /\ ExactInv'
    BY <2>b, <2>a
  <2>1. CASE Refused(t)
    <3>1. UNCHANGED <<pic, latches>>
      BY <2>1, NoTimeoutNested DEF Refused, OnlyAsked
    <3>2. /\ inj'[t].pc \notin Attempt \/ (inj'[t].pc = "check" /\ inj'[t].irq = Timer)
          /\ inj'[t].pc = "check" => inj[t].irq = Keyboard /\ inj[t].pc = "check"
      BY <2>1, <2>a, <2>d DEF Refused, IsOver
    <3>3. NestedAttempt(t)'
      BY <2>d, <3>1, <3>2 DEF latches
    <3>4. ExactInv'
      BY <1>0, <2>1, <2>c, <3>1, <3>2 DEF latches, Refused
    <3> QED
      BY <2>e, <3>3, <3>4
  <2>2. CASE Further(t)
    <3>1. UNCHANGED <<pic, latches>>
      BY <2>2, NoTimeoutNested DEF Further, OnlyAsked
    <3>2. /\ IsInside /\ inj[t].irq # Keyboard /\ IsFree(inj[t].irq)
          /\ inj[t].irq = Timer => pending0 > 0
          /\ inj[t].irq = Device => pendingN /\ due
      <4>1. CASE inj[t].pc = "check"
        <5>1. CanDeliver(inj[t].irq).ok /\ (inj[t].irq = Device => Device \in session.hooked) /\ inExec
          BY <2>2, <4>1 DEF Further
        <5>2. inj[t].irq # Keyboard /\ IsFree(inj[t].irq)
          BY <2>a, <5>1, CanDeliverFree
        <5>3. IsInside
          BY <5>1 DEF LockInv, IsInside
        <5> QED
          BY <2>d, <4>1, <5>1, <5>2, <5>3
      <4>2. CASE inj[t].pc # "check"
        BY <2>2, <2>d, <4>2 DEF Further
      <4> QED
        BY <4>1, <4>2
    <3>3. NestedAttempt(t)'
      BY <2>0, <2>2, <3>1, <3>2 DEF Further, latches, IsInside
    <3>4. ExactInv'
      BY <1>0, <2>2, <2>c, <3>1 DEF latches, Further
    <3> QED
      BY <2>e, <3>3, <3>4
  <2>3. CASE Place(t)
    <3>1. /\ IsInside /\ inj[t].irq # Keyboard
          /\ inj[t].irq = Timer => pending0 > 0
          /\ inj[t].irq = Device => pendingN /\ due
      BY <2>3, <2>d DEF Place
    <3>2. NestedAttempt(t)'
      BY <2>0, <2>3, <3>1 DEF Place, IsInside
    <3>3. owed' >= 0
      <4>1. inj[t].irq = Timer => t = "pacer" /\ PlacedTick("pacer") = 0
        BY <2>3, <2>a DEF Place, ThreadsInv, PlacedTick
      <4> QED
        BY <1>0, <1>a, <2>3, <3>1, <4>1 DEF Place
    <3>4. pendingN' <=> due' \/ PlacedDevice'
      BY <1>0, <2>3, <2>c, <3>1 DEF Place
    <3> HIDE DEF PlacedDevice
    <3>5. ExactInv'
      BY <1>0, <2>3, <3>3, <3>4 DEF Place
    <3> QED
      BY <2>e, <3>2, <3>5
  <2>4. CASE Released(t)
    <3>1. NestedAttempt(t)'
      BY <2>0, <2>4, <2>d DEF Released, latches, IsInside
    <3>2. ExactInv'
      BY <1>0, <2>4, <2>c DEF Released, latches
    <3> QED
      BY <2>e, <3>1, <3>2
  <2>5. CASE Accounted(t)
    <3>1. inj'[t].pc \notin Attempt
      BY <2>5, <2>a DEF Accounted, IsOver
    <3>2. inj[t].irq # Keyboard /\ (inj[t].irq = Device => pendingN /\ ~ due)
      BY <2>5, <2>d DEF Accounted
    <3>3. ExactInv'
      BY <1>0, <2>5, <2>c, <3>1, <3>2 DEF Accounted
    <3> QED
      BY <2>e, <3>1, <3>3
  <2> QED
    BY <1>4, <2>1, <2>2, <2>3, <2>4, <2>5, AttemptKinds
<1>5. ASSUME NEW t \in Injectors, InjectorUnlock(t)
      PROVE  NestedAttempt("pacer")' /\ NestedAttempt("device")' /\ ExactInv'
  BY <1>0, <1>5 DEF InjectorUnlock, InjType, latches, IsInside
<1>6. CASE PitDeliverLock
  BY <1>0, <1>6 DEF PitDeliverLock, InjType, latches, IsInside
<1>7. CASE PitDeliverChoose
  BY <1>0, <1>7 DEF PitDeliverChoose, InjType, latches, IsInside
<1>8. CASE PitDeliverDevices
  BY <1>0, <1>a, <1>8 DEF PitDeliverDevices, InjType, latches, IsInside
<1>9. CASE CourierWake
  BY <1>9, <1>a DEF CourierWake
<1>10. CASE LoopStep \/ LoopLockStep \/ GuestStep
  <2>0. UNCHANGED inj /\ (PlacedDevice' <=> PlacedDevice)
    BY <1>10, ExecSteppers
  <2>3. CASE Discarded
    <3>1. /\ inj["pacer"].pc = "idle" /\ inj["device"].pc = "idle"
          /\ owed' = owed - pending0 /\ UNCHANGED <<pending1, pendingN, due>>
      BY <2>3 DEF Discarded, LockInv, ExecThread
    <3>2. ~ PlacedDevice /\ PlacedTick("pacer") = 0
      BY <1>0, <1>a, <3>1 DEF PlacedTick
    <3> HIDE DEF PlacedDevice
    <3>3. NestedAttempt("pacer")' /\ NestedAttempt("device")'
      BY <2>0, <3>1
    <3>4. owed' = 0
      BY <1>0, <1>a, <3>1, <3>2
    <3>5. ExactInv'
      BY <1>0, <2>0, <3>1, <3>2, <3>4
    <3> QED
      BY <3>3, <3>5
  <2>1. CASE ~ Discarded /\ inj["pacer"].pc = "idle" /\ inj["device"].pc = "idle"
    <3>1. ~ PlacedDevice /\ PlacedTick("pacer") = 0
      BY <1>0, <1>a, <2>1 DEF PlacedTick
    <3>2. NestedAttempt("pacer")' /\ NestedAttempt("device")'
      BY <2>0, <2>1
    <3> HIDE DEF PlacedDevice
    <3>3. ExactInv'
      BY <1>0, <1>10, <1>a, <2>0, <2>1, <3>1, NestedLatches DEF NestInv
    <3> QED
      BY <3>2, <3>3
  <2>2. CASE ~ Discarded /\ (inj["pacer"].pc # "idle" \/ inj["device"].pc # "idle")
    <3>1. pic["master"].Isr \subseteq pic'["master"].Isr
      BY <2>2, InsideHolds
    <3>2. IsInside => IsInside' /\ UNCHANGED <<pic, pending0, pending1, pendingN, owed, due>>
      BY <1>10, <2>2, InsideHolds
    <3>3. CASE IsInside
      BY <1>0, <2>0, <3>2, <3>3
    <3>4. CASE ~ IsInside
(* Then no attempt is past its first test.                                 *)
      <4>1. /\ \A t \in {"pacer", "device"} : inj[t].pc \notin Attempt \/ inj[t].pc = "check"
            /\ ~ PlacedDevice /\ PlacedTick("pacer") = 0
        BY <1>0, <1>a, <3>4 DEF PlacedTick
      <4> HIDE DEF PlacedDevice
      <4>2. ExactInv'
        BY <1>0, <1>10, <1>a, <2>0, <2>2, <4>1, NestedLatches DEF NestInv
      <4>3. ASSUME NEW t \in {"pacer", "device"}
            PROVE  NestedAttempt(t)'
        BY <1>0, <1>10, <2>0, <2>2, <3>1, <4>1, <4>3, NestedLatches
      <4> QED
        BY <4>2, <4>3
    <3> QED
      BY <3>3, <3>4
  <2> QED
    BY <2>1, <2>2, <2>3
<1> QED
  BY <1>1, <1>2, <1>3, <1>4, <1>5, <1>6, <1>7, <1>8, <1>9, <1>10 DEF Next, InjectorStep, Raise, PitDeliver

-----------------------------------------------------------------------------
(* The theorems.                                                           *)

LEMMA IrqInit ==
    ASSUME Init
    PROVE  IrqInv
<1>1. ControlInv
  BY ControlInit
<1>2. /\ Len(guest.frames) = 0
      /\ \A t \in Injectors : inj[t].pc = "idle"
      /\ owed = 0 /\ pending1 = 0 /\ ~ pendingN /\ ~ due
      /\ ~ net.expired /\ ~ net.autoEoi /\ net.timeouts = 0
  BY EmptySeq DEF Init
<1>3. StackInv
  BY <1>2 DEF StackInv
<1>4. AttemptInv /\ ExactInv
  BY <1>2 DEF AttemptInv, ExactInv, PlacedDevice, Injectors, Trying, Placed
<1>5. /\ pic["master"].Isr = {} /\ pic["master"].Imr = Lines \ session.unmasked
      /\ ~ pic["master"].IsAutoEoi /\ ~ pic["master"].IsSpecialMaskMode
      /\ ~ pic["master"].IsSpecialFullyNested /\ pic["master"].LowestPriority = FixedLowest
  BY DEF Init, VddPicReset, PicChipReset, Chips
<1>6. ServiceInv
  BY <1>2, <1>5 DEF ServiceInv
<1>7. NestsByRank(session) => NestInv
  <2> SUFFICES ASSUME NestsByRank(session)
               PROVE  NestInv
    OBVIOUS
  <2>1. Plain(pic["master"])
    BY <1>5, LineFacts DEF Plain, NestsByRank
  <2>2. event # "dos"
    BY DEF Init
  <2>3. NestedFrames
    BY <1>2, <1>5 DEF NestedFrames
  <2>4. NestedAttempt("pacer") /\ NestedAttempt("device")
    BY <1>2 DEF NestedAttempt, Injectors, Trying, Placed
  <2> QED
    BY <1>2, <1>4, <2>1, <2>2, <2>3, <2>4 DEF NestInv
<1> QED
  BY <1>1, <1>3, <1>4, <1>6, <1>7 DEF IrqInv, QuietInv

LEMMA IrqStep ==
    ASSUME IrqInv, [Next]_vars
    PROVE  IrqInv'
<1>1. ControlInv'
  BY ControlStep DEF IrqInv
<1>2. CASE Next
  <2>1. session' = session /\ BasicType /\ ThreadsInv /\ LockInv /\ ContextInv /\ LatchInv /\ FramesInv /\ EoiInv
    BY <1>2, SessionKept DEF IrqInv, ControlInv
  <2>2. KeepsInterruptsOff(session) => QuietInv'
    BY <1>2, <2>1, StackStep, QuietStep DEF IrqInv, QuietInv
  <2>3. KeepsInterruptsOff(session) /\ ~ session.stalls => ServiceInv'
    BY <1>2, ServiceStep DEF IrqInv, QuietInv
  <2>4. NestsByRank(session) => NestInv'
    <3> SUFFICES ASSUME NestsByRank(session)
                 PROVE  NestInv'
      OBVIOUS
    <3>1. NestInv
      BY DEF IrqInv
    <3>2. NestQuiet /\ (NestPlace \/ NestEnd \/ NestReturn \/ NestStays)
      BY <1>2, <2>1, <3>1, NestMoves
    <3>3. NestedFrames'
      BY <2>1, <3>1, <3>2, NestedFramesStep DEF NestInv
    <3>4. NestedAttempt("pacer")' /\ NestedAttempt("device")' /\ ExactInv'
      BY <1>2, <2>1, <3>1, NestedAttemptStep
    <3> QED
      BY <3>2, <3>3, <3>4 DEF NestInv, NestQuiet
  <2> QED
    BY <1>1, <2>1, <2>2, <2>3, <2>4 DEF IrqInv
<1>3. CASE UNCHANGED vars
  <2> USE <1>3 DEF vars
  <2>1. QuietInv => QuietInv'
    BY DEF QuietInv, StackInv, AttemptInv, ExactInv, PlacedDevice, HasUnended, Unended
  <2>2. ServiceInv => ServiceInv'
    BY DEF ServiceInv, Unended
  <2>3. NestInv => NestInv'
    BY DEF NestInv, NestedFrames, Unended, ExactInv, PlacedDevice, NestedAttempt, IsInside, IsFree
  <2> QED
    BY <1>1, <2>1, <2>2, <2>3 DEF IrqInv
<1> QED
  BY <1>2, <1>3

(* The inductive invariant: ControlInv always, the rest in the kinds of    *)
(* session it is stated for.                                               *)
THEOREM DeliveryCorrect == Spec => []IrqInv
<1> QED
  BY IrqInit, IrqStep, PTL DEF Spec

LEMMA PlacedTicks ==
    ASSUME BasicType, ThreadsInv, PlacedTick("courier") = 0
    PROVE  Cardinality(Accounting(Timer)) = PlacedTick("pacer")
<1>1. inj["device"].pc \in Placed => inj["device"].irq # Timer
  BY LineFacts DEF ThreadsInv, Attempt
<1>2. Accounting(Timer) = IF PlacedTick("pacer") = 1 THEN {"pacer"} ELSE {}
  BY <1>1 DEF Accounting, PlacedTick, Injectors, Placed
<1> QED
  BY <1>2, FS_EmptySet, FS_Singleton DEF PlacedTick

(* The sessions the latches and the handlers' entry are exact in.          *)
LEMMA ExactLatches ==
    ASSUME IrqInv, KeepsInterruptsOff(session) \/ NestsByRank(session)
    PROVE  TickLatchExact /\ DeviceLatchExact /\ KeyLatchSound
<1>1. BasicType /\ ThreadsInv /\ LockInv /\ TickLatchInv /\ ExactInv
  BY DEF IrqInv, ControlInv, LatchInv, QuietInv, NestInv
<1>2. ~ session.courier => PlacedTick("courier") = 0
  BY <1>1, OneAttempt
<1>3. ~ session.courier => pending0 = owed + PlacedTick("pacer")
  BY <1>1, <1>2 DEF BasicType, TickLatchInv, PlacedTick
<1>4. TickLatchExact
  BY <1>1, <1>2, <1>3, PlacedTicks DEF TickLatchExact, ExactInv
<1>5. PlacedDevice <=> Accounting(Device) # {}
  BY DEF PlacedDevice, Accounting, Placed
<1> QED
  BY <1>1, <1>4, <1>5 DEF ExactInv, DeviceLatchExact, KeyLatchSound

(* In a guest whose handlers keep interrupts off until their EOI, or that  *)
(* leaves the order of its handlers to the PIC: no tick is delivered       *)
(* twice, and none is lost but those that a reload of counter 0 inside the *)
(* timer handler found in the latch and discards, though the asynchronous  *)
(* path takes a tick off its latch only after it has resumed the guest,    *)
(* when the exec loop may already have looked at the latch.                *)
THEOREM TicksExact == Spec => [](KeepsInterruptsOff(session) \/ NestsByRank(session) => TickLatchExact)
  BY DeliveryCorrect, ExactLatches, PTL

(* In such a guest, and with the courier on where interrupts are kept off, *)
(* the late clearing of g_IrqNPending never wipes out an interrupt raised  *)
(* after the one delivered.                                                *)
THEOREM DevicesExact == Spec => [](KeepsInterruptsOff(session) \/ NestsByRank(session) => DeviceLatchExact)
  BY DeliveryCorrect, ExactLatches, PTL

(* In such a guest the pacer and the exec loop never both take the one     *)
(* scancode off its latch.                                                 *)
THEOREM KeysSound == Spec => [](KeepsInterruptsOff(session) \/ NestsByRank(session) => KeyLatchSound)
  BY DeliveryCorrect, ExactLatches, PTL

LEMMA EnteredOnce ==
    ASSUME IrqInv, KeepsInterruptsOff(session) \/ NestsByRank(session)
    PROVE  NotReentered
<1> SUFFICES ASSUME NEW line \in {Timer, Keyboard, Device}, Reentered(line)
             PROVE  FALSE
  BY DEF NotReentered
<1>1. PICK i, j \in 1 .. Len(guest.frames) :
         i < j /\ guest.frames[i].line = line /\ guest.frames[j].line = line /\ ~ guest.frames[i].ended
  BY DEF Reentered
<1>2. Len(guest.frames) \in Nat
  BY LenProperties DEF IrqInv, ControlInv, BasicType, GuestType
<1>3. j \in i + 1 .. Len(guest.frames)
  BY <1>1, <1>2
<1>4. CASE KeepsInterruptsOff(session)
  <2>1. guest.frames[j].line = NoLine
    BY <1>1, <1>3, <1>4 DEF IrqInv, QuietInv, StackInv, Unended
  <2> QED
    BY <1>1, <2>1, LineFacts
<1>5. CASE NestsByRank(session)
  <2>1. guest.frames[i].line = Device /\ guest.frames[j].line = Timer
    BY <1>1, <1>3, <1>5 DEF IrqInv, NestInv, NestedFrames, Unended
  <2> QED
    BY <1>1, <2>1, LineFacts
<1> QED
  BY <1>4, <1>5

(* In such a guest no handler is entered again, by either path, before its *)
(* EOI.                                                                    *)
THEOREM NeverReentered == Spec => [](KeepsInterruptsOff(session) \/ NestsByRank(session) => NotReentered)
  BY DeliveryCorrect, EnteredOnce, PTL

LEMMA EoiOfTop ==
    ASSUME IrqInv, (KeepsInterruptsOff(session) /\ ~ session.stalls) \/ NestsByRank(session)
    PROVE  EoiEndsOwnLine
<1>1. BasicType /\ FramesInv /\ EoiInv
  BY DEF IrqInv, ControlInv
<1>2. CASE KeepsInterruptsOff(session) /\ ~ session.stalls
  BY <1>1, <1>2, OwnLine DEF IrqInv, QuietInv
<1>3. CASE NestsByRank(session)
  BY <1>1, <1>3, NestedTop DEF IrqInv, NestInv, EoiInv, EoiEndsOwnLine
<1> QED
  BY <1>2, <1>3

(* In such a guest, when no handler is held past the timeout, a handler's  *)
(* non-specific EOI ends its own line, whichever path delivered it and     *)
(* whatever it interrupted.                                                *)
THEOREM EoiEndsOwn ==
    Spec => []((KeepsInterruptsOff(session) /\ ~ session.stalls) \/ NestsByRank(session) => EoiEndsOwnLine)
  BY DeliveryCorrect, EoiOfTop, PTL
=============================================================================
