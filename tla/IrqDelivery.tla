---------------------------- MODULE IrqDelivery ----------------------------
(***************************************************************************)
(* How an interrupt reaches the guest of a real-mode session.  The guest   *)
(* runs on one thread (the exec loop of host_exec.c).  An interrupt is     *)
(* delivered either cooperatively, by that thread between two stretches of *)
(* guest code, or asynchronously: the pacer, a device's own thread or the  *)
(* tick courier suspends the thread and rewrites its context               *)
(* (AsyncInjectIrq in host_irq.c).  The two paths share the PIC, the       *)
(* pending latches, g_Lock, g_InExec and g_AsyncContextWrite.              *)
(***************************************************************************)
EXTENDS PicChip, Sequences

CONSTANTS
    Device,             \* a device line (the Sound Blaster's IRQ 5)
    IrqPendingMax,      \* IRQ0_PENDING_MAX
    KeyIrqMaxYield,     \* KEYIRQ_MAX_YIELD
    IsrTimeoutsMax,     \* IRQ0_ISR_TIMEOUTS_MAX
    Sessions,           \* the sessions considered: see Session
    TickDebtMax         \* bound: how far below zero the tick latch is followed

Timer == 0

Keyboard == 1

(* What a session is fixed to: the tick courier runs (g_CourierOn); the    *)
(* lines the guest leaves unmasked, those whose vector is its own handler, *)
(* and of these the handlers that execute STI before their EOI; what ends  *)
(* a stretch of guest code besides a handler's own accesses; whether its   *)
(* timer handler sends an EOI; whether a handler may stay in service past  *)
(* IRQ0_ISR_TIMEOUT_MS; and, a bound, the stack depth from which on it     *)
(* makes no DOS call and executes no STI.                                  *)
Session ==
    LET lines == SUBSET {Timer, Keyboard, Device}
    IN  [courier : BOOLEAN, unmasked : lines, hooked : lines, stiBeforeEoi : lines,
         traps : SUBSET {"dos", "io"}, eoisTimer : BOOLEAN, stalls : BOOLEAN, maxFrames : Nat]

ASSUME DeliveryAssumption ==
    /\ Device \in Lines \ {Timer, Keyboard, CascadeLine}
    /\ IrqPendingMax \in Nat \ {0} /\ KeyIrqMaxYield \in Nat /\ IsrTimeoutsMax \in Nat \ {0}
    /\ Sessions \subseteq Session /\ TickDebtMax \in Nat

VARIABLES
    session,    \* which session this is; never changes
    pic,        \* g_Pic
    pending0,   \* g_Irq0Pending, the tick latch
    pending1,   \* g_Irq1Pending
    keyUp,      \* IsScanCodeIrqUp: a scancode is presented and not yet read
    pendingN,   \* g_IrqNPending of Device
    net,        \* [timeouts, autoEoi, expired]: g_Irq0IsrTimeouts, g_Irq0AutoEoi and
                \*   whether g_Irq0IsrSince is more than IRQ0_ISR_TIMEOUT_MS ago
    yielded,    \* g_Irq0Yielded
    lock,       \* owner of g_Lock
    ctxWrite,   \* g_AsyncContextWrite
    inExec,     \* g_InExec
    suspended,  \* the exec thread is stopped by SuspendThread
    exec,       \* where the exec thread is in HostRunExecLoop
    event,      \* the event that ended the last stretch of guest code
    inj,        \* each injecting thread's place in its delivery attempt
    guest,      \* [frames, vif]: the guest's interrupt stack and interrupt flag
    owed,       \* history: ticks latched, and neither delivered nor discarded yet
    due         \* history: the device has raised and not yet been delivered

latches == <<pending0, pending1, pendingN, keyUp, owed, due>>

vars == <<session, pic, pending0, pending1, pendingN, keyUp, net, yielded, lock, ctxWrite, inExec,
          suspended, exec, event, inj, guest, owed, due>>

NoThread == "none"

ExecThread == "exec"

(* The threads that inject: the pacer (HostPitDeliver), the device's own   *)
(* (HostIrqSink) and the courier, if the session has one.                  *)
Injectors == {"pacer", "device", "courier"}

InjectorSteps == {"idle", "choose", "check", "claim", "suspend", "inspect", "resume", "account",
                  "devices", "unlock"}

ExecSteps == {"pump", "pumping", "timer", "keyboard", "device", "entering", "guest", "leaving",
              "service", "servicing"}

(* A frame of the guest's stack: which line's handler runs in it (NoLine   *)
(* for a DOS call), whether that code is one of the host's own stubs, the  *)
(* interrupt flag it returns to, and whether it has sent its EOI.          *)
Frame == [line : {NoLine, Timer, Keyboard, Device}, stub : BOOLEAN,
          saved : BOOLEAN, ended : BOOLEAN]

Init ==
    /\ session \in Sessions
    /\ pic = [VddPicReset EXCEPT !["master"].Imr = Lines \ session.unmasked]
    /\ pending0 = 0 /\ pending1 = 0 /\ pendingN = FALSE /\ keyUp = FALSE
    /\ net = [timeouts |-> 0, autoEoi |-> FALSE, expired |-> FALSE]
    /\ yielded = 0
    /\ lock = NoThread /\ ctxWrite = FALSE /\ inExec = FALSE /\ suspended = FALSE
    /\ exec = "pump" /\ event = "none"
    /\ inj = [t \in Injectors |-> [pc |-> "idle", irq |-> NoLine]]
    /\ guest = [frames |-> <<>>, vif |-> TRUE]
    /\ owed = 0 /\ due = FALSE

-----------------------------------------------------------------------------
(* Shared helpers.                                                         *)

Top == guest.frames[Len(guest.frames)]

InStub == guest.frames # <<>> /\ Top.stub

InStubOf(lines) == InStub /\ Top.line \in lines

(* In the INT 08h or INT 09h stub with its BOP still to come.              *)
AtBop == InStubOf({Timer, Keyboard}) /\ ~ Top.ended

(* The guest's interrupt flag at an event boundary: inside a stub, the one *)
(* in the FLAGS image the stub will return to.                             *)
GuestIfEnabled ==
    IF InStub THEN Top.saved ELSE guest.vif

(* The stubs that never EOI; the host's INT 08h stub does, in its BOP.     *)
AsyncVectorIsOurStub(irq) == irq \notin session.hooked /\ irq # Timer

(* Push an interrupt frame and enter the line's handler, interrupts off.   *)
InjectInt(irq) ==
    guest' = [frames |-> Append(guest.frames, [line |-> irq, stub |-> irq \notin session.hooked,
                                               saved |-> guest.vif, ended |-> FALSE]),
              vif |-> FALSE]

(* Acknowledge: held in service, or released at once when the handler will *)
(* never EOI.                                                              *)
IsAutoEoi(irq) == AsyncVectorIsOurStub(irq) \/ (irq = Timer /\ net.autoEoi)

Acknowledged(irq) ==
    IF IsAutoEoi(irq) THEN VddPicAcknowledgeAutoEoi(pic, irq) ELSE VddPicAcknowledge(pic, irq)

(* Seeded fault: no timeout.                                               *)
Irq0CanDeliver_NoTimeout == [ok |-> VddPicCanDeliver(pic, Timer), pic |-> pic, net |-> net]

(* The answer of Irq0CanDeliver, with the PIC and the safety net after it: *)
(* a timer line held past the timeout is ended by the host.                *)
Irq0CanDeliver ==
    LET freed == VddPicEndOfInterrupt(pic, Timer)
        count == IF net.timeouts < IsrTimeoutsMax THEN net.timeouts + 1 ELSE net.timeouts
    IN  IF ~ VddPicCanDeliver(pic, Timer) /\ Timer \in pic["master"].Isr /\ net.expired
          THEN [ok |-> VddPicCanDeliver(freed, Timer), pic |-> freed,
                net |-> [timeouts |-> count, autoEoi |-> count = IsrTimeoutsMax, expired |-> FALSE]]
          ELSE [ok |-> VddPicCanDeliver(pic, Timer), pic |-> pic, net |-> net]

(* Seeded fault: only the mask is asked, as V86DeliverKeyboardIrq does.    *)
CanDeliver_MaskOnly(irq) == [ok |-> irq \notin pic["master"].Imr, pic |-> pic, net |-> net]

CanDeliver(irq) ==
    IF irq = Timer THEN Irq0CanDeliver
    ELSE [ok |-> VddPicCanDeliver(pic, irq), pic |-> pic, net |-> net]

-----------------------------------------------------------------------------
(* The raisers.                                                            *)

(* HostPitGenerate, under g_PitCs only: one tick.  The request bit is set  *)
(* atomically and the latch saturates.                                     *)
TickRaise ==
    /\ pic' = VddPicRaise(pic, Timer)
    /\ LET step == IF pending0 < IrqPendingMax THEN 1 ELSE 0
       IN  pending0' = pending0 + step /\ owed' = owed + step
    /\ UNCHANGED <<session, pending1, pendingN, keyUp, due, net, yielded, lock, ctxWrite, inExec, suspended, exec, event, inj, guest>>

(* A scancode byte presented under g_Lock, once the guest has taken the    *)
(* one before it (InputRaiseScanCode).                                     *)
KeyRaise ==
    /\ lock = NoThread
    /\ ~ keyUp /\ keyUp' = TRUE
    /\ pic' = VddPicRaise(pic, Keyboard)
    /\ pending1' = IF pending1 < 1 THEN pending1 + 1 ELSE pending1
    /\ UNCHANGED <<session, pending0, pendingN, owed, due, net, yielded, lock, ctxWrite, inExec, suspended, exec, event, inj, guest>>

(* The device raises from its own thread, under g_Lock, and makes the one  *)
(* asynchronous attempt of HostIrqSink.                                    *)
DeviceRaise ==
    /\ inj["device"].pc = "idle" /\ lock = NoThread
    /\ lock' = "device"
    /\ pic' = VddPicRaise(pic, Device)
    /\ pendingN' = TRUE /\ due' = TRUE
    /\ inj' = [inj EXCEPT !["device"] = [pc |-> "check", irq |-> Device]]
    /\ UNCHANGED <<session, pending0, pending1, keyUp, owed, net, yielded, ctxWrite, inExec, suspended, exec, event, guest>>

-----------------------------------------------------------------------------
(* AsyncInjectIrq, one action per step another thread can see.             *)

(* Where a thread goes when its attempt is over.                           *)
AfterAttempt(t, isOk) ==
    CASE t = "courier" -> [pc |-> "idle", irq |-> NoLine]
      [] t = "device"  -> [pc |-> "unlock", irq |-> NoLine]
      [] t = "pacer"   ->
            CASE inj[t].irq = Keyboard /\ ~ isOk -> [pc |-> "check", irq |-> Timer]
              [] inj[t].irq = Device             -> [pc |-> "unlock", irq |-> NoLine]
              [] OTHER                           -> [pc |-> "devices", irq |-> NoLine]

(* A key that could not be placed gives the slot back to the tick.         *)
YieldedAfter(t, isOk) ==
    IF t = "pacer" /\ inj[t].irq = Keyboard /\ ~ isOk THEN 0 ELSE yielded

Bail(t) ==
    /\ inj' = [inj EXCEPT ![t] = AfterAttempt(t, FALSE)]
    /\ yielded' = YieldedAfter(t, FALSE)

(* The guest is running, the PIC agrees, and the line has a handler.       *)
AsyncCheck(t) ==
    /\ inj[t].pc = "check"
    /\ IF ~ inExec
         THEN Bail(t) /\ UNCHANGED <<pic, net>>
         ELSE LET answer == CanDeliver(inj[t].irq)
              IN  /\ pic' = answer.pic /\ net' = answer.net
                  /\ IF answer.ok /\ (inj[t].irq = Device => Device \in session.hooked)
                       THEN inj' = [inj EXCEPT ![t].pc = "claim"] /\ UNCHANGED yielded
                       ELSE Bail(t)
    /\ UNCHANGED <<session, latches, lock, ctxWrite, inExec, suspended, exec, event, guest>>

(* Exclusive ownership of the guest's context.                             *)
AsyncClaim(t) ==
    /\ inj[t].pc = "claim"
    /\ IF ctxWrite
         THEN Bail(t) /\ UNCHANGED ctxWrite
         ELSE /\ ctxWrite' = TRUE
              /\ inj' = [inj EXCEPT ![t].pc = "suspend"]
              /\ UNCHANGED yielded
    /\ UNCHANGED <<session, pic, latches, net, lock, inExec, suspended, exec, event, guest>>

(* SuspendThread and GetThreadContext: the thread has stopped.             *)
AsyncSuspend(t) ==
    /\ inj[t].pc = "suspend"
    /\ suspended' = TRUE
    /\ inj' = [inj EXCEPT ![t].pc = "inspect"]
    /\ UNCHANGED <<session, pic, latches, net, yielded, lock, ctxWrite, inExec, exec, event, guest>>

(* Seeded fault: g_InExec is not read again once the suspend has landed,   *)
(* and the stopped thread is taken to be in guest code.                    *)
MayRewrite_Unchecked == guest.vif /\ ~ InStub

(* The stopped thread may be rewritten: still in exec, in V86 mode rather  *)
(* than in host code, interrupts on, outside the host's own stubs.         *)
MayRewrite ==
    /\ inExec
    /\ exec = "guest"
    /\ guest.vif
    /\ ~ InStub

AsyncInspect(t) ==
    /\ inj[t].pc = "inspect"
    /\ IF MayRewrite
         THEN /\ InjectInt(inj[t].irq)
              /\ pic' = Acknowledged(inj[t].irq)
              /\ inj' = [inj EXCEPT ![t].pc = "resume"]
              /\ owed' = IF inj[t].irq = Timer THEN owed - 1 ELSE owed
              /\ due' = (inj[t].irq # Device /\ due)
              /\ net' = IF inj[t].irq = Timer THEN [net EXCEPT !.expired = FALSE] ELSE net
              /\ UNCHANGED <<suspended, ctxWrite, yielded>>
         ELSE /\ suspended' = FALSE /\ ctxWrite' = FALSE
              /\ Bail(t)
              /\ UNCHANGED <<guest, pic, owed, due, net>>
    /\ UNCHANGED <<session, pending0, pending1, pendingN, keyUp, lock, inExec, exec, event>>

AsyncResume(t) ==
    /\ inj[t].pc = "resume"
    /\ suspended' = FALSE /\ ctxWrite' = FALSE
    /\ inj' = [inj EXCEPT ![t].pc = "account"]
    /\ UNCHANGED <<session, pic, latches, net, yielded, lock, inExec, exec, event, guest>>

(* The caller takes the delivered interrupt off its latch, after the guest *)
(* has been resumed.                                                       *)
AsyncAccount(t) ==
    /\ inj[t].pc = "account"
    /\ pending0' = IF inj[t].irq = Timer THEN pending0 - 1 ELSE pending0
    /\ pending1' = IF inj[t].irq = Keyboard THEN pending1 - 1 ELSE pending1
    /\ pendingN' = (inj[t].irq # Device /\ pendingN)
    /\ yielded' = IF inj[t].irq = Keyboard THEN yielded + 1 ELSE yielded
    /\ inj' = [inj EXCEPT ![t] = AfterAttempt(t, TRUE)]
    /\ UNCHANGED <<session, pic, keyUp, owed, due, net, lock, ctxWrite, inExec, suspended, exec, event, guest>>

AsyncInjectIrq(t) ==
    \/ AsyncCheck(t)
    \/ AsyncClaim(t)
    \/ AsyncSuspend(t)
    \/ AsyncInspect(t)
    \/ AsyncResume(t)
    \/ AsyncAccount(t)

-----------------------------------------------------------------------------
(* The threads that call it.                                               *)

(* Seeded fault: the pacer makes its attempt without g_Lock.               *)
PitDeliverLock_Unlocked ==
    /\ inj["pacer"].pc = "idle"
    /\ inj' = [inj EXCEPT !["pacer"].pc = "choose"]
    /\ UNCHANGED <<session, pic, latches, net, yielded, lock, ctxWrite, inExec, suspended, exec, event, guest>>

(* HOST_LOCK_TRY: the clock never queues for the lock.                     *)
PitDeliverLock ==
    /\ inj["pacer"].pc = "idle"
    /\ lock = NoThread
    /\ lock' = "pacer"
    /\ inj' = [inj EXCEPT !["pacer"].pc = "choose"]
    /\ UNCHANGED <<session, pic, latches, net, yielded, ctxWrite, inExec, suspended, exec, event, guest>>

(* Seeded fault: a key takes the slot however often it has had it.         *)
PitDeliverChoose_YieldAlways ==
    /\ inj["pacer"].pc = "choose"
    /\ inj' = [inj EXCEPT !["pacer"] =
                 IF pending0 <= 0 THEN [pc |-> "devices", irq |-> NoLine]
                 ELSE [pc |-> "check", irq |-> IF pending1 > 0 THEN Keyboard ELSE Timer]]
    /\ UNCHANGED <<session, pic, latches, net, yielded, lock, ctxWrite, inExec, suspended, exec, event, guest>>

(* A pending key may take the tick's slot, KeyIrqMaxYield times in a row.  *)
PitDeliverChoose ==
    /\ inj["pacer"].pc = "choose"
    /\ LET keyFirst == /\ pending1 > 0
                       /\ yielded < KeyIrqMaxYield
                       /\ VddPicCanDeliver(pic, Keyboard)
       IN  /\ inj' = [inj EXCEPT !["pacer"] =
                        IF pending0 <= 0 THEN [pc |-> "devices", irq |-> NoLine]
                        ELSE [pc |-> "check", irq |-> IF keyFirst THEN Keyboard ELSE Timer]]
           /\ yielded' = IF pending0 > 0 /\ ~ keyFirst THEN 0 ELSE yielded
    /\ UNCHANGED <<session, pic, latches, net, lock, ctxWrite, inExec, suspended, exec, event, guest>>

(* Seeded fault: the device's one attempt is the one at its raise.         *)
PitDeliverDevices_NoRetry ==
    /\ inj["pacer"].pc = "devices"
    /\ inj' = [inj EXCEPT !["pacer"].pc = "unlock"]
    /\ UNCHANGED <<session, pic, latches, net, yielded, lock, ctxWrite, inExec, suspended, exec, event, guest>>

(* The retry of a device interrupt that was refused when it was raised.    *)
PitDeliverDevices ==
    /\ inj["pacer"].pc = "devices"
    /\ inj' = [inj EXCEPT !["pacer"] =
                 IF pendingN /\ VddPicCanDeliver(pic, Device)
                   THEN [pc |-> "check", irq |-> Device]
                   ELSE [pc |-> "unlock", irq |-> NoLine]]
    /\ UNCHANGED <<session, pic, latches, net, yielded, lock, ctxWrite, inExec, suspended, exec, event, guest>>

(* HOST_UNLOCK of HostPitDeliver, and of the device's thread.              *)
InjectorUnlock(t) ==
    /\ inj[t].pc = "unlock"
    /\ lock' = IF lock = t THEN NoThread ELSE lock
    /\ inj' = [inj EXCEPT ![t].pc = "idle"]
    /\ UNCHANGED <<session, pic, latches, net, yielded, ctxWrite, inExec, suspended, exec, event, guest>>

(* TickCourierThread: one attempt of a wake, without any lock.             *)
CourierWake ==
    /\ session.courier
    /\ inj["courier"].pc = "idle"
    /\ pending0 > 0 /\ inExec
    /\ inj' = [inj EXCEPT !["courier"] = [pc |-> "check", irq |-> Timer]]
    /\ UNCHANGED <<session, pic, latches, net, yielded, lock, ctxWrite, inExec, suspended, exec, event, guest>>

PitDeliver ==
    \/ PitDeliverLock
    \/ PitDeliverChoose
    \/ PitDeliverDevices

-----------------------------------------------------------------------------
(* The exec loop: deliver what is pending, run the guest, service what     *)
(* stopped it.  A suspended thread takes no step.                          *)

ExecAt(pc) == exec = pc /\ ~ suspended

(* OplPumpTime and HostKeyPresent take g_Lock on some passes only.         *)
LoopPumpSkip ==
    /\ ExecAt("pump")
    /\ exec' = "timer"
    /\ UNCHANGED <<session, pic, latches, net, yielded, lock, ctxWrite, inExec, suspended, event, inj, guest>>

LoopPumpLock ==
    /\ ExecAt("pump") /\ lock = NoThread
    /\ lock' = ExecThread
    /\ exec' = "pumping"
    /\ UNCHANGED <<session, pic, latches, net, yielded, ctxWrite, inExec, suspended, event, inj, guest>>

LoopPumpUnlock ==
    /\ ExecAt("pumping")
    /\ lock' = NoThread
    /\ exec' = "timer"
    /\ UNCHANGED <<session, pic, latches, net, yielded, ctxWrite, inExec, suspended, event, inj, guest>>

(* V86DeliverTimerIrq.                                                     *)
V86DeliverTimerIrq ==
    /\ ExecAt("timer")
    /\ exec' = "keyboard"
    /\ IF pending0 # 0 /\ pending0 >= -TickDebtMax /\ GuestIfEnabled /\ ~ InStubOf({Timer})
         THEN LET answer == Irq0CanDeliver
              IN  IF answer.ok
                    THEN /\ pending0' = pending0 - 1 /\ owed' = owed - 1
                         /\ pic' = IF answer.net.autoEoi
                                     THEN VddPicAcknowledgeAutoEoi(answer.pic, Timer)
                                     ELSE VddPicAcknowledge(answer.pic, Timer)
                         /\ net' = [answer.net EXCEPT !.expired = FALSE]
                         /\ InjectInt(Timer)
                    ELSE /\ pic' = answer.pic /\ net' = answer.net
                         /\ UNCHANGED <<pending0, owed, guest>>
         ELSE UNCHANGED <<pic, net, pending0, owed, guest>>
    /\ UNCHANGED <<session, pending1, pendingN, keyUp, due, yielded, lock, ctxWrite, inExec, suspended, event, inj>>

(* V86DeliverKeyboardIrq: the mask is honoured, the in-service rule is not.*)
V86DeliverKeyboardIrq ==
    /\ ExecAt("keyboard")
    /\ exec' = "device"
    /\ IF /\ pending1 > 0 /\ Keyboard \notin pic["master"].Imr
          /\ GuestIfEnabled /\ ~ InStubOf({Timer, Keyboard})
         THEN /\ pending1' = pending1 - 1
              /\ pic' = IF AsyncVectorIsOurStub(Keyboard)
                          THEN VddPicEndOfInterrupt(VddPicAcknowledge(pic, Keyboard), Keyboard)
                          ELSE VddPicAcknowledge(pic, Keyboard)
              /\ InjectInt(Keyboard)
         ELSE UNCHANGED <<pic, pending1, guest>>
    /\ UNCHANGED <<session, pending0, pendingN, keyUp, owed, due, net, yielded, lock, ctxWrite, inExec, suspended, event, inj>>

(* V86DeliverDeviceIrq: an unhooked line is dropped.                       *)
V86DeliverDeviceIrq ==
    /\ ExecAt("device")
    /\ exec' = "entering" /\ inExec' = TRUE
    /\ LET isOpen      == pendingN /\ GuestIfEnabled /\ ~ AtBop
           isDropped   == isOpen /\ Device \notin session.hooked
           isDelivered == isOpen /\ Device \in session.hooked /\ VddPicCanDeliver(pic, Device)
       IN  /\ pendingN' = (pendingN /\ ~ isDropped /\ ~ isDelivered)
           /\ due' = (due /\ ~ isDropped /\ ~ isDelivered)
           /\ IF isDelivered
                THEN pic' = VddPicAcknowledge(pic, Device) /\ InjectInt(Device)
                ELSE UNCHANGED <<pic, guest>>
    /\ UNCHANGED <<session, pending0, pending1, keyUp, owed, net, yielded, lock, ctxWrite, suspended, event, inj>>

(* V86RunGuestTimed enters the guest; g_InExec is already set.             *)
LoopEnterGuest ==
    /\ ExecAt("entering")
    /\ exec' = "guest"
    /\ UNCHANGED <<session, pic, latches, net, yielded, lock, ctxWrite, inExec, suspended, event, inj, guest>>

(* ... and has returned; g_InExec is cleared before anything else.         *)
LoopLeaveGuest ==
    /\ ExecAt("leaving")
    /\ inExec' = FALSE
    /\ exec' = "service"
    /\ UNCHANGED <<session, pic, latches, net, yielded, lock, ctxWrite, suspended, event, inj, guest>>

(* An INT 21h call is serviced without g_Lock; its stub returns later.     *)
ServiceDosCall ==
    /\ ExecAt("service") /\ event = "dos"
    /\ exec' = "pump"
    /\ UNCHANGED <<session, pic, latches, net, yielded, lock, ctxWrite, inExec, suspended, event, inj, guest>>

(* A port access and a BIOS BOP are serviced under g_Lock.                 *)
ServiceIoLock ==
    /\ ExecAt("service") /\ event # "dos" /\ lock = NoThread
    /\ lock' = ExecThread
    /\ exec' = "servicing"
    /\ UNCHANGED <<session, pic, latches, net, yielded, ctxWrite, inExec, suspended, event, inj, guest>>

(* Seeded fault: the BIOS handlers' BOPs send no EOI.                      *)
ServiceEoi_NoBiosEoi ==
    /\ ExecAt("servicing") /\ event \in {"eoi", "bop"}
    /\ guest' = [guest EXCEPT !.frames[Len(guest.frames)].ended = TRUE]
    /\ lock' = NoThread
    /\ exec' = "pump"
    /\ UNCHANGED <<session, pic, latches, net, yielded, ctxWrite, inExec, suspended, event, inj>>

(* OUT 20h,20h is the non-specific EOI of the handler on top of the stack; *)
(* the BIOS handlers end their own line (V86ServiceTimerBop,               *)
(* V86ServiceKeyboardBop).                                                 *)
ServiceEoi ==
    /\ ExecAt("servicing") /\ event \in {"eoi", "bop"}
    /\ pic' = IF event = "eoi" THEN [pic EXCEPT !["master"] = PicOcw2(@, "nonspecificEoi", 0)]
                               ELSE VddPicEndOfInterrupt(pic, Top.line)
    /\ guest' = [guest EXCEPT !.frames[Len(guest.frames)].ended = TRUE]
    /\ lock' = NoThread
    /\ exec' = "pump"
    /\ keyUp' = (keyUp /\ ~ (event = "bop" /\ Top.line = Keyboard))
    /\ UNCHANGED <<session, pending0, pending1, pendingN, owed, due, net, yielded, ctxWrite, inExec, suspended, event, inj>>

(* A load that restarts counter 0 while the timer is in service discards   *)
(* the ticks latched against the old count, and the request with them.     *)
HostPitResyncCheck ==
    /\ Timer \in pic["master"].Isr /\ ~ net.autoEoi
    /\ pending0' = 0 /\ owed' = owed - pending0
    /\ pic' = [pic EXCEPT !["master"].Irr = @ \ {Timer}]

(* Any other port access: IN 60h takes the presented scancode; OUT 40h may *)
(* complete a load of counter 0.                                           *)
ServiceIo ==
    /\ ExecAt("servicing") /\ event \in {"io", "in60"}
    /\ keyUp' = (keyUp /\ event # "in60")
    /\ \/ event = "io" /\ HostPitResyncCheck
       \/ UNCHANGED <<pic, pending0, owed>>
    /\ lock' = NoThread
    /\ exec' = "pump"
    /\ UNCHANGED <<session, pending1, pendingN, due, net, yielded, ctxWrite, inExec, suspended, event, inj, guest>>

-----------------------------------------------------------------------------
(* The guest's own steps.                                                  *)

InHandler == guest.frames # <<>> /\ ~ InStub

(* STI in a handler: after its EOI, or before it where the guest's handler *)
(* is written so.                                                          *)
GuestSti ==
    /\ ExecAt("guest") /\ InHandler
    /\ ~ guest.vif /\ Len(guest.frames) < session.maxFrames
    /\ Top.ended \/ Top.line \in session.stiBeforeEoi
    /\ guest' = [guest EXCEPT !.vif = TRUE]
    /\ UNCHANGED <<session, pic, latches, net, yielded, lock, ctxWrite, inExec, suspended, exec, event, inj>>

(* Main-line code switches interrupts off and on.                          *)
GuestToggleIf ==
    /\ ExecAt("guest") /\ guest.frames = <<>> /\ session.maxFrames > 0
    /\ guest' = [guest EXCEPT !.vif = ~ @]
    /\ UNCHANGED <<session, pic, latches, net, yielded, lock, ctxWrite, inExec, suspended, exec, event, inj>>

(* INT 21h, from the main line or a handler: into the host's stub, whose   *)
(* BOP ends the stretch of guest code.                                     *)
GuestDosCall ==
    /\ ExecAt("guest") /\ ~ InStub
    /\ "dos" \in session.traps /\ Len(guest.frames) < session.maxFrames
    /\ guest' = [frames |-> Append(guest.frames, [line |-> NoLine, stub |-> TRUE,
                                                  saved |-> guest.vif, ended |-> TRUE]),
                 vif |-> FALSE]
    /\ event' = "dos"
    /\ exec' = "leaving"
    /\ UNCHANGED <<session, pic, latches, net, yielded, lock, ctxWrite, inExec, suspended, inj>>

(* A port access of the main line or a handler, say of the retrace port or *)
(* the timer's.                                                            *)
GuestIo ==
    /\ ExecAt("guest") /\ ~ InStub
    /\ "io" \in session.traps
    /\ event' = "io"
    /\ exec' = "leaving"
    /\ UNCHANGED <<session, pic, latches, net, yielded, lock, ctxWrite, inExec, suspended, inj, guest>>

(* A handler's OUT 20h,20h traps.                                          *)
GuestEoi ==
    /\ ExecAt("guest") /\ InHandler
    /\ ~ Top.ended
    /\ Top.line = Timer => session.eoisTimer
    /\ event' = "eoi"
    /\ exec' = "leaving"
    /\ UNCHANGED <<session, pic, latches, net, yielded, lock, ctxWrite, inExec, suspended, inj, guest>>

(* A keyboard handler's IN 60h traps.                                      *)
GuestReadKey ==
    /\ ExecAt("guest") /\ InHandler
    /\ Top.line = Keyboard /\ keyUp
    /\ event' = "in60"
    /\ exec' = "leaving"
    /\ UNCHANGED <<session, pic, latches, net, yielded, lock, ctxWrite, inExec, suspended, inj, guest>>

(* The BOP of the host's INT 08h or INT 09h stub.                          *)
GuestBop ==
    /\ ExecAt("guest") /\ AtBop
    /\ event' = "bop"
    /\ exec' = "leaving"
    /\ UNCHANGED <<session, pic, latches, net, yielded, lock, ctxWrite, inExec, suspended, inj, guest>>

GuestIret ==
    /\ ExecAt("guest") /\ guest.frames # <<>>
    /\ Top.ended \/ (Top.line = Timer /\ Timer \in session.hooked /\ ~ session.eoisTimer)
    /\ guest' = [frames |-> SubSeq(guest.frames, 1, Len(guest.frames) - 1), vif |-> Top.saved]
    /\ UNCHANGED <<session, pic, latches, net, yielded, lock, ctxWrite, inExec, suspended, exec, event, inj>>

(* The timer line has been in service for IRQ0_ISR_TIMEOUT_MS.  A delivery *)
(* attempt takes microseconds, so that much time passes only between them. *)
HandlerStalls ==
    /\ session.stalls /\ Timer \in pic["master"].Isr /\ ~ net.expired
    /\ ExecAt("guest") /\ \A t \in Injectors : inj[t].pc = "idle"
    /\ net' = [net EXCEPT !.expired = TRUE]
    /\ UNCHANGED <<session, pic, latches, yielded, lock, ctxWrite, inExec, suspended, exec, event, inj, guest>>

-----------------------------------------------------------------------------
LoopStep ==
    \/ LoopPumpSkip
    \/ LoopPumpUnlock
    \/ V86DeliverTimerIrq
    \/ V86DeliverKeyboardIrq
    \/ V86DeliverDeviceIrq
    \/ LoopEnterGuest
    \/ LoopLeaveGuest
    \/ ServiceDosCall
    \/ ServiceEoi
    \/ ServiceIo

LoopLockStep ==
    \/ LoopPumpLock
    \/ ServiceIoLock

GuestStep ==
    \/ GuestSti
    \/ GuestToggleIf
    \/ GuestDosCall
    \/ GuestIo
    \/ GuestEoi
    \/ GuestReadKey
    \/ GuestBop
    \/ GuestIret
    \/ HandlerStalls

Raise ==
    \/ TickRaise
    \/ KeyRaise
    \/ DeviceRaise

InjectorStep(t) ==
    \/ AsyncInjectIrq(t)
    \/ InjectorUnlock(t)

Next ==
    \/ Raise
    \/ \E t \in Injectors : InjectorStep(t)
    \/ PitDeliver
    \/ CourierWake
    \/ LoopStep
    \/ LoopLockStep
    \/ GuestStep

Spec == Init /\ [][Next]_vars

(* Fairness.  Every host thread keeps running, the exec thread too though  *)
(* it is stopped for microseconds again and again; a thread that waits for *)
(* g_Lock gets it if it is free again and again (a critical section starves*)
(* nobody for ever, and the pacer's TRY is repeated every few              *)
(* milliseconds); a handler that has been entered runs to its IRET; and    *)
(* time passes.                                                            *)
Fairness ==
    /\ \A t \in Injectors : WF_vars(InjectorStep(t))
    /\ WF_vars(PitDeliverChoose) /\ WF_vars(PitDeliverDevices)
    /\ SF_vars(PitDeliverLock)
    /\ SF_vars(LoopStep) /\ SF_vars(LoopLockStep)
    /\ SF_vars(GuestEoi) /\ SF_vars(GuestBop) /\ SF_vars(GuestIret)
    /\ SF_vars(HandlerStalls)

FairSpec == Spec /\ Fairness

-----------------------------------------------------------------------------
(* Properties.                                                             *)

TypeOK ==
    /\ session \in Sessions /\ pic \in PairType
    /\ pending0 \in -(TickDebtMax + 2) .. IrqPendingMax /\ pending1 \in -1 .. 1 /\ pendingN \in BOOLEAN /\ keyUp \in BOOLEAN
    /\ net \in [timeouts : 0 .. IsrTimeoutsMax, autoEoi : BOOLEAN, expired : BOOLEAN]
    /\ yielded \in 0 .. KeyIrqMaxYield
    /\ lock \in {NoThread, ExecThread, "pacer", "device"}
    /\ ctxWrite \in BOOLEAN /\ inExec \in BOOLEAN /\ suspended \in BOOLEAN
    /\ exec \in ExecSteps /\ event \in {"none", "dos", "io", "eoi", "bop", "in60"}
    /\ inj \in [Injectors -> [pc : InjectorSteps, irq : {NoLine, Timer, Keyboard, Device}]]
    /\ guest.vif \in BOOLEAN
    /\ \A i \in 1 .. Len(guest.frames) : guest.frames[i] \in Frame
    /\ owed \in -(TickDebtMax + 2) .. IrqPendingMax /\ due \in BOOLEAN

Holding(t) == inj[t].pc \in {"suspend", "inspect", "resume"}

(* host_irq.c, on the second read of g_InExec: "a 1 observed on an         *)
(* already-stopped thread means it is still inside the kernel call,        *)
(* holding nothing".  Whoever injects, and with or without g_Lock: one     *)
(* thread at a time owns the guest's context, the guest is stopped only by *)
(* that thread, and a context is rewritten only while the exec thread is   *)
(* in guest code without g_Lock.                                           *)
SuspendInterlock ==
    /\ \A t, u \in Injectors : Holding(t) /\ Holding(u) => t = u
    /\ suspended <=> \E t \in Injectors : inj[t].pc \in {"inspect", "resume"}
    /\ \A t \in Injectors : inj[t].pc = "resume" => exec = "guest" /\ lock # ExecThread

Reentered(line) ==
    \E i, j \in 1 .. Len(guest.frames) :
        /\ i < j
        /\ guest.frames[i].line = line /\ guest.frames[j].line = line
        /\ ~ guest.frames[i].ended

(* AsyncInjectIrq asks the PIC, "exactly as the hardware would", so that a *)
(* handler that has not sent its EOI is never entered again, by either     *)
(* path, though the answer is not asked again once the guest is stopped.   *)
NotReentered == \A line \in {Timer, Keyboard, Device} : ~ Reentered(line)

(* A handler's non-specific EOI ends its own line: of the lines in service *)
(* the one that outranks the others is that of the handler on top of the   *)
(* guest's stack, whoever delivered it.                                    *)
EoiEndsOwnLine ==
    exec = "servicing" /\ event = "eoi" => PicTopLine(pic["master"], pic["master"].Isr) = Top.line

Accounting(irq) == {t \in Injectors : inj[t].pc \in {"resume", "account"} /\ inj[t].irq = irq}

(* No latched tick is delivered twice, and none is lost but those that a   *)
(* reload of counter 0 in the timer handler discards on purpose            *)
(* (HostPitResyncCheck), which are never ones already placed:              *)
(* g_Irq0Pending is the number of latched ticks the guest has neither had  *)
(* nor discarded, plus the one a thread has placed and not yet taken off   *)
(* the latch; and it is never negative.  (The courier, off by default,     *)
(* accounts without g_Lock and is not held to it.)                         *)
TickLatchExact ==
    ~ session.courier =>
        /\ pending0 = owed + Cardinality(Accounting(Timer))
        /\ owed >= 0

(* The same of a device's one-shot latch: it is set exactly while an       *)
(* interrupt is due or a placed one is not yet accounted for, so the late  *)
(* clearing of g_IrqNPending never wipes out a newer interrupt.            *)
DeviceLatchExact == pendingN <=> due \/ Accounting(Device) # {}

(* The scancode latch is one deep and is never driven below zero: at -1    *)
(* the next raise would reach 0 and the key would never be delivered.      *)
KeyLatchSound == pending1 >= 0

(* HostPitDeliver's retry, "A DEVICE IRQ GETS EXACTLY ONE ASYNCHRONOUS     *)
(* ATTEMPT ... THAT IS NOT ENOUGH FOR A ONE-SHOT": in a guest that ends    *)
(* its interrupts, once the clock and the keyboard leave it room, a        *)
(* pending device interrupt is delivered though the guest never traps      *)
(* again.                                                                  *)
DeviceServed ==
    Device \in session.hooked /\ session.eoisTimer /\ <>[][~ (TickRaise \/ KeyRaise)]_vars
        => (pendingN ~> ~ pendingN)

(* A guest that never EOIs its timer does not stop its clock: the timeout  *)
(* ends the line for it and, after IsrTimeoutsMax of them, the auto-EOI    *)
(* fallback does.                                                          *)
ClockNeverStops ==
    <>[][~ (KeyRaise \/ DeviceRaise)]_vars => []<>(pending0 <= 0) \/ []<><<owed' < owed>>_vars
=============================================================================
