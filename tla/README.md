# A TLA+ model of NTVDMEX

NTVDMEX replaces `ntvdm.exe` on Windows XP: it runs MS-DOS and Windows 3.x programs on the
processor's own virtual-8086 mode and implements, in C, what those programs ask of the machine.
This directory holds TLA+ modules that model the parts of it in which an error is hard to test:
the interrupt controllers and the delivery of interrupts to running guest code from several threads;
the keyboard controller, the interval timer and the clocks; the conventional, extended and expanded
memory and the file handles that DOS keeps for its programs; and the scheduler of Win16 tasks.

File names below are relative to the repository's `src/` directory (`host/host_irq.c` is
`src/src/host/host_irq.c` in `PROJECT.json`).

## 1. Inventory

| Part | Sources | State | Operations | What makes it correct |
|---|---|---|---|---|
| 8259A interrupt controllers | `vdd/vdd_pic.c` | per chip: IRR, ISR, IMR, lowest-priority line, ICW step, modes | port reads and writes (ICW1-4, OCW1-3, poll), `VddPicRaise`, `CanDeliver`, `Acknowledge`, `AcknowledgeAutoEoi`, `EndOfInterrupt` | the poll and the host's question give the chip's answer in every mode; nesting is respected |
| Interrupt delivery | `host/host_irq.c`, `host/host_timing.c`, `host/host_exec.c` | pending latches per line, `g_Lock`, `g_InExec`, `g_AsyncContextWrite`, the safety net for timer handlers without EOI | raise, asynchronous injection (suspend, rewrite, resume), cooperative delivery, exec loop, tick courier | no interrupt lost or delivered twice, no handler re-entered, no rewrite of a context that is not in guest code, nobody starves |
| DOS memory and program lifetimes | `dos/dos_mcb.h`, `dos/dos_loader.h`, `host/host_dos.c`, `dos/dos_int21.c` | the chain of memory control blocks in guest memory, the stack of parents | AH=48h/49h/4Ah, EXEC, exit, stay resident, start-up reservations | blocks never overlap, each is touched by its owner only, an exit gives everything back |
| Interval timer | `vdd/vdd_pit.c`, `host/host_timing.c` | counters, latches, write phases, the speaker's copy, accumulated clocks | port accesses, gate changes, clocks | interrupts, counts read and the speaker agree on the count in force |
| Guest clocks | `dos/dos_clock.h`, `dos/dos_int21.c`, `vdd/vdd_cmos.c`, `vdd/vdd_pit.h` | two offsets from the host's clock, the BIOS tick count with its witness, the copy frozen by SET | get and set date and time by DOS, BIOS and CMOS; ticks; direct stores into the count | each clock reads what it was set to, moved on by the time since |
| Keyboard controller and mouse port | `vdd/vdd_input.c`, `vdd/vdd_aux.c`, `host/host_input.c`, `host/host_mouse.c` | two queues, one output buffer, command byte, transfer hold, BIOS flags | key and mouse events, poll, port accesses, INT 09h and its intercept | a byte announced is the byte read, each is translated once, no modifier sticks |
| Real-time clock | `vdd/vdd_cmos.c` | Status A, B and C, dividers | `VddCmosAddClocks`, port accesses | a flag raised is a flag read |
| DMA, floppy, IDE | `vdd/vdd_dma.c`, `vdd_fdc.c`, `vdd_ide.c` | address and count registers, command phases | port accesses, transfers | phases in order, counts exact |
| Sound devices | `vdd/vdd_sb.c`, `vdd_opl.c`, `vdd_gus.c`, `vdd_mpu.c`, `host/host_audio.c` | DSP state, block counters, ring to the audio thread | commands, block completion, pump | a block completes once, with one interrupt |
| Serial ports | `vdd/vdd_comm.c` | UART registers, pending causes | port accesses, line events | cause identification by priority |
| XMS and EMS | `dos/dos_xms.h`, `dos_ems.h`, `dos_extmem.h`, `host/host_dos.c` | handle tables, lock counts, host buffers; page windows with copies, saved maps | allocate, free, reallocate, lock, move; map, unmap, save, restore; BIOS block move | a block keeps its bytes, a locked one its address; what is written in a window survives |
| DOS files and handles | `dos/dos_int21.c`, `dos/dos_fh.h` | the handle table, its saved copies, the JFT and its pseudo SFT | open, close, dup, dup2, EXEC, exit | a host handle is open exactly while a program has it |
| DPMI host | `host/host_dpmi*.c` | descriptors, mode-switch stack, callbacks | INT 31h, reflections | switches nest |
| Win16 scheduler and calls | `wow/wowsched.c`, `wow/wowcall.c`, `host/host_wow.c`, `host/host_dpmi_int.c` | parked tasks, callback frames, current-task word | launch, yield, retire, call, return, unwind | a task resumes at its own depth, on its own stack |
| Win16 thunks | `wow/*.c` | in Windows | hundreds of conversions | data transformation |
| Video, presentation, capture, user interface, settings, installation | `vdd/vdd_video.c`, `host/host_window.c`, ... | pixels, windows, files | drawing, I/O | mostly data transformation |

**How they interact.** The guest runs on one thread, in `NtVdmControl`, until it traps. Devices
call `VddRaiseIrq`, which sets the PIC's request bit and reaches `HostIrqSink`; from there, or from
the pacer's `HostPitDeliver`, `AsyncInjectIrq` stops the guest thread and makes it take the
interrupt. Otherwise the exec loop delivers it the next time the guest traps. Port accesses and
BIOS BOPs are serviced by the guest thread under `g_Lock`; DOS calls are serviced without it. DOS
memory is shared only through the chain in guest memory, which every program can read and write.

**What is hard.** Two delivery paths on different threads over the same latches; a question put to
the PIC before the guest is stopped and acted on afterwards; a latch decremented after the guest
has been resumed; device interrupts with a single asynchronous attempt; a courier thread that takes
no lock; guests that never send an EOI. In DOS memory: segments recorded by EXEC and used when the
child ends, by which time the memory may be another's; free blocks merged by some operations and
not by others; every header a program can overwrite. In the devices: one piece of state computed from
several fields, or kept twice, that any order of port accesses must leave in agreement; two threads
over one status register without a common lock. In the services: copies that are newer than the
store, addresses that outlive a move, handles shared with programs further up. In Win16: one stack of
callback frames for all tasks.

`PROJECT.json` lists these hazards at their lines, with the properties that would catch them.

## 2. Modules

| Module | Models | Used by |
|---|---|---|
| `PicChip` | `vdd_pic.c`: the chip's registers as a record and every command, read and host call as an operator on it | `PicDevice`, `IrqDelivery` |
| `PicDevice` | the pair as a state machine: one action per port access and per host call | `MCPicDevice`, `PicProofs` |
| `IrqDelivery` | the delivery of IRQ 0, IRQ 1 and a device line, over `PicChip` | `MCIrqDelivery` |
| `Arena` | what DOS promises about memory, without control blocks | `DosMemory`, `MemoryProofs`, `MCArena` |
| `DosMemory` | `dos_mcb.h` and its callers; implements `Arena` | `MCDosMemory`, `MCMemory`, `MemoryProofs` |
| `Keyboard` | the 8042, keyboard and mouse behind it, the host's events, INT 09h | `MCKeyboard` |
| `Pit` | `vdd_pit.c`: counter 0 with the interrupt engine, counter 2 with gate and speaker | `MCMachine` |
| `Rtc` | the interrupts of `vdd_cmos.c` against the guest's accesses, one shared access at a time | `MCMachine` |
| `GuestClock` | DOS's clock, the clock registers, the tick count | `MCMachine` |
| `Xms`, `Ems` | `dos_xms.h` with `dos_extmem.h`; `dos_ems.h` | `MCMachine` |
| `DosHandles` | handles across EXEC and exit, redirection through the JFT | `MCMachine` |
| `WowTasks` | the Win16 scheduler and the host's calls into 16-bit code | `MCWowTasks`, `MCMachine` |
| `SetFacts`, `PicChipProofs` | lemmas: sets, sequences, recursion; the operators of `PicChip` | the modules below |
| `PicProofs` | theorems about `PicDevice` | |
| `IrqProofs` | theorems about `IrqDelivery` | |
| `DeviceProofs` | theorems about `Rtc`, `Pit` and `Keyboard` | |
| `MemoryProofs` | theorems about `Arena` and `DosMemory` | |
| `ServiceProofs` | theorems about `Xms`, `Ems` and `GuestClock` | |
| `ProgramProofs` | theorems about `DosHandles` and `WowTasks` | |

Operators named `X_Something` are faulty variants of `X`: they are never used by a specification, and
stand for the mistakes the properties are meant to catch.

`MCMemory` and `MCMachine` put parts that share no state into one run: a variable `part`, chosen in
the initial state, says whose steps a behaviour takes, and the variables of the others stay at an
initial value. The states are the disjoint union of the parts' states, so nothing is lost.

### PicChip and PicDevice

A chip is a record with the fields of `PIC_CHIP`; registers of bits are sets of lines.
`LinesPerChip` and `CascadeLine` are constants (8 and 2 in the code). Bytes written to the command
port are given by what they decode to: ICW1, OCW2 (command and line) and OCW3 (register select,
special mask, poll); a data byte carries a mask, a vector base and ICW4's bits, and the chip's ICW
step decides which is used. `PicRank`, `PicTopLine`, `PicBlockers` and `PicIsLineOpen` translate
the functions of those names. `VddPicCanDeliver` and `VddPicAcknowledge` handle the cascade as
the code does: a slave line needs the slave's and the master's consent, and puts IR2 in service.

`VddPicAcknowledgeAutoEoi` is described at `vdd_pic.c:513-515` as leaving "ISR ... exactly where it
started". For a slave line it is the composition of acknowledge and end, and can change the
master's IR2 (in special fully nested mode with IR2 in service it is cleared). The model translates
the code; no property holds it to the comment.

### IrqDelivery

Threads are the exec thread, the pacer (`HostPitDeliver`), the device's thread (`HostIrqSink`) and
the tick courier. Each has a program counter, and one action is what a thread does between two
points at which another can see or change shared state. `AsyncInjectIrq` is six actions: the early
gates with the PIC's answer, the claim of `g_AsyncContextWrite`, the suspend, the inspection with
rewrite and acknowledge, the resume, and the caller's accounting after it. The exec loop is the
audio and keyboard pump, the three cooperative deliveries, entering and leaving the guest
(`g_InExec`), and the service of what ended it.

The guest is a stack of frames (which handler, whether it is one of the host's stubs, the interrupt
flag it returns to, whether it has sent its EOI) and a live interrupt flag. Its actions are STI,
CLI, a DOS call, a port access, EOI, reading the scancode, the stubs' BOPs and IRET. The record
`session`, chosen at the start from `Sessions` and never changed, fixes what kind of guest it is and
whether the courier runs. `owed` and `due` are history variables: ticks latched and neither delivered
nor discarded, device interrupt raised and not delivered.

Ticks are lost on purpose in one place: `HostPitResyncCheck`, after an OUT to counter 0 with IRQ 0 in
service, empties the latch and clears the request bit. `ServiceIo` does so or not (the code asks
whether a reload has completed since), and takes the discarded ticks off `owed`. The test of the
in-service register, the exchange of the latch and the clearing of the request bit are one step; of
the three only the latch is anything a delivery tests.

Abstractions: one device line stands for all of them; the slave's lines, the protected-mode arm
of `AsyncInjectIrq`, the `qimode` experiments and mouse callbacks are left out; a handler that has
been in service for `IRQ0_ISR_TIMEOUT_MS` is a step (`HandlerStalls`) that can happen only while no
delivery attempt is under way, since attempts take microseconds; pause and throttling are left out.

### DosMemory and Arena

Guest memory is a function from paragraphs to what a paragraph reads as if taken for a header, so
stale headers stay in memory until overwritten, as in the program. `DosMcbAllocate`, `DosMcbFree`,
`DosMcbResize`, `DosMcbReserveTop` and `DosMcbCheckChain` are functions from memory to memory and
result; a walk is a recursive function or the set of blocks it comes to. `StartupBuildMemoryChain` reserves
DOS's own block at the top. `ExecBegin` is the whole of load-and-go: environment
copy, probe of the largest block, sizing by the MZ header, allocation, ownership, overwriting of
the paragraphs that the PSP and image occupy, and the parent's frame. `Terminate` frees the child's
program block, every block it still owns and then the recorded environment; `StayResident` resizes
and frees nothing. `GuestWrites` is a program overwriting its own data.

`Arena` is the promise: a set of blocks with owners, changed only by whole-block steps of the
running program. `DosMemory!ImplementsArena` maps the chain's allocated blocks to `Arena!blocks`.

Abstractions: a program frees and resizes only its own blocks and not the one it runs in
(AH=49h and AH=4Ah ask no one's leave: the code looks at no owner); sizes are a few paragraphs;
owner names, EXEC load-only and overlays, and the allocation strategy (AH=58h) are left out; a
program writes only in its own blocks.

### Keyboard

Every handler runs under `g_Lock`, so an action is a handler. `kbc` is `INPUT_STATE` with both queues;
bytes are named by what they mean to the BIOS (prefixes, Ctrl, NumLock and ScrollLock, an ordinary
key, replies; the three bytes of a streamed mouse packet, and the mouse's answers, a packet asked for
by EBh among them). `InputScanCodeAvailable` and `InputAuxAvailable`
decide which device may present; `ReadData` is IN 60h; `CommandWrite`, `ParameterWrite`,
`KeyboardWrite` and `AuxWrite` are the write handler by what the byte is taken for.
`VddInputBiosConsume` is the BIOS handler in one BOP, `VddInputBiosFetch` and `InterceptReturns` the
two halves when INT 15h AH=4Fh is hooked, between which anything may happen. The host side is key
down and up with their prefix sequences, typematic repeat, the release of modifiers at focus loss,
the poll and `Ps2MousePump`. `missed` (a byte dropped by a full queue, or never owed again to the
BIOS), `translated`, `refused` (a byte that the mouse's full queue did not take) and `eager` (the guest
wrote to the mouse with an earlier answer unread) are history.

`AuxAnswer` is `AuxDeviceWrite` with every command: those that answer with one byte and change no mode
(scaling, resend, an unknown byte) are `"other"`, and resolution is `"rate"`, which takes a parameter too.
`Ps2MousePump` streams a packet only into an empty queue; READ_DATA (EBh) puts one behind whatever the
queue holds, and the queue refuses single bytes. A guest that writes on without reading can therefore
have a packet cut, as with the real device's overrun; `MouseBytesKept` says that one which reads its
answers cannot. Left out: the translation tables, the BIOS ring and INT 16h, A20, INT 33h, the BIOS's
own use of the mouse (INT 15h AH=C2h) and the joystick.

### Pit, Rtc, GuestClock

`Pit` adds any number of clocks at a time (`VddPitAddClocks`) and lets the guest write control words,
count bytes, latches, read-backs and the gate in any order; `pitIrqs`, `pitWritten` and `pitGateRun`
are what the properties compare the code's fields with. A byte has two values, so a count has four.
Each access is one step, as under `PIT_GUARD`. Port 61h (`vdd_speaker.c:39-46`) calls the gate and output
functions without it, so a gate change that lands inside `VddPitAddClocks` on another thread is left out.

`Rtc` splits `StatusC |= x` into a load and a store and the guest's read into a load and a clear,
because `VddCmosAddClocks` holds `g_PitCs` and the port handler `g_Lock`. The two writes of Status B's
effects (SET, then the register) are separate steps as well.

`GuestClock` keeps `clkWant`, what each clock should read, with a calendar that knows only the length
of each month, and compares it with the code's day-count arithmetic on offsets. The guest sets dates
and times through DOS, the BIOS and the CMOS registers, with and without SET, and stores into the
tick count. Ending SET commits date and time in one step; in the code they are two calls, and a
midnight between them would move the date.

### Xms, Ems, DosHandles

`Xms` places blocks at addresses of the host's process and keeps every byte; `promised` is what each
block should hold. `DosXmsMove` copies byte by byte in the direction the code chooses.
The test of `UsedKb + kilobytes` against the total (`dos_xms.h:256`) is on unbounded numbers: its
32-bit sum, and a request so large that it wraps, is not modelled. `Int15MoveBlockAt` resolves linear
addresses through `DosExtMemClassify`. `Ems` keeps the copies in the windows apart from the backing
store, as the code does. The guest `"onePlace"` never shows a page in two windows; the guest
`"restores"` may do so by restoring a saved map.

`DosHandles` has the running program's table, the stack of its parents' (`DosHandlesPush`,
`DosHandlesPop`), the JFTs and the pseudo SFT indexes. `meant` is what each program put where. The guest
`"redirects"` edits its JFT as COMMAND.COM does, `"duplicates"` uses dup and dup2; children of the
former do not close their standard handles (section 4). No guest does both, so an edit that names the
index of a handle closed or duplicated over since is only partly exercised. The indexes are as many
as the host handles: the code forgets all of them when the table is full, which is not reached.

### WowTasks

A register context is the task whose stack it is on, how far that stack is used and the callback
frame it runs in. `Launch`, `LaunchedFirst`, `WaitForMsgAndEvent`, `GetMessageYields` and `Retire` are
the moments (A), (F), (D), (E) and (C) of the code's comments. `WowCallEnter` runs a window procedure
where the caller is or, through `WowSchedRetarget`, on the stack of the window's task. `SyncGivesUp`
unwinds a call the host waited for. Left out: a launch when no slot is free, current directories,
and what the host does with a callback's result.

## 3. Runs

| Run | Specification | Checks | Shows |
|---|---|---|---|
| `pic` | `MCPicDevice`, `MCPic.cfg` | `TypeOK`, `PollOffersHighest`, `NestingRespected`, `SlaveLockedOut` | 295 thousand states: the master in every mode and under every command, the slave polled and ended. |
| `irq_safe` | `MCIrqDelivery`, `MCIrqSafe.cfg` | `TypeOK`, `TickLatchExact`, `DeviceLatchExact`, `KeyLatchSound`, `NotReentered`, `EoiEndsOwnLine`, `SuspendInterlock` | 1.3 million states over three sessions: an ordinary guest that makes DOS calls; one whose timer and device handlers execute STI before their EOI, with the keyboard masked; one with the courier. |
| `irq_live` | `MCIrqDelivery`, `MCIrqLive.cfg` | `DeviceServed`, `ClockNeverStops` | Guests that spin without trapping: with handlers, with a timer handler that never sends an EOI, with no handlers. |
| `irq_stale_answer` | `MCIrqStaleAnswer.cfg` | `NotReentered` (violated) | With DOS calls, serviced without `g_Lock`, the PIC's answer can be stale when the suspend lands. |
| `irq_auto_eoi` | `MCIrqAutoEoi.cfg` | `TickLatchExact` (violated) | In the auto-EOI fallback one tick is delivered by both paths and the latch becomes negative. |
| `mem` | `MCMemory`, `MCMem.cfg` | `TypeOK`, `ChainIntact`, `AllocateExact`, `ResidentKept`, `BlocksSeparate`, `ExitGivesBack`, `ImplementsArena` | 22 thousand states over three sessions: the calls of one program; nested programs that free their environments; resident programs. And the promise itself, on three segments. |
| `mem_tsr_env` | `MCMemTsrEnv.cfg` | `ResidentKept` (violated) | A program that has freed its environment takes a resident program's with it. |
| `mem_com` | `MCMemCom.cfg` | `ChainIntact` (violated) | A `.COM` too large for its block is loaded over the chain. |
| `keyboard` | `MCKeyboard`, `MCKeyboard.cfg` | `NeverTranslatedTwice`, `NoStuckCtrl`, `MouseBytesKept`, `PresentedHeld`, `KeyAnnounced` | 278 thousand states: two keys (with repeats, Pause, Ctrl+Break, focus loss) and a guest that reads; one key, two mouse movements and two writes of the guest; three mouse movements and two commands to the mouse. |
| `machine` | `MCMachine`, `MCMachine.cfg` | timer: `IrqsMatchElapsed`, `CountsInForce`, `GatePauses`; clock chip: `FlagsReachReader`; clocks: `RtcReadsTrue`, `DosReadsTrue`; memory: `BlocksKeepContents`, `LockHolds`, `WritesSurvive`; handles: `HostHandlesExact`, `StandardHandlesReach`; tasks: `CallbacksLifo`, `StacksApart`, `CurrentFollows` | 660 thousand states, the union of seven parts. |
| `ems_restore` | `Ems`, `MCEmsRestore.cfg` | `WritesSurvive` (violated) | A restored map shows a page as it was before a write made through another window. |
| `wow_lifo` | `MCWowTasks`, `MCWowLifo.cfg` | `CallbacksLifo` (violated) | With two parents parked in callbacks, a third task's end resumes the outer one first. |

`EoiEndsOwnLine` and `NotReentered` are checked with the keyboard masked where handlers execute STI
early. `V86DeliverKeyboardIrq` honours only the mask (`host_exec.c:1778-1781`), so with keys such a
timer handler can be interrupted by a keyboard handler whose non-specific EOI ends IRQ 0.

`CallbacksLifo` holds in `machine` for at most two applications, and for tasks that end only when no
callback is in flight; in general it needs the condition `RoundRobinFits` of section 5. `WritesSurvive` holds
for guests that show a page in one place. `wow_lifo` and `ems_restore` show why.
`FlagsReachReader` excuses a flag raised between the two statements of the guest's read of Status C.

**Bounds.** Three or four lines per chip keep a line above, at and below the cascade; the code
treats all other lines alike. `IrqPendingMax` 2 is the least at which the latch can be neither
empty nor full (4 in the code); `KeyIrqMaxYield` 1 (3) and `IsrTimeoutsMax` 2 (3) still have a
value below the limit. Three frames on the guest's stack allow a handler in a DOS call in a
handler. `TickDebtMax` stops the exec loop from following a negative latch further down; it has
effect only in `irq_auto_eoi`. Memory of 14 paragraphs holds the start-up blocks and two nested
programs with free blocks between them (the least at which a grandchild runs); requests of 0, 1
and 2 paragraphs reach splits that leave nothing, one paragraph, and more.
`ScanCodeQueueSize` 7 holds a Pause sequence (six bytes) and overflows on the next key;
`AuxQueueSize` 8 holds a streamed packet and the longest answer, four bytes, and no more (64 in the
code); with 7 `MouseBytesKept` is violated, and two status requests in a row overflow 8. The timer
runs for six clocks with counts of at most four, so periods end, wrap and are reprogrammed half way; four guest accesses are a control word, two
bytes and one more. A day of eight units and a host clock of eleven passes a midnight, from the last
day of a century's year and from the day before a leap day. Three kilobytes of two bytes, two handles
and four calls reach a locked block's reallocation and an overlapping move; seven EMS calls are a
mapping, a store, a save, a reallocation and a restore with one to spare. Five handle calls with three
programs reach a grandchild that closes what its grandparent holds. Four tasks and three frames let
calls bounce between two applications while a third is parked.

**Deadlock** is checked in all but `machine` and `ems_restore`, whose guests have a number of calls and
stop when it is spent.

**Fairness** (`IrqDelivery!Fairness`). Weak fairness of each injecting thread inside its attempt:
these are host threads that wait for nothing there. Strong fairness of the pacer's `HOST_LOCK_TRY`
and of the exec thread's lock: the pacer repeats the attempt every few milliseconds, and the lock
is held for microseconds, so it is free at some of the attempts. Strong fairness of the exec
thread's and of the handler's steps: the thread is disabled whenever it is suspended, briefly, and
resumed. Nothing is assumed of the raisers, of STI or of port accesses. `HandlerStalls` is fair
because time passes. `Keyboard!KbFairness`: weak fairness of the host's poll (`HostKeyPresent`, which
the message loop and the pacer repeat) and of the end of a byte's transfer, which is time passing;
nothing is assumed of the guest.

## 4. Observations

Besides the findings in `PROJECT.json`, translation showed the following, which no run reports.

- `DosMcbResize` looks at one following free block only (`dos_mcb.h:426-432`) and its shrink leaves the
  tail unmerged (`:411`): after two shrinks, growing back fails and reports less than the contiguous
  room, where the comment at `:391` says "the largest size achievable".
- A flag that `VddCmosAddClocks` stores between the load and the clear of `CmosRead` (`vdd_cmos.c:406-408`)
  is wiped without having been returned.
- The alarm is compared with the clock once per accumulated second, at a phase fixed when it was
  enabled (`vdd_cmos.c:312`); with synchronisations half a second apart two comparisons can pass over
  the alarm's second.
- `DosJftExec` binds a redirected standard handle to its file and leaves its `StdOpen` bit set
  (`dos_int21.c:2493`): when the child closes the handle it is the console again, not free.
- A full scan code queue drops its oldest byte, which may be the announced one or a prefix
  (`vdd_input.c:655`); the keyboard's properties excuse behaviours in which that has happened.

## 5. Proofs

Eight modules hold the theorems; each extends the modules it is about. `SetFacts` (least and greatest
elements, well-founded recursion, the front and the end of a sequence) and `PicChipProofs` (what every
operator of `PicChip` does to a chip) hold the lemmas the others share. All theorems are for every
value of the constants that the named assumptions of the modules admit: `LinesAssumption`,
`VectorAssumption`, `BoundsAssumption`, `DeliveryAssumption`, `ArenaAssumption`, `MemoryAssumption`,
`RtcAssumption`, `PitAssumption`, `KeyboardAssumption`, `XmsAssumption`, `EmsAssumption`,
`HandlesAssumption`, `WowAssumption`, `ClockAssumption`, `ClockInputs`. Each of them says no more than that
sizes and fields are numbers, that special values differ from ordinary ones, that a queue holds what is
put into it in one piece, and that the host's clock starts at a date of the calendar in a day of whole
ticks; TLC evaluates them on every run. All invariants and action properties of the passing runs are
proved, some under hypotheses given below; what is left are the liveness properties `DeviceServed`,
`ClockNeverStops` and `KeyAnnounced`.

### PicProofs: the interrupt controllers

- `PicTypeCorrect`: one lemma per operator; inductive as it stands.
- `PicPollOffersHighest`: the code polls only the highest-ranking unmasked request. Ranks are distinct
  numbers below `LinesPerChip` and the blocking rule is monotone in rank, so if the candidate is
  blocked every other request is too.
- `PicNestingRespected` and `PicSlaveLockedOut`: action properties from the type invariant, one step
  per action; the cascade into IR2 is the case that needs work.

### IrqProofs: delivery

`ControlInv` holds in every session: who may be at which step with which interrupt (`ThreadsInv`), that
`g_Lock` is held exactly between a thread's lock and unlock (`LockInv`), that `g_AsyncContextWrite` is
set exactly while one thread holds the guest (`ContextInv`), and how far two deliverers can drive
the latches (`LatchInv`). From it follow `DeliveryTypeCorrect` and `SuspendInterlocked`, with the
courier and any handlers.

`TicksExact`, `DevicesExact`, `KeysSound` and `NeverReentered` are stated for two kinds of session, which
between them cover every session of `irq_safe`:

- `KeepsInterruptsOff`: handlers execute STI only after their EOI and do send one; any masks, DOS calls
  and stalls, with or without the courier. The invariant adds `StackInv` (an unfinished handler runs with
  interrupts off, below nothing but DOS calls that return to it), `AttemptInv` (a thread about to place an
  interrupt still has it on its latch, or will find the guest in an unfinished handler) and `ExactInv`.
  With the courier the tick latch alone is not exact, as in `TickLatchExact`.
- `NestsByRank`: handlers may execute STI before their EOI, but the guest makes no DOS calls, masks its
  keyboard and does not stall, and there is no courier. Here an attempt relies on the PIC's answer, which
  `AsyncInjectIrq` has before it stops the guest. `NestInv` says why that answer still holds then: past its
  first test the thread holds `g_Lock` and has seen the guest running, and the exec thread cannot get from
  there to an EOI without `g_Lock` (`IsInside`, `InsideHolds`), so the lines and latches it saw are as they
  were (`NestedAttempt`). `NestedFrames` says that only the timer's handler is ever above an unfinished
  one, the device's, and that the master has in service the unfinished ones' lines.

The hypotheses are needed: an early STI with DOS calls, which are serviced without `g_Lock`, is the finding
`irq_stale_answer`; with the keyboard unmasked it is observed below the table of section 3; a timer handler
that sends no EOI is `irq_auto_eoi`. `EoiEndsOwn` also needs a session without stalls, since the safety net
ends a line on another handler's behalf; `ServiceInv` says that the master then has in service the line
of the unfinished handler and no other.

### DeviceProofs: clock chip, timer, keyboard

- `RtcFlagsReachReader`: a flag owed to the guest stands, or the read in progress has it, or it came
  too late for that read (`RtcOwedInv`), for all interleavings of the two threads.
- `PitCorrect`: `PitInv`, with `PitIrqsExact`, `PitCountsAgree` and `PitGateExact` as its consequences. The
  inductive part says, for each kind of mode, where the accumulator, the armed one-shot and the
  number of interrupts are for the clocks since the load (a quotient and a remainder of the reload);
  `PitAdd`'s arithmetic is proved for any number of clocks at once.
- `KbInvariant`: unless a byte was lost, there is a run of BIOS views that begins with what the BIOS has
  translated and what it is owed, goes through the bytes that wait in the queue and ends with the keys
  that the host holds down (`InStep`); each key event is proved to append bytes that take every such
  run to the new set of keys. `CtrlNeverSticks` is the case of an empty queue. `Sound` relates the output
  buffer, the announced source and the queues; it gives `TranslatedOnce` and the action property
  `AnnouncedBytesStay`. Its part `HasRoom` says of a guest that reads its answers that behind the first
  three bytes of the mouse's queue there is nothing but one answer; hence `MouseLosesNothing`.

### MemoryProofs: conventional memory

About `Arena`, `ArenaBlocksSeparate`: blocks stay apart, for any steps the promise allows.

About `DosMemory`, for any size of memory and any requests and programs. `Good(m)` says of a memory that
its headers are typed and that a set of paragraphs tiles it; the walk of the code is shown to be that
set, and the validator to accept it, by a least counterexample among the paragraphs (the walks are
recursive functions, whose existence `SetFacts` gives). Allocation, merging, splitting, freeing, resizing,
the reservation at the top, freeing by owner and EXEC are each shown to keep `Good` and to do to the set of
blocks what their names say (`AllocIs`, `FreeIs`, `ResizeIs`, `ReserveIs`, `FreeOwnedIs`, `ExecIs`).

- `ChainInv`: memory is `Good`, every running program has the block it runs in, and no program runs where a
  later one has its environment. It is inductive (`ChainStep`) when every program has an MZ
  header (`LoadsFit`): a larger `.COM` is loaded over the chain, which is the finding of `mem_com`. Hence
  `ChainStaysIntact`, `MemoryTypeCorrect` and `AllocationsExact`. For the last, the rooms that merging sees
  between two walks are exactly the gaps between allocated blocks (`RoomsAreGaps`, `GapsAreRooms`).
- `TidyInv`: every block is DOS's or of a program that has its own block, so that a fresh segment is
  no one's owner; what a frame saved is there and no later program's, and all else is a later
  program's or resident; a program's environment is its own. It is inductive (`TidyStep`) in sessions
  that do not have both programs that free their environment and programs that stay
  resident (`KeepsOrFrees`): with both, the finding of `mem_tsr_env` breaks it. Hence `ResidentsStay`,
  `ExitsGiveBack` and the refinement `PromiseKept`: every step of the chain is a step of `Arena` or
  changes no block, so that what is proved of `Arena` holds of the chain.

### ServiceProofs: XMS, EMS and the clocks

- `XmsLocksHold` and `XmsBlocksKeep`: buffers of the host are apart (`BlocksApart`), an address told and not
  given back is counted as a lock at its block (`ToldInv`), and every cell holds what was last put there,
  overlapping moves in both directions included.
- `EmsWritesSurvive`, for the guest that shows a page in one window (`emsGuest = "onePlace"`): the contents are
  in the windows and, for a page that none shows, in the store (`Settled`). The finding of `ems_restore`
  is what happens otherwise.
- `ClocksCorrect`, and from it `RtcKeepsTime` and `DosKeepsTime`, for dates of any year. A date is split as the
  code's divisions split it, into eras, centuries, leap cycles, years that begin in March and days
  (`EraParts`, `DayExists`); on those parts every division of `DosClockDays` and `DosClockUnpack` has a known
  result (`DaysAre`, `UnpackIs`), so the two are each other's inverse (`DaysOfDate`, `DateOfDays`) and the
  calendar's next day has the next count (`NextDayCounts`), from which a unit of time adds one to what a
  clock is packed into (`NextReadingCounts`). `ClkInv` says that each offset is the one of what its clock
  should read (`Reads`), and of a store into the tick count that DOS has yet to notice that the tick in
  which it was made began on the day it was made (`StoreInv`): that is what lets the division of
  `DosClockFollowTicks` find the date again after any number of midnights (`StoreDay`, `FollowIs`). A first store
  within a tick of midnight is excused, as in the model: the code cannot tell its day. The `\div` of
  TLA+ rounds down and C's towards zero; from March of year 0 on the two agree.

### ProgramProofs: handles and Win16 tasks

- `HandlesStayExact` and `StandardHandlesServe` assume `NestsWithin`, a saved table for each nested program
  (beyond `HandleStackDepth` the code saves none, and the exit of a child is no longer undone), and
  `IndexesSuffice`, an SFT index for each host handle (the code forgets all of them when they run out). The
  invariant says how a table serves what its program meant, with a redirection taken back (`Serves`), and
  that a handle in two entries is a parent's (`HostInv`). The second theorem is for guests that do
  not close a redirected standard handle, as in section 4.
- `CallbacksStayLifo`, `StacksStayApart` and `CurrentStaysRight` hold for any number of tasks in behaviours that
  satisfy `RoundRobinFits`: the round robin of moments C and D resumes a task that holds a frame only
  at the depth it left. That is the finding of `wow_lifo`; the theorems say that it is the only way,
  and that A, D's wait for one event, E, F and unwinding see to the order themselves. `WowInv` has a parked
  task once (`ParkedOnce`), a frame in one context (`FramesApart`), no switch under a
  borrowed stack (`FramesLocked`) and the order of what is saved on one stack (`SavedInOrder`).

### Only model-checked

- Liveness: `DeviceServed`, `ClockNeverStops`, `KeyAnnounced`. The prover handles neither fairness nor
  ENABLED.

## 6. Not modelled

Instruction interpretation, video, synthesis, presentation, the Win16 API thunks, the user
interface, installation and logging: data transformation or I/O with little state of their own.
The remaining components are planned.

## 7. Plan

1. Devices with phases: the Sound Blaster's block completion and its DMA channel, the floppy
   controller, the UART's interrupt identification.
2. Composition: the keyboard controller and the timer as the sources of `IrqDelivery`'s raises.
3. DOS processes: EXEC load-only and overlays, the guest's SFT mirror. DPMI mode switches.
