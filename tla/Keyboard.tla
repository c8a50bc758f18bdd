------------------------------ MODULE Keyboard ------------------------------
(***************************************************************************)
(* The 8042 keyboard controller, the keyboard and the PS/2 mouse behind it *)
(* (vdd_input.c, vdd_aux.c), the host threads that feed it (host_input.c,  *)
(* host_mouse.c) and the BIOS INT 09h handler that drains it               *)
(* (V86ServiceKeyboardBop).  Every handler runs under g_Lock, so one       *)
(* action is one handler.                                                  *)
(*                                                                         *)
(* Bytes are named for what they mean to the BIOS: the two prefixes, Ctrl, *)
(* NumLock and ScrollLock up and down, an ordinary key, a reply of the     *)
(* keyboard.  The mouse's bytes are the three of a streamed packet, and of *)
(* its answers to a command a reply and the three of a packet asked for.   *)
(* Time is the one bit InputScanCodeAvailable asks of it: has the transfer *)
(* of the next byte from the keyboard (ScanCodeHoldUntil) finished?        *)
(***************************************************************************)
EXTENDS Naturals, Sequences

CONSTANTS ScanCodeQueueSize,   \* INPUT_SCANCODE_QUEUE_SIZE: one slot stays empty
          AuxQueueSize,        \* AUX_QUEUE_SIZE: one slot stays empty
          KbBudgets            \* bounds: how many key events, mouse movements and
                               \* guest writes a behaviour has

ASSUME KeyboardAssumption == /\ ScanCodeQueueSize \in Nat \ {0, 1}
                             /\ AuxQueueSize \in Nat \ 0 .. 7
                             /\ KbBudgets \subseteq [keys : Nat, mouse : Nat, writes : Nat]

VARIABLES kbc,          \* INPUT_STATE: the controller and both queues
          kbAux,        \* AUX_DEVICE without its queue
          kbBda,        \* the BIOS's view: prefixes, Ctrl flags, pause flag
          kbFetched,    \* a byte taken by VddInputBiosFetch, with INT 15h AH=4Fh
          kbDown,       \* g_ModifiersDown: the Ctrl keys the host has pressed
          kbHeld,       \* the key the host is repeating (g_TypematicOn, ...)
          kbBudget      \* bounds: events left
kbVars == <<kbc, kbAux, kbBda, kbFetched, kbDown, kbHeld, kbBudget>>

NoByte == "none"
ScanCodes == {"E0", "E1", "CtrlDn", "CtrlUp", "NumDn", "NumUp",
              "ScrDn", "ScrUp", "KeyDn", "KeyUp", "Ack", "Id"}
Answers == {"R", "D1", "D2", "D3"}
AuxBytes == {"P1", "P2", "P3"} \cup Answers
Pending == {"none", "command byte", "aux", "buffer", "output port"}
CtrlKeys == {"left", "right"}

-----------------------------------------------------------------------------
(* The output buffer: who may put a byte in it, and when. *)

InputScanCodeAvailable_AuxIgnored(k) ==   \* Seeded fault
  /\ k.queue # << >>
  /\ k.keyboardOff => k.irqUp
  /\ ~k.hold

InputScanCodeAvailable(k) ==
  /\ k.queue # << >>
  /\ k.keyboardOff => k.irqUp
  /\ k.auxUp => k.irqUp
  /\ ~k.hold

InputAuxAvailable(k) ==
  /\ k.auxQueue # << >>
  /\ \/ k.auxUp
     \/ ~k.auxOff /\ ~k.irqUp /\ ~InputScanCodeAvailable(k)

InputAuxPoll(k) ==
  IF k.auxUp \/ ~InputAuxAvailable(k) THEN k ELSE [k EXCEPT !.auxUp = TRUE]

\* A byte the guest read and the BIOS was still owed is forgotten here: the
\* field "missed" is history and says that the BIOS has not seen every byte.
InputKeyboardPoll(k) ==
  IF k.irqUp \/ ~InputScanCodeAvailable(k) THEN k
  ELSE [k EXCEPT !.irqUp = TRUE, !.owed = FALSE, !.missed = @ \/ k.owed]

VddInputPoll(k) == InputAuxPoll(InputKeyboardPoll(k))

InputScanCodePop(k) ==
  [k EXCEPT !.queue = Tail(@), !.last = Head(k.queue), !.irqUp = FALSE, !.hold = TRUE]

IsQueueFull(k) == Len(k.queue) = ScanCodeQueueSize - 1

QueueByte(k, b) ==
  [k EXCEPT !.queue = Append(IF IsQueueFull(k) THEN Tail(@) ELSE @, b),
            !.missed = @ \/ IsQueueFull(k)]

VddInputPushScanCode(k, b) ==
  IF k.queue = << >> THEN VddInputPoll(QueueByte(k, b)) ELSE QueueByte(k, b)

PushBytes(k, bytes) ==
  LET pushed[n \in 0 .. Len(bytes)] ==
        IF n = 0 THEN k ELSE VddInputPushScanCode(pushed[n - 1], bytes[n])
  IN  pushed[Len(bytes)]

\* The mouse's queue refuses the newest byte; "refused" is history.
AuxPush(k, b) ==
  IF Len(k.auxQueue) = AuxQueueSize - 1
  THEN [k EXCEPT !.refused = TRUE]
  ELSE [k EXCEPT !.auxQueue = Append(@, b)]

AuxPushAll(k, bytes) ==
  LET pushed[n \in 0 .. Len(bytes)] == IF n = 0 THEN k ELSE AuxPush(pushed[n - 1], bytes[n])
  IN  pushed[Len(bytes)]

Packet == <<"P1", "P2", "P3">>

-----------------------------------------------------------------------------
(* The host's threads. *)

\* What the keyboard sends for one key event (VddInputHostKeyBytes and
\* HostKeyScancode).  Pause and Ctrl+Break send nothing when released.
HostKeyBytes(event) ==
  CASE event = "pause"       -> <<"E1", "CtrlDn", "NumDn", "E1", "CtrlUp", "NumUp">>
    [] event = "break"       -> <<"E0", "ScrDn", "E0", "ScrUp">>
    [] event = "left down"   -> <<"CtrlDn">>
    [] event = "left up"     -> <<"CtrlUp">>
    [] event = "right down"  -> <<"E0", "CtrlDn">>
    [] event = "right up"    -> <<"E0", "CtrlUp">>
    [] event = "key down"    -> <<"KeyDn">>
    [] event = "key up"      -> <<"KeyUp">>

DownEvent(c) == IF c = "left" THEN "left down" ELSE "right down"
UpEvent(c) == IF c = "left" THEN "left up" ELSE "right up"

\* KeyPushMake: a special key stops the repeat and starts none.
KeyPushMake ==
  /\ kbBudget.keys > 0
  /\ kbBudget' = [kbBudget EXCEPT !.keys = @ - 1]
  /\ \/ \E s \in {"pause", "break"} :
          /\ kbc' = PushBytes(kbc, HostKeyBytes(s))
          /\ kbHeld' = NoByte
          /\ UNCHANGED kbDown
     \/ \E c \in CtrlKeys \ kbDown :
          /\ kbc' = PushBytes(kbc, HostKeyBytes(DownEvent(c)))
          /\ kbHeld' = c
          /\ kbDown' = kbDown \cup {c}
     \/ /\ kbc' = PushBytes(kbc, HostKeyBytes("key down"))
        /\ kbHeld' = "key"
        /\ UNCHANGED kbDown
  /\ UNCHANGED <<kbAux, kbBda, kbFetched>>

\* KeyPushBreak: the repeat of that key stops first.
KeyPushBreak ==
  /\ \/ \E c \in kbDown :
          /\ kbc' = PushBytes(kbc, HostKeyBytes(UpEvent(c)))
          /\ kbDown' = kbDown \ {c}
          /\ kbHeld' = IF kbHeld = c THEN NoByte ELSE kbHeld
     \/ /\ kbHeld = "key"
        /\ kbc' = PushBytes(kbc, HostKeyBytes("key up"))
        /\ kbHeld' = NoByte
        /\ UNCHANGED kbDown
  /\ UNCHANGED <<kbAux, kbBda, kbFetched, kbBudget>>

HostKeyTypematic ==
  /\ kbHeld # NoByte
  /\ kbBudget.keys > 0
  /\ kbBudget' = [kbBudget EXCEPT !.keys = @ - 1]
  /\ kbc' = PushBytes(kbc, HostKeyBytes(IF kbHeld = "key" THEN "key down" ELSE DownEvent(kbHeld)))
  /\ UNCHANGED <<kbAux, kbBda, kbFetched, kbDown, kbHeld>>

\* The window loses the focus while keys are down.
HostReleaseModifiers ==
  /\ kbDown # {}
  /\ kbc' = PushBytes(kbc, (IF "left" \in kbDown THEN HostKeyBytes("left up") ELSE << >>) \o
                           (IF "right" \in kbDown THEN HostKeyBytes("right up") ELSE << >>))
  /\ kbHeld' = IF kbHeld \in kbDown THEN NoByte ELSE kbHeld
  /\ kbDown' = {}
  /\ UNCHANGED <<kbAux, kbBda, kbFetched, kbBudget>>

HostKeyPresent_WhenNotOwed ==   \* Seeded fault
  /\ kbc.queue # << >>
  /\ ~kbc.irqUp /\ ~kbc.owed
  /\ kbc' = VddInputPoll(kbc)
  /\ UNCHANGED <<kbAux, kbBda, kbFetched, kbDown, kbHeld, kbBudget>>

\* The exec loop and the UI timer look without the lock and then poll under it.
HostKeyPresent ==
  /\ kbc.queue # << >>
  /\ ~kbc.irqUp
  /\ kbc' = VddInputPoll(kbc)
  /\ UNCHANGED <<kbAux, kbBda, kbFetched, kbDown, kbHeld, kbBudget>>

\* The keyboard has shifted the next byte into the controller.
TransferDone ==
  /\ kbc.hold
  /\ kbc' = [kbc EXCEPT !.hold = FALSE]
  /\ UNCHANGED <<kbAux, kbBda, kbFetched, kbDown, kbHeld, kbBudget>>

AuxIsStreaming(a) == a.reporting /\ ~a.remote /\ ~a.wrap

HostMouseMoves_NoWait ==   \* Seeded fault
  /\ kbBudget.mouse > 0
  /\ AuxIsStreaming(kbAux)
  /\ kbBudget' = [kbBudget EXCEPT !.mouse = @ - 1]
  /\ kbc' = InputAuxPoll(AuxPushAll(kbc, Packet))
  /\ UNCHANGED <<kbAux, kbBda, kbFetched, kbDown, kbHeld>>

\* Ps2MousePump: no new packet while the last one is still being read.
HostMouseMoves ==
  /\ kbBudget.mouse > 0
  /\ AuxIsStreaming(kbAux)
  /\ kbc.auxQueue = << >>
  /\ kbBudget' = [kbBudget EXCEPT !.mouse = @ - 1]
  /\ kbc' = InputAuxPoll(AuxPushAll(kbc, Packet))
  /\ UNCHANGED <<kbAux, kbBda, kbFetched, kbDown, kbHeld>>

-----------------------------------------------------------------------------
(* The guest's port accesses.  Each is serviced under g_Lock. *)

\* IN 64h: which byte the next IN 60h will return, as the status byte says it.
StatusSource(k) ==
  CASE k.reply                                             -> "reply"
    [] ~k.reply /\ InputScanCodeAvailable(k)               -> "keyboard"
    [] ~k.reply /\ ~InputScanCodeAvailable(k) /\ InputAuxAvailable(k) -> "aux"
    [] OTHER                                               -> "none"

\* IN 60h: a controller reply first, then the mouse's byte if the keyboard's is
\* not there, then the keyboard's; otherwise the last byte again.
ReadData(k) ==
  CASE k.reply -> [k EXCEPT !.reply = FALSE]
    [] ~k.reply /\ ~InputScanCodeAvailable(k) /\ InputAuxAvailable(k) ->
         VddInputPoll([k EXCEPT !.auxQueue = Tail(@), !.auxUp = FALSE])
    [] ~k.reply /\ InputScanCodeAvailable(k) ->
         VddInputPoll([InputScanCodePop(k) EXCEPT !.owed = TRUE, !.missed = @ \/ k.owed,
                                                  !.translated = FALSE])
    [] OTHER -> k

InputKeyboardPortIn ==
  /\ kbc' = ReadData(kbc)
  /\ UNCHANGED <<kbAux, kbBda, kbFetched, kbDown, kbHeld, kbBudget>>

\* OUT 64h.  A command drops the parameter an earlier one was waiting for.
ControllerCommand(k, c) ==
  LET k0 == [k EXCEPT !.command = "none"]
  IN  CASE c = "self test"    -> [k0 EXCEPT !.reply = TRUE]
        [] c = "keyboard off" -> [k0 EXCEPT !.keyboardOff = TRUE]
        [] c = "keyboard on"  -> VddInputPoll([k0 EXCEPT !.keyboardOff = FALSE])
        [] c = "aux off"      -> [k0 EXCEPT !.auxOff = TRUE]
        [] c = "aux on"       -> InputAuxPoll([k0 EXCEPT !.auxOff = FALSE])
        [] c \in Pending      -> [k0 EXCEPT !.command = c]

GuestWritesPort ==
  /\ kbBudget.writes > 0
  /\ kbBudget' = [kbBudget EXCEPT !.writes = @ - 1]

CommandWrite ==
  \E c \in {"self test", "keyboard off", "keyboard on", "aux off", "aux on",
            "command byte", "aux", "buffer", "output port"} :
    /\ GuestWritesPort
    /\ kbc' = ControllerCommand(kbc, c)
    /\ UNCHANGED <<kbAux, kbBda, kbFetched, kbDown, kbHeld>>

\* OUT 60h as the parameter of 60h, D1h or D2h.
ParameterWrite ==
  /\ \/ /\ kbc.command = "command byte"
        /\ \E kOff, aOff \in BOOLEAN :
             kbc' = VddInputPoll([kbc EXCEPT !.command = "none", !.keyboardOff = kOff, !.auxOff = aOff])
     \/ /\ kbc.command = "buffer"
        /\ kbc' = VddInputPushScanCode([kbc EXCEPT !.command = "none"], "KeyDn")
     \/ /\ kbc.command = "output port"
        /\ kbc' = [kbc EXCEPT !.command = "none"]
  /\ GuestWritesPort
  /\ UNCHANGED <<kbAux, kbBda, kbFetched, kbDown, kbHeld>>

\* OUT 60h with no command pending is a byte for the keyboard, which it also
\* switches on; commands with a parameter (EDh, F0h, F3h) acknowledge both bytes.
KeyboardWrite ==
  /\ kbc.command = "none"
  /\ \E c \in {"with parameter", "identify", "reset", "other"} :
       LET k0 == [kbc EXCEPT !.keyboardOff = FALSE]
       IN  kbc' = CASE k0.expects -> VddInputPushScanCode([k0 EXCEPT !.expects = FALSE], "Ack")
                    [] ~k0.expects /\ c = "with parameter" ->
                         VddInputPushScanCode([k0 EXCEPT !.expects = TRUE], "Ack")
                    [] ~k0.expects /\ c = "identify" -> PushBytes(k0, <<"Ack", "Id", "KeyDn">>)
                    [] ~k0.expects /\ c = "reset" -> PushBytes(k0, <<"Ack", "Id">>)
                    [] ~k0.expects /\ c = "other" -> VddInputPushScanCode(k0, "Ack")
  /\ GuestWritesPort
  /\ UNCHANGED <<kbAux, kbBda, kbFetched, kbDown, kbHeld>>

\* AuxDeviceWrite: the mouse's mode after a command, and what it answers.  Read
\* data puts a packet behind whatever the queue holds; "other" is a resend, a
\* scaling or no command of the mouse.
AuxCommands == {"reset", "defaults", "enable", "disable", "rate", "identify", "status",
                "remote", "stream", "read data", "wrap", "unwrap", "other"}

AuxMode(a, c) ==
  CASE c = "reset"    -> [a EXCEPT !.reporting = FALSE, !.remote = FALSE, !.wrap = FALSE]
    [] c = "defaults" -> [a EXCEPT !.reporting = FALSE, !.remote = FALSE]
    [] c = "enable"   -> [a EXCEPT !.reporting = TRUE]
    [] c = "disable"  -> [a EXCEPT !.reporting = FALSE]
    [] c = "rate"     -> [a EXCEPT !.expects = TRUE]
    [] c = "remote"   -> [a EXCEPT !.remote = TRUE]
    [] c = "stream"   -> [a EXCEPT !.remote = FALSE]
    [] c = "wrap"     -> [a EXCEPT !.wrap = TRUE]
    [] c = "unwrap"   -> [a EXCEPT !.wrap = FALSE]
    [] OTHER          -> a

AuxReplies(c) ==
  CASE c = "reset"     -> <<"R", "R", "R">>
    [] c = "identify"  -> <<"R", "R">>
    [] c = "status"    -> <<"R", "R", "R", "R">>
    [] c = "read data" -> <<"R", "D1", "D2", "D3">>
    [] OTHER           -> <<"R">>

AuxAnswer(a, c) ==
  IF a.wrap /\ c \notin {"unwrap", "reset"} THEN <<a, <<"R">> >>
  ELSE IF a.expects THEN <<[a EXCEPT !.expects = FALSE], <<"R">> >>
  ELSE <<AuxMode(a, c), AuxReplies(c)>>

AnswerUnread(k) == \E i \in 1 .. Len(k.auxQueue) : k.auxQueue[i] \in Answers

\* "eager" is history: the guest wrote to the mouse before it had read the
\* answer to what it wrote before.
AuxWrite ==
  /\ kbc.command = "aux"
  /\ \E c \in AuxCommands : \E answer \in {AuxAnswer(kbAux, c)} :
       /\ kbAux' = answer[1]
       /\ kbc' = InputAuxPoll(AuxPushAll([kbc EXCEPT !.command = "none",
                                                     !.eager = @ \/ AnswerUnread(kbc)], answer[2]))
  /\ GuestWritesPort
  /\ UNCHANGED <<kbBda, kbFetched, kbDown, kbHeld>>

-----------------------------------------------------------------------------
(* The BIOS's INT 09h. *)

\* InputBiosTranslate, for Ctrl, Pause, Ctrl+Break and what does neither.
AfterE1_NotCounted(b) == [b EXCEPT !.ext = FALSE]   \* Seeded fault
AfterE1(b) == [b EXCEPT !.ext = FALSE, !.e1 = 2]

MakeCodes == {"CtrlDn", "NumDn", "ScrDn", "KeyDn"}
Ctrl(b) == b.left \/ b.right

InputBiosTranslate(b, byte) ==
  LET plain == [b EXCEPT !.ext = FALSE]
  IN  CASE byte = "Ack" -> b
        [] byte = "E0"  -> [b EXCEPT !.ext = TRUE]
        [] byte = "E1"  -> AfterE1(b)
        [] byte \notin {"Ack", "E0", "E1"} /\ b.e1 > 0 ->
             [plain EXCEPT !.e1 = @ - 1,
                           !.pause = @ \/ (b.e1 = 1 /\ byte \in MakeCodes)]
        [] b.e1 = 0 /\ byte \in {"CtrlDn", "CtrlUp"} ->
             IF b.ext THEN [plain EXCEPT !.right = byte = "CtrlDn"]
                      ELSE [plain EXCEPT !.left = byte = "CtrlDn"]
        [] b.e1 = 0 /\ byte = "NumDn" -> [plain EXCEPT !.pause = @ \/ (~b.ext /\ Ctrl(b))]
        [] b.e1 = 0 /\ byte = "KeyDn" -> [plain EXCEPT !.pause = FALSE]
        [] b.e1 = 0 /\ byte \in {"NumUp", "ScrDn", "ScrUp", "KeyUp", "Id"} -> plain

BiosFetch_OwedKept(k) ==   \* Seeded fault
  IF k.owed THEN [k EXCEPT !.translated = TRUE] ELSE VddInputPoll([InputScanCodePop(k) EXCEPT !.translated = TRUE])

\* VddInputBiosFetch: the byte a hook has read is still the BIOS's.
BiosFetch(k) ==
  IF k.owed THEN [k EXCEPT !.owed = FALSE, !.translated = TRUE]
            ELSE VddInputPoll([InputScanCodePop(k) EXCEPT !.translated = TRUE])

CanFetch(k) == k.owed \/ InputScanCodeAvailable(k)
FetchedByte(k) == IF k.owed THEN k.last ELSE Head(k.queue)

\* Nobody has hooked INT 15h: fetch and translate in one.
VddInputBiosConsume ==
  /\ kbFetched = NoByte
  /\ CanFetch(kbc)
  /\ kbBda' = InputBiosTranslate(kbBda, FetchedByte(kbc))
  /\ kbc' = BiosFetch(kbc)
  /\ UNCHANGED <<kbAux, kbFetched, kbDown, kbHeld, kbBudget>>

\* INT 15h AH=4Fh is hooked: the guest runs between the two halves.
VddInputBiosFetch ==
  /\ kbFetched = NoByte
  /\ CanFetch(kbc)
  /\ kbFetched' = FetchedByte(kbc)
  /\ kbc' = BiosFetch(kbc)
  /\ UNCHANGED <<kbAux, kbBda, kbDown, kbHeld, kbBudget>>

\* The hook lets the byte through, or swallows it.
InterceptReturns ==
  /\ kbFetched # NoByte
  /\ kbFetched' = NoByte
  /\ \/ kbBda' = InputBiosTranslate(kbBda, kbFetched) /\ UNCHANGED kbc
     \/ kbc' = [kbc EXCEPT !.missed = TRUE] /\ UNCHANGED kbBda
  /\ UNCHANGED <<kbAux, kbDown, kbHeld, kbBudget>>

KbInit ==
  /\ kbc = [queue |-> << >>, last |-> NoByte, irqUp |-> FALSE, hold |-> FALSE, owed |-> FALSE,
            auxQueue |-> << >>, auxUp |-> FALSE, keyboardOff |-> FALSE, auxOff |-> FALSE,
            command |-> "none", reply |-> FALSE, expects |-> FALSE,
            missed |-> FALSE, refused |-> FALSE, eager |-> FALSE, translated |-> TRUE]
  /\ kbAux = [reporting |-> FALSE, remote |-> FALSE, wrap |-> FALSE, expects |-> FALSE]
  /\ kbBda = [ext |-> FALSE, e1 |-> 0, left |-> FALSE, right |-> FALSE, pause |-> FALSE]
  /\ kbFetched = NoByte
  /\ kbDown = {}
  /\ kbHeld = NoByte
  /\ kbBudget \in KbBudgets

HostStepKb ==
  \/ KeyPushMake
  \/ KeyPushBreak
  \/ HostKeyTypematic
  \/ HostReleaseModifiers
  \/ HostKeyPresent
  \/ TransferDone
  \/ HostMouseMoves

GuestStepKb ==
  \/ InputKeyboardPortIn
  \/ CommandWrite
  \/ ParameterWrite
  \/ KeyboardWrite
  \/ AuxWrite
  \/ VddInputBiosConsume
  \/ VddInputBiosFetch
  \/ InterceptReturns

KbNext == HostStepKb \/ GuestStepKb

KbSpec == KbInit /\ [][KbNext]_kbVars

-----------------------------------------------------------------------------
(* Properties. *)

\* "The next byte is not presented until the guest reads port 0x60": once a byte is
\* announced no step of the host, which may come between the guest's IN 64h and its
\* IN 60h, changes which byte that IN 60h will return, unless the queue overflows.
PresentedHeld ==
  [][HostStepKb =>
       /\ kbc.auxUp => StatusSource(kbc') = StatusSource(kbc) /\ Head(kbc'.auxQueue) = Head(kbc.auxQueue)
       /\ kbc.irqUp => \/ StatusSource(kbc') = StatusSource(kbc) /\ Head(kbc'.queue) = Head(kbc.queue)
                       \/ kbc'.missed]_kbVars

\* A byte that a hook read from port 60h is translated by the BIOS at most once,
\* however often either of them reads it (vdd_input.h: BiosScanCodesOwed).
NeverTranslatedTwice == kbc.owed => ~kbc.translated

\* No stuck Ctrl: when the BIOS has seen every byte the keyboard sent, its Ctrl flags are
\* the keys the host has down, whatever Pause, Ctrl+Break, repeats, replies or a loss of
\* the focus came between.
NoStuckCtrl ==
  (/\ ~kbc.missed /\ ~kbc.owed
   /\ kbc.queue = << >> /\ kbFetched = NoByte)
    => /\ kbBda.left = ("left" \in kbDown)
       /\ kbBda.right = ("right" \in kbDown)
       /\ ~kbBda.ext /\ kbBda.e1 = 0

\* The mouse loses no byte to a driver that reads one answer before it writes the next
\* command, wherever packets are streamed in between and whether it asks for one (EBh,
\* which looks at nothing in the queue) while another is unread: a driver that missed one
\* byte of three would misread every packet after it.
MouseBytesKept == kbc.refused => kbc.eager

\* A queued scan code is announced, unless the guest has switched the keyboard off or
\* leaves a mouse byte unread: a push into a queue that is not empty announces nothing,
\* and relies on the host's poll.
KeyAnnounced ==
  (kbc.queue # << >>) ~> (kbc.irqUp \/ kbc.queue = << >> \/ kbc.keyboardOff \/ kbc.auxUp)

(* The host polls while it runs, and a transfer takes a few milliseconds.    *)
KbFairness == WF_kbVars(HostKeyPresent) /\ WF_kbVars(TransferDone)

KbFairSpec == KbSpec /\ KbFairness
=============================================================================
