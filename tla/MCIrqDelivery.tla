--------------------------- MODULE MCIrqDelivery ---------------------------
(* Sessions for TLC: the timer, the keyboard and IRQ 3 of a four-line       *)
(* master whose cascade line is 2.                                          *)
EXTENDS IrqDelivery

AllLines == {Timer, Keyboard, Device}

(* Every line hooked by handlers that enable interrupts after their EOI, in *)
(* a guest that makes DOS calls.                                            *)
Ordinary ==
    [courier |-> FALSE, unmasked |-> AllLines, hooked |-> AllLines, stiBeforeEoi |-> {},
     traps |-> {"dos"}, eoisTimer |-> TRUE, stalls |-> FALSE, maxFrames |-> 3]

(* Timer and device handlers that enable interrupts before their EOI in a   *)
(* guest that polls a port, its keyboard masked.                            *)
EarlySti ==
    [Ordinary EXCEPT !.unmasked = {Timer, Device}, !.stiBeforeEoi = {Timer, Device}, !.traps = {"io"}]

(* The tick courier beside the pacer.                                       *)
WithCourier == [Ordinary EXCEPT !.courier = TRUE, !.traps = {"io"}, !.maxFrames = 1]

SafeSessions == {Ordinary, EarlySti, WithCourier}

(* A guest that spins on a memory flag and never traps: with handlers of    *)
(* its own, with one that never ends the timer, and with none.              *)
Spinning == [Ordinary EXCEPT !.traps = {}, !.maxFrames = 0]

NeverEois == [Spinning EXCEPT !.eoisTimer = FALSE, !.stalls = TRUE]

Unhooked == [Spinning EXCEPT !.hooked = {}]

LiveSessions == {Spinning, NeverEois, Unhooked}

(* An early STI in a guest that makes DOS calls.                            *)
StiAndDos == {[EarlySti EXCEPT !.stiBeforeEoi = {Timer}, !.traps = {"dos"}]}

(* The auto-EOI fallback in a guest that makes DOS calls.                   *)
EoilessAndDos == {[Ordinary EXCEPT !.eoisTimer = FALSE, !.stalls = TRUE]}
=============================================================================
