----------------------------- MODULE MCKeyboard ----------------------------
(* An instance of Keyboard for TLC.                                         *)
EXTENDS Keyboard

(* Two keys alone; one key with the mouse and a guest that writes the       *)
(* controller's command byte; the mouse alone and a guest that sends it two *)
(* commands.                                                                *)
MCKbBudgets == {[keys |-> 2, mouse |-> 0, writes |-> 0],
                [keys |-> 1, mouse |-> 2, writes |-> 2],
                [keys |-> 0, mouse |-> 3, writes |-> 4]}
=============================================================================
