---------------------------- MODULE MCWowTasks -----------------------------
(* Win16 sessions for TLC: the boot task, the shell and applications.       *)
EXTENDS WowTasks

(* Two applications, calls three deep.                                      *)
TwoApps ==
    [tasks |-> 4, retiresAnywhere |-> FALSE, dialogs |-> FALSE, syncs |-> {FALSE}, depth |-> 3]

(* One application with modal dialogs and calls the host waits for.         *)
Modal == [TwoApps EXCEPT !.tasks = 3, !.dialogs = TRUE, !.syncs = BOOLEAN, !.depth = 2]

SoundGuests == {TwoApps, Modal}

(* Three applications; one ends at any time, or only when no callback is in *)
(* flight.                                                                  *)
ThreeApps ==
    {[TwoApps EXCEPT !.tasks = 5, !.retiresAnywhere = anywhere, !.depth = 2] : anywhere \in BOOLEAN}
=============================================================================
