---------------------------- MODULE MCDosMemory ----------------------------
(* Sessions for TLC: a machine of a few paragraphs, with one-paragraph PSPs *)
(* and environments.                                                        *)
EXTENDS DosMemory

Mz(image, min, max) == [isMz |-> TRUE, image |-> image, min |-> min, max |-> max]

Com(image) == [isMz |-> FALSE, image |-> image, min |-> 0, max |-> 0]

(* One program and the allocation calls.                                    *)
Calls ==
    [requests |-> {0, 2}, programs |-> {}, staysResident |-> FALSE,
     freesEnvironment |-> FALSE]

(* Nested programs that free their environments: one loaded high, one that  *)
(* takes what it needs.                                                     *)
Nested ==
    [Calls EXCEPT !.requests = {1, 2}, !.programs = {Mz(1, 0, 0), Mz(1, 1, 0)},
                  !.freesEnvironment = TRUE]

(* Programs that stay resident and keep their environments.                 *)
Residents == [Nested EXCEPT !.programs = {Mz(0, 0, 1)}, !.staysResident = TRUE, !.freesEnvironment = FALSE]

SoundSessions == {Calls, Nested, Residents}

(* Resident programs below one that frees its environment.                  *)
ResidentsAndFreedEnvs == {[Residents EXCEPT !.freesEnvironment = TRUE]}

(* A .COM file larger than the block it can have.                           *)
LargeCom == {[Nested EXCEPT !.programs = {Com(3)}, !.freesEnvironment = FALSE]}
=============================================================================
