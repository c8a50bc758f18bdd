---------------------------- MODULE MCPicDevice ----------------------------
(* PicDevice for TLC: three lines per chip, line 2 the cascade.  The guest  *)
(* puts the master into every mode and gives it every command; the slave is *)
(* unmasked, polled and sent EOIs.                                            *)
EXTENDS PicDevice

PerChip(master, slave) == [c \in Chips |-> IF c = "master" THEN master ELSE slave]

Ocw3(select, smm, poll) == [select |-> select, smm |-> smm, poll |-> poll]

MCIcw1  == PerChip(BOOLEAN, {})
MCMasks == PerChip({{}, {1}}, {{}})
MCOcw2  == PerChip(Ocw2Commands, {"nonspecificEoi"})
MCOcw3  == PerChip({Ocw3("keep", "set", FALSE), Ocw3("keep", "clear", FALSE), Ocw3("keep", "keep", TRUE)},
                   {Ocw3("keep", "keep", TRUE)})
=============================================================================
