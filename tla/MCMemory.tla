------------------------------ MODULE MCMemory -----------------------------
(* The chain of memory control blocks and the promise it implements, for    *)
(* TLC: a behaviour is one of either, chosen at the start, while the other  *)
(* stays as it began.                                                       *)
EXTENDS MCDosMemory, MCArena

VARIABLE part

MemoryInit ==
    /\ part \in {"chain", "arena"}
    /\ Init /\ (part = "arena" => session = CHOOSE s \in Sessions : TRUE)
    /\ ArenaInit

MemoryNext ==
    /\ UNCHANGED part
    /\ \/ part = "chain" /\ Next   /\ UNCHANGED arenaVars
       \/ part = "arena" /\ MCNext /\ UNCHANGED vars

MemorySpec == MemoryInit /\ [][MemoryNext]_<<part, vars, arenaVars>>
=============================================================================
