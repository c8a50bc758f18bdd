------------------------------ MODULE MCArena ------------------------------
(* An instance of Arena for TLC, which needs to be told which sets of       *)
(* blocks to try: at most two blocks more, and any fewer.                   *)
EXTENDS Arena

Candidates ==
    {b \in [base : Segments, size : 0 .. Ceiling, owner : Owners] :
        InBounds(b) /\ b.owner \in {program, b.base, SystemOwner}}

MCNext ==
    /\ \E fewer \in SUBSET blocks, more \in {{}} \cup {{b, c} : b, c \in Candidates} :
          blocks' = fewer \cup more
    /\ program' \in Segments
    /\ ArenaNext

MCSpec == ArenaInit /\ [][MCNext]_arenaVars

MCInitial == {[base |-> 1, size |-> 1, owner |-> 1]}
=============================================================================
