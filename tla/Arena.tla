------------------------------- MODULE Arena -------------------------------
(***************************************************************************)
(* What DOS promises its programs about conventional memory, whatever the  *)
(* memory control blocks look like: blocks that never overlap, each of one *)
(* program, and touched by that program only.  A block is the segment of   *)
(* its data, its size in paragraphs and its owner's PSP; the paragraph     *)
(* below the data holds the block's header.  DosMemory implements this.    *)
(***************************************************************************)
EXTENDS Naturals

CONSTANTS
    Floor,          \* the first data segment the chain can hand out
    Ceiling,        \* where conventional memory ends
    SystemOwner,    \* DOS_MCB_OWNER_DOS: no program has this PSP
    Initial,        \* the blocks and
    FirstProgram    \*   the PSP of the first program at start-up

Segments == Floor .. Ceiling

Owners == Segments \cup {SystemOwner}

Block == [base : Segments, size : 0 .. Ceiling, owner : Owners]

InBounds(b) == b.base + b.size <= Ceiling

(* A header lies between any two blocks.                                   *)
Separate(b, c) == b.base + b.size < c.base \/ c.base + c.size < b.base

ASSUME ArenaAssumption ==
    /\ Floor \in Nat /\ Ceiling \in Nat
    /\ SystemOwner \notin Segments
    /\ FirstProgram \in Segments
    /\ Initial \in SUBSET Block
    /\ \A b \in Initial : InBounds(b)
    /\ \A b, c \in Initial : b # c => Separate(b, c)

VARIABLES
    blocks,     \* the allocated blocks
    program     \* the PSP of the running program

arenaVars == <<blocks, program>>

ArenaInit == blocks = Initial /\ program = FirstProgram

-----------------------------------------------------------------------------
(* Seeded fault: an allocation is only kept off the other blocks' data.    *)
FitsBeside_OverHeader(b, others) ==
    /\ InBounds(b)
    /\ \A c \in others : b.base + b.size <= c.base \/ c.base + c.size <= b.base

(* A block that may be added beside the others.                            *)
FitsBeside(b, others) == InBounds(b) /\ \A c \in others : Separate(b, c)

Added == blocks' \ blocks

Removed == blocks \ blocks'

(* AH=48h: a new block of the running program.                             *)
Allocate ==
    \E b \in Added :
        /\ b.owner = program /\ FitsBeside(b, blocks)
        /\ blocks' = blocks \cup {b} /\ UNCHANGED program

(* AH=49h: the running program gives back one of its blocks.  That it is   *)
(* its own is up to the program: DosMcbFree does not look at the owner.    *)
GiveBack ==
    \E b \in Removed :
        /\ b.owner = program
        /\ blocks' = blocks \ {b} /\ UNCHANGED program

(* One of the running program's blocks shrinks, or grows where it is.      *)
ResizedInPlace ==
    \E b \in Removed, c \in Added :
        /\ b.owner = program /\ c.owner = program /\ c.base = b.base
        /\ FitsBeside(c, blocks \ {b})
        /\ blocks' = (blocks \ {b}) \cup {c}

(* AH=4Ah.                                                                 *)
Resize == ResizedInPlace /\ UNCHANGED program

(* EXEC: a program block, whose segment is the child's PSP, and a block    *)
(* for its environment, both the child's.                                  *)
StartProgram ==
    \E p, e \in Added :
        /\ p.owner = p.base /\ e.owner = p.base
        /\ FitsBeside(e, blocks) /\ FitsBeside(p, blocks \cup {e})
        /\ blocks' = blocks \cup {p, e}
        /\ program' = p.base

(* The running program ends and all its blocks are given back; or it stays *)
(* resident, its program block shrunk, grown or left as it is.             *)
EndProgram == blocks' = {b \in blocks : b.owner # program}

KeepResident == ResizedInPlace \/ UNCHANGED blocks

(* DosMcbReserveTop: DOS takes a block from one of the running program's.  *)
ReserveTop ==
    \E b \in Removed, c, d \in Added :
        /\ b.owner = program /\ c.owner = program /\ c.base = b.base
        /\ d.owner = SystemOwner
        /\ FitsBeside(c, blocks \ {b}) /\ FitsBeside(d, (blocks \ {b}) \cup {c})
        /\ blocks' = (blocks \ {b}) \cup {c, d} /\ UNCHANGED program

ArenaNext ==
    /\ blocks' \in SUBSET Block
    /\ program' \in Segments
    /\ \/ Allocate
       \/ GiveBack
       \/ Resize
       \/ StartProgram
       \/ EndProgram
       \/ KeepResident
       \/ ReserveTop

ArenaSpec == ArenaInit /\ [][ArenaNext]_arenaVars

-----------------------------------------------------------------------------
ArenaTypeOK == blocks \subseteq Block /\ program \in Segments

(* No two programs' blocks share memory, and no block lies over another's  *)
(* header: the chain can be laid over them.                                *)
BlocksSeparate ==
    /\ \A b \in blocks : InBounds(b)
    /\ \A b, c \in blocks : b # c => Separate(b, c)
=============================================================================
