----------------------------- MODULE DosMemory -----------------------------
(***************************************************************************)
(* Conventional memory as the guest's DOS keeps it: the chain of memory    *)
(* control blocks of dos_mcb.h, the AH=48h/49h/4Ah calls, and what EXEC    *)
(* and termination do to it (host_dos.c).  Memory is a map from paragraphs *)
(* to what they would read as if taken for a header, so that a header that *)
(* was merged away stays in memory until something is written over it.     *)
(***************************************************************************)
EXTENDS Integers, Sequences, FiniteSets, FiniteSetsExt

CONSTANTS
    Top,            \* the paragraph conventional memory ends at
    DosOwner,       \* DOS_MCB_OWNER_DOS
    EnvParas,       \* DOS_ENV_PARAS, and the size of an environment copy
    ResidentParas,  \* DOS_RESBLK_PARAS
    PspParas,       \* DOS_PSP_PARAGRAPHS
    CdsParas,       \* DOS_CDS_PARAS and
    SftParas,       \*   DOS_SFT_PARAS: what DOS reserves at start-up
    MaxDepth,       \* EXEC_MAX_DEPTH
    Sessions        \* the sessions considered: see Session

FirstMcb == 0

Paras == FirstMcb .. Top - 1

Free == -1

(* Where DosMcbInitializeWithTop lays its blocks.                          *)
ResidentMcb == FirstMcb + 1 + EnvParas

PspSeg == ResidentMcb + 1 + ResidentParas + 1

(* A program file: whether it has an MZ header, its image's size, and the  *)
(* header's e_minalloc and e_maxalloc.                                     *)
Program == [isMz : BOOLEAN, image : Nat, min : Nat, max : Nat]

(* What a session is fixed to: the sizes its programs ask for, the program *)
(* files they run, whether a program may stay resident and whether it may  *)
(* free its own environment.                                               *)
Session ==
    [requests : SUBSET Nat, programs : SUBSET Program,
     staysResident : BOOLEAN, freesEnvironment : BOOLEAN]

ASSUME MemoryAssumption ==
    /\ Top \in Nat /\ EnvParas \in Nat \ {0} /\ ResidentParas \in Nat /\ PspParas \in Nat \ {0}
    /\ PspSeg < Top /\ CdsParas \in Nat /\ SftParas \in Nat
    /\ DosOwner \in Int \ (0 .. Top) /\ DosOwner # Free
    /\ MaxDepth \in Nat
    /\ Sessions \subseteq Session

VARIABLES
    session,    \* which session this is; never changes
    mem,        \* what each paragraph reads as: [sig, owner, size]
    psp,        \* machine->PspSegment
    frames,     \* g_Exec: what EXEC saved of each parent
    started,    \* StartupBuildMemoryChain has run
    resident    \* history: the blocks of the programs that stayed resident

vars == <<session, mem, psp, frames, started, resident>>

Signatures == {"M", "Z"}

Header(sig, owner, size) == [sig |-> sig, owner |-> owner, size |-> size]

(* A paragraph of data that begins with neither 'M' nor 'Z'.               *)
Data == Header("-", Free, 0)

NextMcb(m, p) == p + 1 + m[p].size

(* Bytes written over the paragraphs of ps.                                *)
Overwrite(m, ps) == [p \in Paras |-> IF p \in ps THEN Data ELSE m[p]]

-----------------------------------------------------------------------------
(* dos_mcb.h                                                               *)

DosMcbInitializeWithTop ==
    [p \in Paras |->
        CASE p = FirstMcb    -> Header("M", PspSeg, EnvParas)
          [] p = ResidentMcb -> Header("M", DosOwner, ResidentParas)
          [] p = PspSeg - 1  -> Header("Z", PspSeg, Top - PspSeg)
          [] OTHER           -> Data]

(* The blocks a walk from p finds, up to the 'Z' or the first bad header.  *)
WalkFrom(m, start) ==
    LET walk[p \in Paras] ==
            IF m[p].sig = "M" /\ NextMcb(m, p) \in Paras
              THEN {p} \cup walk[NextMcb(m, p)] ELSE {p}
    IN  walk[start]

Chain(m) == WalkFrom(m, FirstMcb)

(* DosMcbCheckChain = DOS_MCB_CHAIN_OK.                                    *)
DosMcbCheckChain(m) ==
    LET isOk[p \in Paras] ==
            \/ m[p].sig = "Z" /\ NextMcb(m, p) = Top
            \/ m[p].sig = "M" /\ NextMcb(m, p) \in Paras /\ isOk[NextMcb(m, p)]
    IN  isOk[FirstMcb]

(* Seeded fault: nothing is ever coalesced.                                *)
Absorbs_Never(m, p) == FALSE

(* Seeded fault: the next block's owner is not looked at.                  *)
Absorbs_OwnerUnchecked(m, p) ==
    m[p].sig = "M" /\ NextMcb(m, p) \in Paras /\ m[NextMcb(m, p)].sig \in Signatures

(* The test both coalescing loops make: a free block follows.              *)
Absorbs(m, p) ==
    /\ m[p].sig = "M"
    /\ NextMcb(m, p) \in Paras
    /\ m[NextMcb(m, p)].owner = Free
    /\ m[NextMcb(m, p)].sig \in Signatures

(* The header at p after the coalescing loop: it ends where the last block *)
(* it absorbs does, and takes that block's signature.                      *)
Coalesced(m, p) ==
    LET last[q \in Paras] == IF Absorbs(m, q) THEN last[NextMcb(m, q)] ELSE q
    IN  Header(m[last[p]].sig, m[p].owner, NextMcb(m, last[p]) - p - 1)

(* Seeded fault: a block of exactly the size asked for is split too.       *)
Cut_SplitsEqual(m, p, sig, total, size) ==
    [m EXCEPT ![p + 1 + size] = Header(sig, Free, total - size - 1),
              ![p].sig = "M", ![p].size = size]

(* Seeded fault: the tail's own header is not taken off its size.          *)
Cut_TailTooLarge(m, p, sig, total, size) ==
    IF total > size
      THEN [m EXCEPT ![p + 1 + size] = Header(sig, Free, total - size),
                     ![p].sig = "M", ![p].size = size]
      ELSE [m EXCEPT ![p].sig = sig, ![p].size = total]

(* Cut the block at p, of total size and signature sig, down to size       *)
(* paragraphs; what is left over becomes a free block behind it.           *)
Cut(m, p, sig, total, size) ==
    IF total > size
      THEN [m EXCEPT ![p + 1 + size] = Header(sig, Free, total - size - 1),
                     ![p].sig = "M", ![p].size = size]
      ELSE [m EXCEPT ![p].sig = sig, ![p].size = total]

(* The free blocks DosMcbAllocate's walk can come to: no free block before *)
(* them has absorbed them.                                                 *)
FreeHeads(m) ==
    LET frees == {p \in Chain(m) : m[p].owner = Free}
    IN  {p \in frees : \A q \in frees : Absorbs(m, q) => NextMcb(m, q) # p}

(* Memory after DosMcbAllocate, whether it succeeded, the block's segment  *)
(* and, on failure, the largest free block.  The walk coalesces each free  *)
(* block it comes to and takes the first that is large enough.  owner is   *)
(* what is written into the header in the end, DOS_PSP_SEG or what the     *)
(* caller puts there.                                                      *)
DosMcbAllocate(m, size, owner) ==
    LET room(p) == Coalesced(m, p).size
        fits    == {p \in FreeHeads(m) : room(p) >= size}
        hit     == Min(fits)
        seen    == {p \in FreeHeads(m) : \A f \in fits : p <= f}
        n       == [p \in Paras |-> IF p \in seen THEN Coalesced(m, p) ELSE m[p]]
    IN  IF fits = {}
          THEN [mem |-> n, ok |-> FALSE, segment |-> 0,
                largest |-> Max({room(p) : p \in seen} \cup {0})]
          ELSE [mem |-> [Cut(n, hit, n[hit].sig, n[hit].size, size) EXCEPT ![hit].owner = owner],
                ok |-> TRUE, segment |-> hit + 1, largest |-> 0]

(* Memory after DosMcbFree: unchanged when segment - 1 is no header.       *)
DosMcbFree(m, segment) ==
    LET p == segment - 1
        n == [m EXCEPT ![p].owner = Free]
    IN  IF m[p].sig \in Signatures THEN [n EXCEPT ![p] = Coalesced(n, p)] ELSE m

(* What DosMcbResize can make the block: its own size and, if the block    *)
(* behind it is free, that one's.                                          *)
Available(m, p) ==
    IF m[p].sig = "M" /\ m[NextMcb(m, p)].owner = Free
      THEN m[p].size + 1 + m[NextMcb(m, p)].size ELSE m[p].size

DosMcbResize(m, segment, size) ==
    LET p == segment - 1
    IN  CASE size <= m[p].size ->
               [mem |-> Cut(m, p, m[p].sig, m[p].size, size), ok |-> TRUE, largest |-> 0]
          [] size > m[p].size /\ size <= Available(m, p) ->
               [mem |-> Cut(m, p, m[NextMcb(m, p)].sig, Available(m, p), size),
                ok |-> TRUE, largest |-> 0]
          [] OTHER -> [mem |-> m, ok |-> FALSE, largest |-> Available(m, p)]

LastMcb(m) == CHOOSE p \in Chain(m) : m[p].sig = "Z"

(* A block of DOS's own at the top: cut from the last block, or, when that *)
(* is already a reservation, from the top of the block before it.          *)
DosMcbReserveTop(m, size) ==
    LET last     == LastMcb(m)
        previous == CHOOSE p \in Chain(m) : NextMcb(m, p) = last
        isOnTop  == m[last].owner = DosOwner /\ last # FirstMcb
        from     == IF isOnTop THEN previous ELSE last
        at       == NextMcb(m, from) - size - 1
    IN  IF m[from].size < size + 2 THEN m
        ELSE [m EXCEPT ![from].size = at - from - 1, ![from].sig = "M",
                       ![at] = Header(IF isOnTop THEN "M" ELSE "Z", DosOwner, size)]

-----------------------------------------------------------------------------
(* The allocated blocks of the chain.                                      *)
Blocks(m) ==
    {[base |-> p + 1, size |-> m[p].size, owner |-> m[p].owner] :
        p \in {q \in Chain(m) : m[q].owner # Free}}

(* A request no block can meet: DOS_MCB_LARGEST_REQUEST.                   *)
LargestRequest == Top + 1

Init ==
    /\ session \in Sessions
    /\ mem = DosMcbInitializeWithTop
    /\ psp = PspSeg
    /\ frames = <<>>
    /\ started = FALSE
    /\ resident = {}

(* Before the first program runs, DOS reserves the CDS and the SFT in one  *)
(* block or, if that is refused, the CDS alone.                            *)
StartupBuildMemoryChain ==
    /\ ~ started /\ started' = TRUE
    /\ LET both == DosMcbReserveTop(mem, CdsParas + SftParas)
       IN  mem' = IF both # mem THEN both ELSE DosMcbReserveTop(mem, CdsParas)
    /\ UNCHANGED <<session, psp, frames, resident>>

(* INT 21h AH=48h, for the running program.                                *)
Int21Allocate ==
    /\ started
    /\ \E size \in session.requests \cup {LargestRequest} : mem' = DosMcbAllocate(mem, size, psp).mem
    /\ UNCHANGED <<session, psp, frames, started, resident>>

OwnBlocks == {b \in Blocks(mem) : b.owner = psp}

IsEnvironment(segment) == frames # <<>> /\ frames[Len(frames)].env = segment

(* AH=49h: a program frees one of its blocks, not the one it runs in.      *)
Int21Free ==
    /\ started
    /\ \E b \in OwnBlocks :
        /\ b.base # psp
        /\ IsEnvironment(b.base) => session.freesEnvironment
        /\ mem' = DosMcbFree(mem, b.base)
    /\ UNCHANGED <<session, psp, frames, started, resident>>

(* AH=4Ah: a program resizes one of its blocks.                            *)
Int21Resize ==
    /\ started
    /\ \E b \in OwnBlocks, size \in session.requests :
        /\ b.base = psp => size >= PspParas
        /\ mem' = DosMcbResize(mem, b.base, size).mem
    /\ UNCHANGED <<session, psp, frames, started, resident>>

(* DosExecSize: the paragraphs to allocate, 0 when it is refused.          *)
DosExecSize(program, largest) ==
    LET needed == PspParas + program.image + program.min
        wanted == Max({PspParas + program.image + program.max, needed})
    IN  CASE ~ program.isMz                        -> largest
          [] program.isMz /\ needed > largest      -> 0
          [] program.isMz /\ needed <= largest
             /\ program.min = 0 /\ program.max = 0 -> largest
          [] OTHER                                 -> Min({wanted, largest})

(* The paragraphs DosPspBuild and DosLoadImageAt write: the PSP, and the   *)
(* image behind it or, loaded high, at the top of the block.  Neither      *)
(* looks at the block's size.                                              *)
Written(program, child, want) ==
    LET at == IF program.isMz /\ program.min = 0 /\ program.max = 0
                THEN child + want - program.image ELSE child + PspParas
    IN  (child .. child + PspParas - 1) \cup (at .. at + program.image - 1)

(* ExecBegin, load and go: the environment copy, the largest block probed, *)
(* the program's block, the PSP and the image, and the parent saved.       *)
ExecBegin ==
    /\ started
    /\ Len(frames) < MaxDepth
    /\ \E program \in session.programs :
       \E env   \in {DosMcbAllocate(mem, EnvParas, PspSeg)} :
       \E probe \in {DosMcbAllocate(Overwrite(env.mem, env.segment .. env.segment + EnvParas - 1),
                                    LargestRequest, PspSeg)} :
       \E want  \in {IF probe.largest = 0 THEN 0 ELSE DosExecSize(program, probe.largest)} :
       \E child \in {DosMcbAllocate(probe.mem, want, PspSeg)} :
          CASE ~ env.ok ->
                 mem' = env.mem /\ UNCHANGED <<psp, frames>>
            [] env.ok /\ want = 0 ->
                 mem' = DosMcbFree(probe.mem, env.segment) /\ UNCHANGED <<psp, frames>>
            [] OTHER ->
                 /\ mem' = Overwrite([child.mem EXCEPT ![env.segment - 1].owner = child.segment,
                                                       ![child.segment - 1].owner = child.segment],
                                     Written(program, child.segment, want))
                 /\ psp' = child.segment
                 /\ frames' = Append(frames, [psp |-> psp, child |-> child.segment,
                                              env |-> env.segment, before |-> Blocks(mem)])
    /\ UNCHANGED <<session, started, resident>>

(* Every block a walk still finds with this owner, one DosMcbFree each.    *)
FreeOwned(m, owner) ==
    LET owned(n) == {p \in Chain(n) : n[p].owner = owner}
        pass[i \in 0 .. Top] ==
            IF i = 0 THEN m
            ELSE LET n == pass[i - 1]
                 IN  IF owned(n) = {} THEN n ELSE DosMcbFree(n, Min(owned(n)) + 1)
    IN  pass[Top]

Frame == frames[Len(frames)]

Return ==
    /\ psp' = Frame.psp
    /\ frames' = SubSeq(frames, 1, Len(frames) - 1)

(* Seeded fault (s80): only the child's own two blocks are freed.          *)
Terminate_OwnTwoBlocks ==
    /\ started /\ frames # <<>>
    /\ mem' = DosMcbFree(DosMcbFree(mem, Frame.child), Frame.env)
    /\ Return
    /\ UNCHANGED <<session, started, resident>>

(* DosTerminate of a child: its program block, every block it still owns,  *)
(* and then the environment copy EXEC made for it, by the segment EXEC     *)
(* recorded.                                                               *)
Terminate ==
    /\ started /\ frames # <<>>
    /\ mem' = DosMcbFree(FreeOwned(DosMcbFree(mem, Frame.child), Frame.child), Frame.env)
    /\ Return
    /\ UNCHANGED <<session, started, resident>>

(* DosTerminate of a child that stays: its program block is resized (kept  *)
(* whole if that fails) and nothing is freed.                              *)
StayResident ==
    /\ started /\ frames # <<>> /\ session.staysResident
    /\ \E size \in session.requests :
        mem' = DosMcbResize(mem, Frame.child, Max({size, PspParas})).mem
    /\ resident' = resident \cup {b \in Blocks(mem') : b.owner = Frame.child}
    /\ Return
    /\ UNCHANGED <<session, started>>

(* The running program writes over the data of one of its blocks.          *)
GuestWrites ==
    /\ started
    /\ \E b \in OwnBlocks : mem' = Overwrite(mem, b.base .. b.base + b.size - 1)
    /\ UNCHANGED <<session, psp, frames, started, resident>>

Next ==
    \/ StartupBuildMemoryChain
    \/ Int21Allocate
    \/ Int21Free
    \/ Int21Resize
    \/ ExecBegin
    \/ Terminate
    \/ StayResident
    \/ GuestWrites

Spec == Init /\ [][Next]_vars

-----------------------------------------------------------------------------
(* Properties.                                                             *)

(* An empty block may lie at the very top.                                 *)
Allocated == [base : FirstMcb + 1 .. Top, size : 0 .. Top, owner : Paras \cup {DosOwner}]

TypeOK ==
    /\ session \in Sessions
    /\ mem \in [Paras -> [sig : Signatures \cup {"-"}, owner : Paras \cup {Free, DosOwner},
                          size : 0 .. Top]]
    /\ psp \in Paras
    /\ \A i \in 1 .. Len(frames) :
          /\ frames[i].psp \in Paras /\ frames[i].child \in Paras /\ frames[i].env \in Paras
          /\ frames[i].before \in SUBSET Allocated
    /\ started \in BOOLEAN
    /\ resident \in SUBSET Allocated

(* DosMcbCheckChain, the validator of mcb_test.c, after any sequence of    *)
(* calls and programs: the blocks tile memory from the first header to the *)
(* top, and exactly the last is a 'Z'.                                     *)
ChainIntact == DosMcbCheckChain(mem)

(* The room between allocated blocks, whatever free headers lie in it: a   *)
(* gap of n paragraphs holds a header and n - 1 of data.                   *)
Gaps(m) ==
    LET used   == Blocks(m)
        starts == {b.base - 1 : b \in used} \cup {Top}
        ends   == {b.base + b.size : b \in used} \cup {FirstMcb}
    IN  {g \in ends \X starts :
            /\ g[1] < g[2]
            /\ \A b \in used : b.base + b.size <= g[1] \/ g[2] <= b.base - 1}

(* Merge-on-alloc, "two adjacent free blocks jointly satisfy a request     *)
(* neither satisfies alone": DosMcbAllocate succeeds whenever some gap is  *)
(* large enough, and the BX of a refusal is the largest request it would   *)
(* grant.                                                                  *)
AllocateExact ==
    \A size \in 0 .. Top :
        LET answer == DosMcbAllocate(mem, size, psp)
            rooms  == {g[2] - g[1] - 1 : g \in Gaps(mem)}
        IN  /\ answer.ok <=> \E r \in rooms : r >= size
            /\ ~ answer.ok => answer.largest = Max(rooms \cup {0})

(* When a child ends, its parent finds the memory it had: "what a child    *)
(* LEFT is exactly what the next program cannot have".  Only programs that *)
(* stayed resident in between may have taken some of it.                   *)
ExitGivesBack ==
    [][Len(frames') < Len(frames) /\ resident' = resident
         => Frame.before = {b \in Blocks(mem') : b \in Frame.before \/ b \notin resident}]_vars

(* host_dos.c, terminate and stay resident: "A TSR keeps its env block     *)
(* along with its PSP", until the session ends.                            *)
ResidentKept == resident \subseteq Blocks(mem)

(* What DOS promises, implemented: the blocks of the chain are Arena's.    *)
Promise ==
    INSTANCE Arena WITH
        Floor <- FirstMcb + 1, Ceiling <- Top, SystemOwner <- DosOwner,
        Initial <- Blocks(DosMcbInitializeWithTop), FirstProgram <- PspSeg,
        blocks <- Blocks(mem), program <- psp

ImplementsArena == Promise!ArenaSpec
=============================================================================
