-------------------------------- MODULE Xms --------------------------------
(***************************************************************************)
(* Extended memory: the XMS handle table (dos_xms.h), its calls            *)
(* (HostXms), and the BIOS's block move to linear addresses (dos_extmem.h, *)
(* Int15MoveBlockAt).  A block is a buffer of the host's, somewhere in the *)
(* process's address space; the guest's own memory is at the bottom of the *)
(* same space.  Bytes hold one of a few values; a kilobyte is KbBytes      *)
(* bytes.                                                                  *)
(***************************************************************************)
EXTENDS Integers, Sequences, FiniteSets, FiniteSetsExt

CONSTANTS
    KbBytes,        \* DOS_XMS_BYTES_PER_KB
    XmsHandles,     \* 1 .. DOS_XMS_MAX_HANDLES
    MaxLockCount,   \* DOS_XMS_MAX_LOCK_COUNT
    TotalKb,        \* the pool (XMS_POOL_KB)
    DirectEnd,      \* DOS_EXTMEM_DIRECT_END: the guest's memory and the HMA
    RawEnd,         \* DOS_EXTMEM_RAW_END
    HeapBases,      \* where the host may put a block
    XmsSizes,       \* what the guest asks for, in KB
    MoveLengths,    \* and how much it moves, in bytes
    XmsOps          \* bound: calls of the guest

AddressEnd == Max(HeapBases) + Max(XmsSizes) * KbBytes

ASSUME XmsAssumption ==
    /\ KbBytes \in Nat \ {0} /\ TotalKb \in Nat /\ MaxLockCount \in Nat
    /\ XmsHandles \subseteq Nat \ {0}
    /\ DirectEnd \in Nat /\ RawEnd \in Nat /\ DirectEnd <= RawEnd
    /\ Max(HeapBases) \in HeapBases /\ HeapBases \subseteq DirectEnd .. Max(HeapBases)
    /\ Max(XmsSizes) \in XmsSizes /\ XmsSizes \subseteq 0 .. Max(XmsSizes)
    /\ MoveLengths \subseteq Nat

Addresses == 0 .. AddressEnd - 1

(* No buffer: a block of 0 KB has none.                                    *)
NoMemory == -1

VARIABLES
    handles,    \* DOS_XMS_STATE.Handles: InUse, LockCount, SizeKb, Memory
    usedKb,     \* DOS_XMS_STATE.UsedKb
    hma,        \* IsHmaAllocated
    regions,    \* the host's buffers: <<address, bytes>>
    ram,        \* the bytes at every linear address
    raw,        \* g_ExtendedMemoryRaw, by linear address
    calls,      \* calls left to the guest
    promised,   \* what every block should hold
    told        \* the addresses lock calls returned and not yet unlocked

xmsVars == <<handles, usedKb, hma, regions, ram, raw, calls, promised, told>>

FreeHandle == [inUse |-> FALSE, locks |-> 0, kb |-> 0, memory |-> NoMemory]

(* The guest's memory starts with a value of its own in every byte.        *)
XmsInit ==
    /\ handles = [h \in XmsHandles |-> FreeHandle]
    /\ usedKb = 0
    /\ hma = FALSE
    /\ regions = {}
    /\ ram = [a \in Addresses |-> IF a < DirectEnd THEN a + 1 ELSE 0]
    /\ raw = [a \in DirectEnd .. RawEnd - 1 |-> 0]
    /\ calls = XmsOps
    /\ promised = [h \in XmsHandles |-> <<>>]
    /\ told = {}

Called == calls > 0 /\ calls' = calls - 1

(* Handle 0, the guest's own memory, is never a block's.                   *)
Entry(h) == IF h \in XmsHandles THEN handles[h] ELSE FreeHandle

DosXmsGetHandle(h) == Entry(h).inUse

(* A call that fails, or that only asks, changes nothing.                  *)
Refused ==
    UNCHANGED <<handles, usedKb, hma, regions, ram, raw, promised, told>>

-----------------------------------------------------------------------------
(* XmsHostAllocate (VirtualAlloc): zeroed memory anywhere it fits, or none.*)
Cells(base, bytes) == base .. base + bytes - 1

HostBuffers(kb) ==
    {b \in HeapBases :
        \A r \in regions : Cells(b, kb * KbBytes) \cap Cells(r[1], r[2]) = {}}

Cleared(base, bytes) == [a \in Addresses |-> IF a \in Cells(base, bytes) THEN 0 ELSE ram[a]]

Region(entry) == {<<entry.memory, entry.kb * KbBytes>>}

Zeros(n) == [i \in 1 .. n |-> 0]

FitsPool(more) == usedKb + more <= TotalKb

(* AH=09h.                                                                 *)
DosXmsAllocate ==
    \E kb \in XmsSizes :
        LET unused == {h \in XmsHandles : ~handles[h].inUse}
            h      == Min(unused)
            entry(b) == [FreeHandle EXCEPT !.inUse = TRUE, !.kb = kb, !.memory = b]
        IN /\ Called
           /\ \/ /\ (kb > 0 /\ ~FitsPool(kb)) \/ unused = {}
                 /\ Refused
              \/ /\ kb > 0                    \* the host has no memory
                 /\ FitsPool(kb) /\ unused # {}
                 /\ Refused
              \/ /\ kb = 0 /\ unused # {}
                 /\ handles' = [handles EXCEPT ![h] = entry(NoMemory)]
                 /\ promised' = [promised EXCEPT ![h] = <<>>]
                 /\ UNCHANGED <<usedKb, hma, regions, ram, raw, told>>
              \/ /\ kb > 0 /\ FitsPool(kb) /\ unused # {}
                 /\ \E b \in HostBuffers(kb) :
                       /\ handles' = [handles EXCEPT ![h] = entry(b)]
                       /\ regions' = regions \cup Region(entry(b))
                       /\ ram' = Cleared(b, kb * KbBytes)
                 /\ usedKb' = usedKb + kb
                 /\ promised' = [promised EXCEPT ![h] = Zeros(kb * KbBytes)]
                 /\ UNCHANGED <<hma, raw, told>>

(* AH=0Ah.                                                                 *)
DosXmsFree ==
    \E h \in XmsHandles \cup {0} :
        /\ Called
        /\ \/ /\ ~DosXmsGetHandle(h) \/ Entry(h).locks > 0
              /\ Refused
           \/ /\ DosXmsGetHandle(h) /\ handles[h].locks = 0
              /\ regions' = regions \ Region(handles[h])
              /\ usedKb' = usedKb - handles[h].kb
              /\ handles' = [handles EXCEPT ![h] = FreeHandle]
              /\ promised' = [promised EXCEPT ![h] = <<>>]
              /\ UNCHANGED <<hma, ram, raw, told>>

-----------------------------------------------------------------------------
(* Seeded fault: a locked block may be moved.                              *)
MayReallocate_Locked(entry) == TRUE

MayReallocate(entry) == entry.locks = 0

BytesKept(old, new) == Min({old, new}) * KbBytes

Carried(old, base, bytes, kept) ==
    [a \in Addresses |->
        IF a \in Cells(base, kept) THEN ram[old + (a - base)]
        ELSE IF a \in Cells(base, bytes) THEN 0 ELSE ram[a]]

(* What the caller is promised: the bytes both sizes have, zeros above.    *)
Resized(s, n) == [i \in 1 .. n |-> IF i <= Len(s) THEN s[i] ELSE 0]

(* AH=0Fh: always into a new buffer, even to shrink.                       *)
DosXmsReallocate ==
    \E h \in XmsHandles \cup {0}, kb \in XmsSizes :
        /\ Called
        /\ \/ /\ \/ ~DosXmsGetHandle(h)
                 \/ ~MayReallocate(Entry(h))
                 \/ kb = Entry(h).kb
                 \/ kb > Entry(h).kb /\ ~FitsPool(kb - Entry(h).kb)
                 \/ kb > 0                    \* the host has no memory
              /\ Refused
           \/ /\ DosXmsGetHandle(h)
              /\ MayReallocate(handles[h]) /\ kb # handles[h].kb
              /\ kb < handles[h].kb \/ FitsPool(kb - handles[h].kb)
              /\ \E b \in IF kb = 0 THEN {NoMemory} ELSE HostBuffers(kb) :
                    LET old   == handles[h]
                        new   == [old EXCEPT !.kb = kb, !.memory = b]
                        freed == regions \ Region(old)
                    IN /\ handles' = [handles EXCEPT ![h] = new]
                       /\ regions' = IF kb = 0 THEN freed ELSE freed \cup Region(new)
                       /\ ram' = IF kb = 0 THEN ram
                                 ELSE Carried(old.memory, b, kb * KbBytes, BytesKept(old.kb, kb))
              /\ usedKb' = usedKb - handles[h].kb + kb
              /\ promised' = [promised EXCEPT ![h] = Resized(promised[h], kb * KbBytes)]
              /\ UNCHANGED <<hma, raw, told>>

(* AH=0Ch and AH=0Dh.                                                      *)
DosXmsLock ==
    \E h \in XmsHandles \cup {0} :
        /\ Called
        /\ \/ /\ ~DosXmsGetHandle(h) \/ Entry(h).locks = MaxLockCount
              /\ Refused
           \/ /\ DosXmsGetHandle(h) /\ handles[h].locks < MaxLockCount
              /\ handles' = [handles EXCEPT ![h].locks = @ + 1]
              /\ told' = told \cup {<<h, handles[h].memory>>}
              /\ UNCHANGED <<usedKb, hma, regions, ram, raw, promised>>

DosXmsUnlock ==
    \E h \in XmsHandles \cup {0} :
        /\ Called
        /\ \/ /\ ~DosXmsGetHandle(h) \/ Entry(h).locks = 0
              /\ Refused
           \/ /\ DosXmsGetHandle(h) /\ handles[h].locks > 0
              /\ handles' = [handles EXCEPT ![h].locks = @ - 1]
              /\ told' = IF handles[h].locks = 1 THEN {t \in told : t[1] # h} ELSE told
              /\ UNCHANGED <<usedKb, hma, regions, ram, raw, promised>>

-----------------------------------------------------------------------------
(* The byte loops of DosXmsMove, one byte after the other.                 *)
CopyUp(to, from, n) ==
    LET copied[i \in 0 .. n] ==
            IF i = 0 THEN ram
            ELSE [copied[i - 1] EXCEPT ![to + i - 1] = copied[i - 1][from + i - 1]]
    IN copied[n]

CopyDown(to, from, n) ==
    LET copied[i \in 0 .. n] ==
            IF i = 0 THEN ram
            ELSE [copied[i - 1] EXCEPT ![to + n - i] = copied[i - 1][from + n - i]]
    IN copied[n]

(* Seeded fault: one loop for every move.                                  *)
Copied_Forward(to, from, n) == CopyUp(to, from, n)

Copied(to, from, n) == IF to <= from THEN CopyUp(to, from, n) ELSE CopyDown(to, from, n)

Ends == [handle : {0} \cup XmsHandles, offset : 0 .. Max(XmsSizes) * KbBytes]

EndSize(e) == IF e.handle = 0 THEN DirectEnd ELSE Entry(e.handle).kb * KbBytes

(* The length is checked against what is left, so that nothing wraps.      *)
EndValid(e, length) ==
    /\ e.handle = 0 \/ DosXmsGetHandle(e.handle)
    /\ e.offset <= EndSize(e) /\ length <= EndSize(e) - e.offset

EndAddress(e) == IF e.handle = 0 THEN e.offset ELSE handles[e.handle].memory + e.offset

(* The value a byte should have: its block's, or the guest's own memory's. *)
PromisedAt(e, i) == IF e.handle = 0 THEN ram[e.offset + i - 1] ELSE promised[e.handle][e.offset + i]

PromisedMove(from, to, length) ==
    IF to.handle = 0 THEN promised
    ELSE [promised EXCEPT ![to.handle] =
            [i \in DOMAIN @ |-> IF i - to.offset \in 1 .. length
                                THEN PromisedAt(from, i - to.offset) ELSE @[i]]]

(* AH=0Bh.                                                                 *)
DosXmsMove ==
    \E from \in Ends, to \in Ends, length \in MoveLengths :
        /\ Called
        /\ \/ /\ \/ length = 0 \/ length % 2 = 1
                 \/ ~EndValid(from, length) \/ ~EndValid(to, length)
              /\ Refused
           \/ /\ length > 0 /\ length % 2 = 0
              /\ EndValid(from, length) /\ EndValid(to, length)
              /\ ram' = Copied(EndAddress(to), EndAddress(from), length)
              /\ promised' = PromisedMove(from, to, length)
              /\ UNCHANGED <<handles, usedKb, hma, regions, raw, told>>

-----------------------------------------------------------------------------
(* DosExtMemClassify: whose memory the bytes from a linear address are.    *)
Holding(address, length) ==
    {h \in XmsHandles :
        /\ handles[h].inUse /\ handles[h].kb > 0
        /\ address >= handles[h].memory
        /\ address + length <= handles[h].memory + handles[h].kb * KbBytes}

DosExtMemClassify(address, length) ==
    IF length = 0 THEN "none"
    ELSE IF address + length <= DirectEnd THEN "direct"
    ELSE IF Holding(address, length) # {} THEN "emb"
    ELSE IF address >= DirectEnd /\ address + length <= RawEnd THEN "raw"
    ELSE "none"

Byte(region, a) == IF region = "raw" THEN raw[a] ELSE ram[a]

Replaced(f, to, from, region, length) ==
    [a \in DOMAIN f |-> IF a \in Cells(to, length) THEN Byte(region, from + (a - to)) ELSE f[a]]

(* What the blocks should hold after bytes were stored at an address.      *)
PromisedStore(store) ==
    [h \in XmsHandles |->
        [i \in DOMAIN promised[h] |->
            LET a == handles[h].memory + i - 1
            IN IF a \in DOMAIN store THEN store[a] ELSE promised[h][i]]]

(* INT 15h AH=87h, with linear addresses.                                  *)
Int15MoveBlockAt ==
    \E from, to \in Addresses, length \in {n \in MoveLengths : n % 2 = 0} :
        LET source == DosExtMemClassify(from, length)
            dest   == DosExtMemClassify(to, length)
        IN /\ Called
           /\ \/ /\ "none" \in {source, dest}
                 /\ Refused
              \/ /\ "none" \notin {source, dest}
                 /\ \/ /\ dest = "raw"
                       /\ raw' = Replaced(raw, to, from, source, length)
                       /\ UNCHANGED <<ram, promised>>
                    \/ /\ dest # "raw"
                       /\ ram' = Replaced(ram, to, from, source, length)
                       /\ promised' = PromisedStore(
                            [a \in Cells(to, length) |-> Byte(source, from + (a - to))])
                       /\ UNCHANGED raw
                 /\ UNCHANGED <<handles, usedKb, hma, regions, told>>

(* HostXms, AH=01h and AH=02h.                                             *)
RequestHma == Called /\ ~hma /\ hma' = TRUE
    /\ UNCHANGED <<handles, usedKb, regions, ram, raw, promised, told>>

ReleaseHma == Called /\ hma /\ hma' = FALSE
    /\ UNCHANGED <<handles, usedKb, regions, ram, raw, promised, told>>

XmsNext ==
    \/ DosXmsAllocate
    \/ DosXmsFree
    \/ DosXmsReallocate
    \/ DosXmsLock
    \/ DosXmsUnlock
    \/ DosXmsMove
    \/ Int15MoveBlockAt
    \/ RequestHma
    \/ ReleaseHma

XmsSpec == XmsInit /\ [][XmsNext]_xmsVars

-----------------------------------------------------------------------------
(* Whatever was allocated, resized, moved and freed since, every block     *)
(* holds what was last put into it, within its size: no reallocation or    *)
(* overlapping move loses or invents a byte, and no block has a byte of    *)
(* another's.                                                              *)
BlocksKeepContents ==
    \A h \in XmsHandles :
        handles[h].inUse =>
            /\ Len(promised[h]) = handles[h].kb * KbBytes
            /\ \A i \in DOMAIN promised[h] : ram[handles[h].memory + i - 1] = promised[h][i]

(* An address a lock call returned stays the block's until it is unlocked, *)
(* its buffer is never given back to the host meanwhile, and the BIOS's    *)
(* block move still finds the block there.                                 *)
LockHolds ==
    \A t \in told :
        LET entry == handles[t[1]]
        IN /\ entry.inUse /\ entry.memory = t[2]
           /\ entry.kb > 0 =>
                /\ Region(entry) \subseteq regions
                /\ DosExtMemClassify(t[2], entry.kb * KbBytes) = "emb"
=============================================================================
