--------------------------- MODULE ServiceProofs ---------------------------
(***************************************************************************)
(* Theorems about the guest's services: extended and expanded memory, for   *)
(* every number of handles, every size of a block or buffer and every       *)
(* sequence of calls, and the clocks of GuestClock, for every date.         *)
(***************************************************************************)
EXTENDS Xms, Ems, GuestClock, SetFacts

-----------------------------------------------------------------------------
(* Extended memory: where the blocks are.                                  *)

XmsEntry == [inUse : BOOLEAN, locks : Nat, kb : Nat, memory : Int]

Bytes(h) == handles[h].kb * KbBytes

BlockCells(h) == Cells(handles[h].memory, Bytes(h))

(* A block in use with memory is a buffer the host has not taken back.     *)
BlockPlaced(h) ==
    /\ ~ handles[h].inUse => handles[h] = FreeHandle
    /\ handles[h].kb > 0 =>
          /\ handles[h].memory \in HeapBases /\ handles[h].kb \in XmsSizes
          /\ <<handles[h].memory, Bytes(h)>> \in regions

BlocksPlaced ==
    /\ handles \in [XmsHandles -> XmsEntry]
    /\ \A h \in XmsHandles : BlockPlaced(h)

BlocksApart ==
    \A g, h \in XmsHandles :
        g # h /\ handles[g].kb > 0 /\ handles[h].kb > 0 => BlockCells(g) \cap BlockCells(h) = {}

(* A lock not yet given back is counted at its block.                      *)
ToldInv ==
    \A t \in told :
        /\ t[1] \in XmsHandles
        /\ handles[t[1]].inUse /\ handles[t[1]].locks > 0 /\ handles[t[1]].memory = t[2]

XmsTables == BlocksPlaced /\ BlocksApart /\ ToldInv

LEMMA BytesNat ==
    ASSUME NEW kb \in Nat
    PROVE  kb * KbBytes \in Nat /\ (kb > 0 <=> kb * KbBytes > 0)
  BY XmsAssumption

LEMMA CellsAre ==
    ASSUME NEW b \in Int, NEW n \in Int, NEW a
    PROVE  a \in Cells(b, n) <=> a \in Int /\ b <= a /\ a < b + n
  BY DEF Cells

(* A handle that is given another block, or none, leaves every other block *)
(* in its place and apart from it.                                         *)
LEMMA TakesPlace ==
    ASSUME BlocksPlaced, BlocksApart, NEW h \in XmsHandles, NEW e \in XmsEntry,
           handles' = [handles EXCEPT ![h] = e],
           e.inUse \/ e = FreeHandle,
           regions \ Region(handles[h]) \subseteq regions',
           e.kb > 0 => /\ e.kb \in XmsSizes /\ e.memory \in HostBuffers(e.kb)
                       /\ Region(e) \subseteq regions'
    PROVE  BlocksPlaced' /\ BlocksApart'
<1>1. \A g \in XmsHandles : handles'[g] = (IF g = h THEN e ELSE handles[g])
  BY DEF BlocksPlaced
<1>2. handles' \in [XmsHandles -> XmsEntry]
  BY DEF BlocksPlaced
<1>3. ASSUME NEW g \in XmsHandles, g # h
      PROVE  BlockPlaced(g)'
  <2>1. handles'[g] = handles[g] /\ BlockPlaced(g)
    BY <1>1, <1>3 DEF BlocksPlaced
  <2>2. ASSUME handles[g].kb > 0
        PROVE  <<handles[g].memory, Bytes(g)>> \in regions'
    <3>1. <<handles[g].memory, Bytes(g)>> \in regions
      BY <2>1, <2>2 DEF BlockPlaced
    <3>2. <<handles[g].memory, Bytes(g)>> # <<handles[h].memory, Bytes(h)>>
      <4>1. handles[g].kb \in Nat /\ handles[h].kb \in Nat /\ handles[g].memory \in Int
        BY DEF BlocksPlaced, XmsEntry
      <4>2. Bytes(g) \in Nat /\ Bytes(g) > 0 /\ (Bytes(h) > 0 <=> handles[h].kb > 0)
        BY <2>2, <4>1, BytesNat DEF Bytes
      <4>3. handles[g].memory \in BlockCells(g)
        BY <4>1, <4>2, CellsAre DEF BlockCells
      <4>4. handles[h].kb > 0 => BlockCells(g) \cap BlockCells(h) = {}
        BY <1>3, <2>2 DEF BlocksApart
      <4> QED
        BY <4>2, <4>3, <4>4 DEF BlockCells
    <3> QED
      BY <3>1, <3>2 DEF Region, Bytes
  <2> QED
    BY <2>1, <2>2 DEF BlockPlaced, Bytes
<1>4. BlockPlaced(h)'
  <2>1. handles'[h] = e
    BY <1>1
  <2>2. e.kb > 0 => e.memory \in HeapBases /\ <<e.memory, e.kb * KbBytes>> \in regions'
    BY DEF HostBuffers, Region
  <2> QED
    BY <2>1, <2>2 DEF BlockPlaced, Bytes
<1>5. BlocksPlaced'
  BY <1>2, <1>3, <1>4 DEF BlocksPlaced
<1>6. ASSUME NEW g \in XmsHandles, g # h, handles[g].kb > 0, e.kb > 0
      PROVE  Cells(e.memory, e.kb * KbBytes) \cap BlockCells(g) = {}
  <2>1. <<handles[g].memory, Bytes(g)>> \in regions
    BY <1>6 DEF BlocksPlaced, BlockPlaced
  <2> QED
    BY <1>6, <2>1 DEF HostBuffers, BlockCells
<1>7. BlocksApart'
  BY <1>1, <1>6 DEF BlocksApart, BlockCells, Bytes
<1> QED
  BY <1>5, <1>7

(* What a call does to the table: nothing, a block for a handle that holds *)
(* no lock, or a lock more or less.                                        *)
Replaces(h, e) ==
    /\ handles' = [handles EXCEPT ![h] = e] /\ UNCHANGED told
    /\ handles[h].locks = 0 /\ e.locks = 0
    /\ e.inUse \/ e = FreeHandle
    /\ regions \ Region(handles[h]) \subseteq regions'
    /\ e.kb > 0 => /\ e.kb \in XmsSizes /\ e.memory \in HostBuffers(e.kb)
                   /\ Region(e) \subseteq regions'

LocksAs(h, locks) ==
    /\ handles' = [handles EXCEPT ![h].locks = locks]
    /\ handles[h].inUse /\ UNCHANGED regions
    /\ \/ locks > 0 /\ told' \subseteq told \cup {<<h, handles[h].memory>>}
       \/ told' = {t \in told : t[1] # h}

LEMMA LeastIn ==
    ASSUME NEW S \in SUBSET Nat, S # {}
    PROVE  Min(S) \in S /\ \A y \in S : Min(S) <= y
  BY LeastNatural DEF Min

LEMMA FirstUnused ==
    ASSUME NEW unused \in SUBSET XmsHandles, unused # {}
    PROVE  Min(unused) \in unused
  BY LeastIn, XmsAssumption

LEMMA SizesNat == XmsSizes \subseteq Nat /\ HeapBases \subseteq Int
  BY XmsAssumption

(* Byte loops: a copy in either direction moves every byte from where it   *)
(* was, however the two ranges overlap.  The loop's recursive function is  *)
(* shown to exist, and then to hold the bytes, by the least step at which  *)
(* it would not.                                                           *)
Stores(f, n, r, T, F) ==
    f = [i \in 0 .. n |-> IF i = 0 THEN r ELSE [f[i - 1] EXCEPT ![T[i]] = f[i - 1][F[i]]]]

LEMMA StoresExist ==
    ASSUME NEW n \in Nat, NEW r, NEW T, NEW F
    PROVE  \E f : Stores(f, n, r, T, F)
<1> DEFINE Fits(m, f) == f = [i \in 0 .. m |-> IF i = 0 THEN r ELSE [f[i - 1] EXCEPT ![T[i]] = f[i - 1][F[i]]]]
           Bad == {m \in Nat : ~ \E f : Fits(m, f)}
<1>1. \E f : Fits(0, f)
  <2> DEFINE f == [i \in 0 .. 0 |-> r]
  <2>1. Fits(0, f)
    OBVIOUS
  <2> QED
    BY <2>1
<1>2. ASSUME NEW m \in Nat, \E f : Fits(m, f)
      PROVE  \E f : Fits(m + 1, f)
  <2>1. PICK f : Fits(m, f)
    BY <1>2
  <2> DEFINE g == [i \in 0 .. m + 1 |->
                     IF i = m + 1 THEN [f[m] EXCEPT ![T[m + 1]] = f[m][F[m + 1]]] ELSE f[i]]
  <2>2. ASSUME NEW i \in 0 .. m + 1
        PROVE  g[i] = IF i = 0 THEN r ELSE [g[i - 1] EXCEPT ![T[i]] = g[i - 1][F[i]]]
    <3>1. CASE i = m + 1
      <4>1. i # 0 /\ i - 1 = m /\ g[m] = f[m]
        BY <3>1
      <4> QED
        BY <3>1, <4>1
    <3>2. CASE i # m + 1 /\ i # 0
      <4>1. i \in 0 .. m /\ i - 1 \in 0 .. m /\ g[i] = f[i] /\ g[i - 1] = f[i - 1]
        BY <3>2
      <4> QED
        BY <2>1, <3>2, <4>1
    <3>3. CASE i = 0
      BY <2>1, <3>3
    <3> QED
      BY <3>1, <3>2, <3>3
  <2>3. Fits(m + 1, g)
    <3> HIDE DEF g
    <3>1. g = [i \in 0 .. m + 1 |-> g[i]]
      BY DEF g
    <3> QED
      BY <2>2, <3>1
  <2> QED
    BY <2>3
<1> HIDE DEF Fits
<1>3. Bad = {}
  <2> SUFFICES ASSUME Bad # {} PROVE FALSE
    OBVIOUS
  <2>1. PICK m \in Bad : \A k \in Bad : m <= k
    BY LeastNatural
  <2>2. m \in Nat /\ m # 0
    BY <1>1, <2>1
  <2>3. m - 1 \in Nat /\ ~ (m - 1 \in Bad)
    BY <2>1, <2>2
  <2>4. \E f : Fits(m - 1 + 1, f)
    BY <1>2, <2>3
  <2> QED
    BY <2>1, <2>2, <2>4
<1> QED
  BY <1>3 DEF Fits, Stores

(* The bytes of a move, each taken from where it was before the move.      *)
Moves(moved, to, from, n) ==
    /\ DOMAIN moved = Addresses
    /\ \A a \in Addresses : moved[a] = IF a \in Cells(to, n) THEN ram[from + (a - to)] ELSE ram[a]

LEMMA CopyUpMoves ==
    ASSUME DOMAIN ram = Addresses, NEW to \in Nat, NEW from \in Nat, NEW n \in Nat,
           to <= from, from + n <= AddressEnd, AddressEnd \in Nat
    PROVE  Moves(CopyUp(to, from, n), to, from, n)
<1> DEFINE T == [i \in 0 .. n |-> to + i - 1]
           F == [i \in 0 .. n |-> from + i - 1]
<1>1. PICK f : Stores(f, n, ram, T, F)
  <2> HIDE DEF T, F
  <2> QED
    BY StoresExist
<1>2. f = [i \in 0 .. n |-> IF i = 0 THEN ram ELSE [f[i - 1] EXCEPT ![to + i - 1] = f[i - 1][from + i - 1]]]
  BY <1>1 DEF Stores
<1> HIDE DEF T, F
<1>3. PICK c : /\ c = [i \in 0 .. n |-> IF i = 0 THEN ram
                                        ELSE [c[i - 1] EXCEPT ![to + i - 1] = c[i - 1][from + i - 1]]]
               /\ CopyUp(to, from, n) = c[n]
  BY <1>2 DEF CopyUp
<1> DEFINE Bad == {i \in 0 .. n : ~ Moves(c[i], to, from, i)}
<1>4. Moves(c[0], to, from, 0)
  BY <1>3 DEF Moves, Cells
<1>5. ASSUME NEW i \in 1 .. n, Moves(c[i - 1], to, from, i - 1)
      PROVE  Moves(c[i], to, from, i)
  <2>1. c[i] = [c[i - 1] EXCEPT ![to + i - 1] = c[i - 1][from + i - 1]]
    <3>1. i \in 0 .. n /\ i # 0
      OBVIOUS
    <3> HIDE DEF Bad
    <3> QED
      BY <1>3, <3>1, Zenon
  <2>2. to + i - 1 \in Addresses /\ from + i - 1 \in Addresses
    BY DEF Addresses
  <2>3. c[i - 1][from + i - 1] = ram[from + i - 1]
    BY <1>5, <2>2 DEF Moves, Cells
  <2>4. DOMAIN c[i] = Addresses
    BY <1>5, <2>1 DEF Moves
  <2>5. ASSUME NEW a \in Addresses
        PROVE  c[i][a] = IF a \in Cells(to, i) THEN ram[from + (a - to)] ELSE ram[a]
    <3>1. a \in Int
      BY DEF Addresses
    <3>2. CASE a = to + i - 1
      <4>1. a \in Cells(to, i) /\ from + (a - to) = from + i - 1
        BY <3>2 DEF Cells
      <4>2. c[i][a] = c[i - 1][from + i - 1]
        BY <1>5, <2>1, <2>2, <3>2 DEF Moves
      <4> QED
        BY <2>3, <4>1, <4>2
    <3>3. CASE a # to + i - 1
      <4>1. a \in Cells(to, i) <=> a \in Cells(to, i - 1)
        BY <3>1, <3>3 DEF Cells
      <4>2. c[i][a] = c[i - 1][a]
        BY <1>5, <2>1, <3>3 DEF Moves
      <4> QED
        BY <1>5, <4>1, <4>2 DEF Moves
    <3> QED
      BY <3>2, <3>3
  <2> QED
    BY <2>4, <2>5 DEF Moves
<1>6. Bad = {}
  <2> SUFFICES ASSUME Bad # {} PROVE FALSE
    OBVIOUS
  <2>1. PICK i \in Bad : \A k \in Bad : i <= k
    <3>1. Bad \subseteq Nat
      OBVIOUS
    <3> HIDE DEF Bad
    <3> QED
      BY <3>1, LeastNatural
  <2>2. i \in 1 .. n /\ i - 1 \in 0 .. n
    BY <1>4, <2>1
  <2>3. Moves(c[i - 1], to, from, i - 1)
    <3>1. ~ (i - 1 \in Bad)
      BY <2>1, <2>2
    <3> QED
      BY <2>2, <3>1
  <2> QED
    BY <1>5, <2>1, <2>2, <2>3
<1>7. n \in 0 .. n
  OBVIOUS
<1> QED
  BY <1>3, <1>6, <1>7

LEMMA CopyDownMoves ==
    ASSUME DOMAIN ram = Addresses, NEW to \in Nat, NEW from \in Nat, NEW n \in Nat,
           from <= to, to + n <= AddressEnd, AddressEnd \in Nat
    PROVE  Moves(CopyDown(to, from, n), to, from, n)
<1> DEFINE T == [i \in 0 .. n |-> to + n - i]
           F == [i \in 0 .. n |-> from + n - i]
<1>1. PICK f : Stores(f, n, ram, T, F)
  <2> HIDE DEF T, F
  <2> QED
    BY StoresExist
<1>2. f = [i \in 0 .. n |-> IF i = 0 THEN ram ELSE [f[i - 1] EXCEPT ![to + n - i] = f[i - 1][from + n - i]]]
  BY <1>1 DEF Stores
<1> HIDE DEF T, F
<1>3. PICK c : /\ c = [i \in 0 .. n |-> IF i = 0 THEN ram
                                        ELSE [c[i - 1] EXCEPT ![to + n - i] = c[i - 1][from + n - i]]]
               /\ CopyDown(to, from, n) = c[n]
  BY <1>2 DEF CopyDown
<1> DEFINE Bad == {i \in 0 .. n : ~ Moves(c[i], to + n - i, from + n - i, i)}
<1>4. Moves(c[0], to + n - 0, from + n - 0, 0)
  BY <1>3 DEF Moves, Cells
<1>5. ASSUME NEW i \in 1 .. n, Moves(c[i - 1], to + n - (i - 1), from + n - (i - 1), i - 1)
      PROVE  Moves(c[i], to + n - i, from + n - i, i)
  <2>1. c[i] = [c[i - 1] EXCEPT ![to + n - i] = c[i - 1][from + n - i]]
    <3>1. i \in 0 .. n /\ i # 0
      OBVIOUS
    <3> HIDE DEF Bad
    <3> QED
      BY <1>3, <3>1, Zenon
  <2>2. to + n - i \in Addresses /\ from + n - i \in Addresses
    BY DEF Addresses
  <2>3. c[i - 1][from + n - i] = ram[from + n - i]
    BY <1>5, <2>2 DEF Moves, Cells
  <2>4. DOMAIN c[i] = Addresses
    BY <1>5, <2>1 DEF Moves
  <2>5. ASSUME NEW a \in Addresses
        PROVE  c[i][a] = IF a \in Cells(to + n - i, i) THEN ram[from + n - i + (a - (to + n - i))] ELSE ram[a]
    <3>1. a \in Int
      BY DEF Addresses
    <3>2. CASE a = to + n - i
      <4>1. a \in Cells(to + n - i, i) /\ from + n - i + (a - (to + n - i)) = from + n - i
        BY <3>2 DEF Cells
      <4>2. c[i][a] = c[i - 1][from + n - i]
        BY <1>5, <2>1, <2>2, <3>2 DEF Moves
      <4> QED
        BY <2>3, <4>1, <4>2
    <3>3. CASE a # to + n - i
      <4>1. a \in Cells(to + n - i, i) <=> a \in Cells(to + n - (i - 1), i - 1)
        BY <3>1, <3>3 DEF Cells
      <4>2. c[i][a] = c[i - 1][a]
        BY <1>5, <2>1, <3>3 DEF Moves
      <4>3. from + n - i + (a - (to + n - i)) = from + n - (i - 1) + (a - (to + n - (i - 1)))
        BY <3>1
      <4> QED
        BY <1>5, <4>1, <4>2, <4>3 DEF Moves
    <3> QED
      BY <3>2, <3>3
  <2> QED
    BY <2>4, <2>5 DEF Moves
<1>6. Bad = {}
  <2> SUFFICES ASSUME Bad # {} PROVE FALSE
    OBVIOUS
  <2>1. PICK i \in Bad : \A k \in Bad : i <= k
    <3>1. Bad \subseteq Nat
      OBVIOUS
    <3> HIDE DEF Bad
    <3> QED
      BY <3>1, LeastNatural
  <2>2. i \in 1 .. n /\ i - 1 \in 0 .. n
    BY <1>4, <2>1
  <2>3. Moves(c[i - 1], to + n - (i - 1), from + n - (i - 1), i - 1)
    <3>1. ~ (i - 1 \in Bad)
      BY <2>1, <2>2
    <3> QED
      BY <2>2, <3>1
  <2> QED
    BY <1>5, <2>1, <2>2, <2>3
<1>7. n \in 0 .. n
  OBVIOUS
<1>8. to + n - n = to /\ from + n - n = from
  OBVIOUS
<1> QED
  BY <1>3, <1>6, <1>7, <1>8

-----------------------------------------------------------------------------
(* Extended memory: what the blocks hold.                                  *)

LEMMA ProductsOrdered ==
    ASSUME NEW a \in Nat, NEW b \in Nat, NEW k \in Nat, a <= b
    PROVE  a * k <= b * k
<1>1. PICK d \in Nat : b = a + d
  <2>1. b - a \in Nat /\ b = a + (b - a)
    OBVIOUS
  <2> QED
    BY <2>1
<1>2. b * k = a * k + d * k /\ d * k \in Nat /\ a * k \in Nat
  BY <1>1
<1> QED
  BY <1>2

LEMMA CellsInSpace ==
    ASSUME NEW b \in HeapBases, NEW kb \in XmsSizes
    PROVE  /\ b \in Nat /\ b >= DirectEnd
           /\ AddressEnd \in Nat /\ DirectEnd <= AddressEnd
           /\ b + kb * KbBytes <= AddressEnd
           /\ \A a \in Cells(b, kb * KbBytes) : a \in Addresses
<1> DEFINE top == Max(HeapBases)
           most == Max(XmsSizes)
<1>1. top \in Nat /\ most \in Nat /\ b \in Nat /\ kb \in Nat /\ b <= top /\ kb <= most /\ b >= DirectEnd
      /\ DirectEnd <= top /\ KbBytes \in Nat
  BY XmsAssumption
<1>2. AddressEnd = top + most * KbBytes
  BY DEF AddressEnd
<1> HIDE DEF top, most
<1>3. kb * KbBytes <= most * KbBytes /\ kb * KbBytes \in Nat /\ most * KbBytes \in Nat
  BY <1>1, ProductsOrdered
<1>4. AddressEnd \in Nat /\ DirectEnd <= AddressEnd /\ b + kb * KbBytes <= AddressEnd
  BY <1>1, <1>2, <1>3, XmsAssumption
<1> QED
  BY <1>1, <1>3, <1>4, CellsAre DEF Addresses

(* What a block in use holds.                                              *)
Holds(h) ==
    /\ DOMAIN promised[h] = 1 .. Bytes(h)
    /\ \A i \in 1 .. Bytes(h) : ram[handles[h].memory + i - 1] = promised[h][i]

XmsContents ==
    /\ DOMAIN ram = Addresses /\ DOMAIN promised = XmsHandles
    /\ \A h \in XmsHandles : handles[h].inUse => Holds(h)

(* The bytes a handle's new block of n bytes holds, and those outside it.  *)
FillsAs(h, e, n, bytes) ==
    /\ DOMAIN ram' = Addresses
    /\ \A a \in Addresses : ram'[a] = ram[a] \/ (e.kb > 0 /\ a \in Cells(e.memory, n))
    /\ promised' = [promised EXCEPT ![h] = bytes]
    /\ DOMAIN bytes = 1 .. n
    /\ \A i \in 1 .. n : ram'[e.memory + i - 1] = bytes[i]

Fills(h, e) == \E bytes : FillsAs(h, e, e.kb * KbBytes, bytes)

LEMMA OtherHolds ==
    ASSUME XmsTables, XmsContents, NEW g \in XmsHandles, handles[g].inUse,
           handles'[g].kb = handles[g].kb, handles'[g].memory = handles[g].memory,
           promised'[g] = promised[g],
           handles[g].kb > 0 => \A a \in BlockCells(g) : ram'[a] = ram[a]
    PROVE  Holds(g)'
<1>1. handles[g].kb \in Nat /\ handles[g].memory \in Int
  BY DEF XmsTables, BlocksPlaced, XmsEntry
<1>2. Bytes(g) \in Nat /\ (handles[g].kb > 0 <=> Bytes(g) > 0) /\ Bytes(g)' = Bytes(g)
  BY <1>1, BytesNat DEF Bytes
<1>3. Holds(g)
  BY DEF XmsContents
<1>4. ASSUME NEW i \in 1 .. Bytes(g)
      PROVE  ram'[handles[g].memory + i - 1] = promised[g][i]
  <2>1. handles[g].memory + i - 1 \in BlockCells(g) /\ handles[g].kb > 0
    BY <1>1, <1>2, CellsAre DEF BlockCells
  <2> QED
    BY <1>3, <2>1 DEF Holds
<1> QED
  BY <1>2, <1>3, <1>4 DEF Holds

LEMMA FillingKeeps ==
    ASSUME XmsTables, XmsContents, NEW h \in XmsHandles, NEW e \in XmsEntry,
           Replaces(h, e), Fills(h, e)
    PROVE  XmsContents'
<1>1. BlocksPlaced' /\ BlocksApart'
  BY TakesPlace DEF XmsTables, Replaces
<1>2. \A g \in XmsHandles : handles'[g] = (IF g = h THEN e ELSE handles[g])
  BY DEF XmsTables, BlocksPlaced, Replaces
<1>3. PICK bytes : FillsAs(h, e, e.kb * KbBytes, bytes)
  BY DEF Fills
<1>4. /\ DOMAIN promised' = XmsHandles
      /\ \A g \in XmsHandles : promised'[g] = (IF g = h THEN bytes ELSE promised[g])
  BY <1>3 DEF XmsContents, FillsAs
<1>5. Holds(h)'
  BY <1>2, <1>3, <1>4 DEF Holds, Bytes, FillsAs
<1>6. ASSUME NEW g \in XmsHandles, g # h, handles[g].inUse
      PROVE  Holds(g)'
  <2>1. ASSUME handles[g].kb > 0, NEW a \in BlockCells(g)
        PROVE  ram'[a] = ram[a]
    <3>1. handles[g].memory \in HeapBases /\ handles[g].kb \in XmsSizes
      BY <2>1 DEF XmsTables, BlocksPlaced, BlockPlaced
    <3>2. a \in Addresses
      BY <2>1, <3>1, CellsInSpace DEF BlockCells, Bytes
    <3>3. e.kb > 0 => ~ (a \in Cells(e.memory, e.kb * KbBytes))
      BY <1>1, <1>2, <1>6, <2>1 DEF BlocksApart, BlockCells, Bytes
    <3> QED
      BY <1>3, <3>2, <3>3 DEF FillsAs
  <2> QED
    BY <1>2, <1>4, <1>6, <2>1, OtherHolds
<1> QED
  BY <1>2, <1>3, <1>4, <1>5, <1>6 DEF XmsContents, FillsAs

LEMMA FillsNone ==
    ASSUME XmsContents, NEW h, NEW e, NEW bytes, e.kb = 0, UNCHANGED ram,
           promised' = [promised EXCEPT ![h] = bytes], DOMAIN bytes = 1 .. 0
    PROVE  Fills(h, e)
<1>1. 0 = e.kb * KbBytes
  BY XmsAssumption
<1>2. FillsAs(h, e, 0, bytes)
  BY DEF FillsAs, XmsContents
<1> QED
  BY <1>1, <1>2 DEF Fills

LEMMA AllocateIs ==
    ASSUME XmsTables, XmsContents, DosXmsAllocate
    PROVE  \/ UNCHANGED <<handles, regions, told, ram, promised>>
           \/ \E h \in XmsHandles, e \in XmsEntry : Replaces(h, e) /\ Fills(h, e)
<1>0. BlocksPlaced
  BY DEF XmsTables
<1>1. PICK kb \in XmsSizes :
        LET unused == {h \in XmsHandles : ~handles[h].inUse}
            h      == Min(unused)
            entry(b) == [FreeHandle EXCEPT !.inUse = TRUE, !.kb = kb, !.memory = b]
        IN \/ Refused
           \/ /\ kb = 0 /\ unused # {}
              /\ handles' = [handles EXCEPT ![h] = entry(NoMemory)]
              /\ promised' = [promised EXCEPT ![h] = <<>>]
              /\ UNCHANGED <<regions, ram, told>>
           \/ /\ kb > 0 /\ unused # {}
              /\ \E b \in HostBuffers(kb) :
                    /\ handles' = [handles EXCEPT ![h] = entry(b)]
                    /\ regions' = regions \cup Region(entry(b))
                    /\ ram' = Cleared(b, kb * KbBytes)
              /\ promised' = [promised EXCEPT ![h] = Zeros(kb * KbBytes)]
              /\ UNCHANGED told
  BY DEF DosXmsAllocate
<1> DEFINE unused == {h \in XmsHandles : ~handles[h].inUse}
           entry(b) == [FreeHandle EXCEPT !.inUse = TRUE, !.kb = kb, !.memory = b]
<1>2. kb \in Nat
  BY SizesNat
<1>3. ASSUME unused # {}
      PROVE  Min(unused) \in XmsHandles /\ handles[Min(unused)] = FreeHandle
             /\ handles[Min(unused)].locks = 0
  <2>1. Min(unused) \in unused
    BY <1>3, FirstUnused
  <2>2. \A h \in unused : h \in XmsHandles /\ handles[h] = FreeHandle
    BY <1>0 DEF BlocksPlaced, BlockPlaced
  <2>3. FreeHandle.locks = 0
    BY DEF FreeHandle
  <2> QED
    BY <2>1, <2>2, <2>3
<1>4. \A b : /\ entry(b).inUse /\ entry(b).locks = 0 /\ entry(b).kb = kb /\ entry(b).memory = b
  BY DEF FreeHandle
<1>5. \A b \in Int : entry(b) \in XmsEntry
  BY <1>2 DEF XmsEntry, FreeHandle
<1> HIDE DEF unused, entry
<1>6. CASE Refused
  BY <1>6 DEF Refused
<1>7. CASE /\ kb = 0 /\ unused # {}
           /\ handles' = [handles EXCEPT ![Min(unused)] = entry(NoMemory)]
           /\ promised' = [promised EXCEPT ![Min(unused)] = <<>>]
           /\ UNCHANGED <<regions, ram, told>>
  <2>1. Replaces(Min(unused), entry(NoMemory))
    BY <1>3, <1>4, <1>7 DEF Replaces
  <2>2. Fills(Min(unused), entry(NoMemory))
    <3>1. DOMAIN <<>> = 1 .. 0 /\ entry(NoMemory).kb = 0
      BY <1>4, <1>7
    <3> QED
      BY <1>7, <3>1, FillsNone
  <2> QED
    BY <1>3, <1>5, <1>7, <2>1, <2>2 DEF NoMemory
<1>8. CASE /\ kb > 0 /\ unused # {}
           /\ \E b \in HostBuffers(kb) :
                 /\ handles' = [handles EXCEPT ![Min(unused)] = entry(b)]
                 /\ regions' = regions \cup Region(entry(b))
                 /\ ram' = Cleared(b, kb * KbBytes)
           /\ promised' = [promised EXCEPT ![Min(unused)] = Zeros(kb * KbBytes)]
           /\ UNCHANGED told
  <2>1. PICK b \in HostBuffers(kb) :
          /\ handles' = [handles EXCEPT ![Min(unused)] = entry(b)]
          /\ regions' = regions \cup Region(entry(b))
          /\ ram' = Cleared(b, kb * KbBytes)
    BY <1>8
  <2>2. Replaces(Min(unused), entry(b))
    BY <1>3, <1>4, <1>8, <2>1 DEF Replaces
  <2>3. entry(b) \in XmsEntry /\ b \in HeapBases
    BY <1>5, SizesNat DEF HostBuffers
  <2>4. PICK n \in Nat : n = kb * KbBytes
    BY <1>2, BytesNat
  <2>5. /\ b \in Nat /\ \A a \in Cells(b, n) : a \in Addresses
    BY <2>3, <2>4, CellsInSpace
  <2>6. /\ DOMAIN ram' = Addresses
        /\ \A a \in Addresses : ram'[a] = ram[a] \/ a \in Cells(b, n)
        /\ \A a \in Cells(b, n) : ram'[a] = 0
    BY <2>1, <2>4, <2>5 DEF Cleared
  <2>7. \A i \in 1 .. n : ram'[b + i - 1] = Zeros(n)[i]
    BY <2>5, <2>6, CellsAre DEF Zeros
  <2>8. Fills(Min(unused), entry(b))
    <3>1. DOMAIN Zeros(n) = 1 .. n
      BY DEF Zeros
    <3>2. n = entry(b).kb * KbBytes /\ entry(b).kb > 0 /\ entry(b).memory = b
      BY <1>4, <1>8, <2>4
    <3>3. promised' = [promised EXCEPT ![Min(unused)] = Zeros(n)]
      BY <1>8, <2>4
    <3>4. FillsAs(Min(unused), entry(b), n, Zeros(n))
      BY <2>6, <2>7, <3>1, <3>2, <3>3 DEF FillsAs
    <3> QED
      BY <3>2, <3>4 DEF Fills
  <2> QED
    BY <1>3, <1>8, <2>2, <2>3, <2>8
<1> QED
  BY <1>1, <1>6, <1>7, <1>8 DEF unused, entry

LEMMA FreeIs ==
    ASSUME XmsTables, XmsContents, DosXmsFree
    PROVE  \/ UNCHANGED <<handles, regions, told, ram, promised>>
           \/ \E h \in XmsHandles, e \in XmsEntry : Replaces(h, e) /\ Fills(h, e)
<1>1. FreeHandle \in XmsEntry /\ FreeHandle.locks = 0 /\ FreeHandle.kb = 0
  BY DEF FreeHandle, XmsEntry, NoMemory
<1>2. CASE Refused
  BY <1>2 DEF Refused
<1>3. ASSUME NEW h \in XmsHandles \cup {0},
             DosXmsGetHandle(h) /\ handles[h].locks = 0,
             regions' = regions \ Region(handles[h]),
             handles' = [handles EXCEPT ![h] = FreeHandle],
             promised' = [promised EXCEPT ![h] = <<>>],
             UNCHANGED <<ram, told>>
      PROVE  h \in XmsHandles /\ Replaces(h, FreeHandle) /\ Fills(h, FreeHandle)
  <2>1. h \in XmsHandles
    BY <1>3 DEF DosXmsGetHandle, Entry, FreeHandle
  <2>2. Replaces(h, FreeHandle)
    BY <1>1, <1>3 DEF Replaces
  <2>3. DOMAIN <<>> = 1 .. 0
    OBVIOUS
  <2>4. Fills(h, FreeHandle)
    BY <1>1, <1>3, <2>3, FillsNone
  <2> QED
    BY <2>1, <2>2, <2>4
<1> QED
  BY <1>1, <1>2, <1>3 DEF DosXmsFree

LEMMA KeptIs ==
    ASSUME NEW old \in Nat, NEW new \in Nat
    PROVE  BytesKept(old, new) = IF old <= new THEN old * KbBytes ELSE new * KbBytes
<1>1. Min({old, new}) \in {old, new} /\ Min({old, new}) <= old /\ Min({old, new}) <= new
  BY LeastIn
<1>2. Min({old, new}) = IF old <= new THEN old ELSE new
  BY <1>1
<1> QED
  BY <1>2 DEF BytesKept

(* A block that moves takes what both sizes have, and zeros above it.      *)
LEMMA CarriedHolds ==
    ASSUME XmsContents, NEW h \in XmsHandles, Holds(h), handles[h].kb \in Nat, handles[h].memory \in Int,
           NEW kb \in XmsSizes, kb > 0, NEW b \in HeapBases,
           ram' = Carried(handles[h].memory, b, kb * KbBytes, BytesKept(handles[h].kb, kb))
    PROVE  /\ DOMAIN ram' = Addresses
           /\ \A a \in Addresses : ram'[a] = ram[a] \/ a \in Cells(b, kb * KbBytes)
           /\ \A i \in 1 .. kb * KbBytes :
                 ram'[b + i - 1] = Resized(promised[h], kb * KbBytes)[i]
<1>0. kb \in Nat /\ KbBytes \in Nat
  BY SizesNat, XmsAssumption
<1>1. PICK n \in Nat : n = kb * KbBytes
  BY <1>0, BytesNat
<1>2. PICK m \in Nat : m = Bytes(h)
  BY BytesNat DEF Bytes
<1>3. PICK kept \in Nat : kept = BytesKept(handles[h].kb, kb)
  BY <1>0, <1>1, <1>2, KeptIs DEF Bytes
<1>4. kept <= n /\ \A i \in 1 .. n : i <= kept <=> i <= m
  <2>1. CASE handles[h].kb <= kb
    <3>1. m <= n /\ kept = m
      BY <1>0, <1>1, <1>2, <1>3, <2>1, KeptIs, ProductsOrdered DEF Bytes
    <3> QED
      BY <3>1
  <2>2. CASE ~ (handles[h].kb <= kb)
    <3>1. kept = n
      BY <1>0, <1>1, <1>3, <2>2, KeptIs
    <3>2. kb <= handles[h].kb
      BY <1>0, <2>2
    <3>3. n <= m
      BY <1>0, <1>1, <1>2, <3>2, ProductsOrdered DEF Bytes
    <3> QED
      BY <3>1, <3>3
  <2> QED
    BY <2>1, <2>2
<1>5. b \in Nat /\ \A a \in Cells(b, n) : a \in Addresses
  BY <1>1, CellsInSpace
<1>6. ram' = [a \in Addresses |->
                IF a \in Cells(b, kept) THEN ram[handles[h].memory + (a - b)]
                ELSE IF a \in Cells(b, n) THEN 0 ELSE ram[a]]
  BY <1>1, <1>3 DEF Carried
<1>7. \A a \in Addresses : ram'[a] = ram[a] \/ a \in Cells(b, n)
  <2>1. \A a \in Cells(b, kept) : a \in Cells(b, n)
    BY <1>4, <1>5, CellsAre
  <2> QED
    BY <1>6, <2>1
<1>8. Len(promised[h]) = m /\ \A i \in 1 .. m : ram[handles[h].memory + i - 1] = promised[h][i]
  BY <1>2 DEF Holds
<1>9. ASSUME NEW i \in 1 .. n
      PROVE  ram'[b + i - 1] = Resized(promised[h], n)[i]
  <2>1. Resized(promised[h], n)[i] = IF i <= m THEN promised[h][i] ELSE 0
    BY <1>8 DEF Resized
  <2>2. b + i - 1 \in Cells(b, n) /\ b + i - 1 \in Addresses /\ (b + i - 1 \in Cells(b, kept) <=> i <= kept)
    BY <1>5, CellsAre
  <2>3. PICK x : x = b + i - 1
    OBVIOUS
  <2>4. PICK y : y = handles[h].memory + i - 1
    OBVIOUS
  <2>5. ram'[x] = IF i <= kept THEN ram[y] ELSE 0
    <3>1. x \in Addresses /\ x \in Cells(b, n) /\ (x \in Cells(b, kept) <=> i <= kept)
      BY <2>2, <2>3
    <3>2. handles[h].memory + (x - b) = y
      BY <1>5, <2>3, <2>4
    <3> QED
      BY <1>6, <3>1, <3>2
  <2>6. i <= m => ram[y] = promised[h][i]
    <3>1. i <= m => i \in 1 .. m
      OBVIOUS
    <3> QED
      BY <1>8, <2>4, <3>1
  <2>7. i <= kept <=> i <= m
    BY <1>4
  <2> QED
    BY <2>1, <2>3, <2>5, <2>6, <2>7
<1> QED
  BY <1>1, <1>6, <1>7, <1>9

LEMMA ReallocateIs ==
    ASSUME XmsTables, XmsContents, DosXmsReallocate
    PROVE  \/ UNCHANGED <<handles, regions, told, ram, promised>>
           \/ \E h \in XmsHandles, e \in XmsEntry : Replaces(h, e) /\ Fills(h, e)
<1>1. CASE Refused
  BY <1>1 DEF Refused
<1>2. ASSUME NEW h \in XmsHandles \cup {0}, NEW kb \in XmsSizes,
             DosXmsGetHandle(h), MayReallocate(handles[h]),
             NEW b \in IF kb = 0 THEN {NoMemory} ELSE HostBuffers(kb),
             NEW new, new = [handles[h] EXCEPT !.kb = kb, !.memory = b],
             handles' = [handles EXCEPT ![h] = new],
             regions' = IF kb = 0 THEN regions \ Region(handles[h])
                        ELSE (regions \ Region(handles[h])) \cup Region(new),
             ram' = IF kb = 0 THEN ram
                    ELSE Carried(handles[h].memory, b, kb * KbBytes, BytesKept(handles[h].kb, kb)),
             promised' = [promised EXCEPT ![h] = Resized(promised[h], kb * KbBytes)],
             UNCHANGED told
      PROVE  h \in XmsHandles /\ new \in XmsEntry /\ Replaces(h, new) /\ Fills(h, new)
  <2>1. h \in XmsHandles /\ handles[h].inUse /\ handles[h] \in XmsEntry
    BY <1>2 DEF DosXmsGetHandle, Entry, FreeHandle, XmsTables, BlocksPlaced
  <2>2. kb \in Nat /\ b \in Int
    BY <1>2, SizesNat DEF HostBuffers, NoMemory
  <2>3. new \in XmsEntry /\ new.kb = kb /\ new.memory = b /\ new.locks = handles[h].locks /\ new.inUse
    BY <1>2, <2>1, <2>2 DEF XmsEntry
  <2>4. Replaces(h, new)
    BY <1>2, <2>1, <2>2, <2>3 DEF Replaces, MayReallocate
  <2>5. DOMAIN Resized(promised[h], kb * KbBytes) = 1 .. kb * KbBytes
    BY DEF Resized
  <2>6. CASE kb = 0
    <3>1. kb * KbBytes = 0 /\ ram' = ram
      BY <1>2, <2>6, XmsAssumption
    <3>2. Fills(h, new)
      BY <1>2, <2>3, <2>5, <2>6, <3>1, FillsNone
    <3> QED
      BY <2>1, <2>3, <2>4, <3>2
  <2>7. CASE kb # 0
    <3>1. /\ kb > 0 /\ b \in HeapBases /\ Holds(h) /\ handles[h].kb \in Nat /\ handles[h].memory \in Int
          /\ ram' = Carried(handles[h].memory, b, kb * KbBytes, BytesKept(handles[h].kb, kb))
      BY <1>2, <2>1, <2>2, <2>7 DEF HostBuffers, XmsContents, XmsEntry
    <3>2. /\ DOMAIN ram' = Addresses
          /\ \A a \in Addresses : ram'[a] = ram[a] \/ a \in Cells(b, kb * KbBytes)
          /\ \A i \in 1 .. kb * KbBytes :
                ram'[b + i - 1] = Resized(promised[h], kb * KbBytes)[i]
      BY <2>1, <3>1, CarriedHolds
    <3>3. PICK n : n = kb * KbBytes
      OBVIOUS
    <3>4. n = new.kb * KbBytes /\ new.kb > 0 /\ new.memory = b
      BY <2>3, <3>1, <3>3
    <3>5. FillsAs(h, new, n, Resized(promised[h], n))
      BY <1>2, <2>5, <3>2, <3>3, <3>4 DEF FillsAs
    <3>6. Fills(h, new)
      BY <3>4, <3>5 DEF Fills
    <3> QED
      BY <2>1, <2>3, <2>4, <3>6
  <2> QED
    BY <2>1, <2>3, <2>4, <2>6, <2>7
<1> QED
  <2>1. PICK h \in XmsHandles \cup {0}, kb \in XmsSizes :
          \/ Refused
          \/ /\ DosXmsGetHandle(h) /\ MayReallocate(handles[h]) /\ UNCHANGED told
             /\ \E b \in IF kb = 0 THEN {NoMemory} ELSE HostBuffers(kb) :
                   LET old   == handles[h]
                       new   == [old EXCEPT !.kb = kb, !.memory = b]
                       freed == regions \ Region(old)
                   IN /\ handles' = [handles EXCEPT ![h] = new]
                      /\ regions' = IF kb = 0 THEN freed ELSE freed \cup Region(new)
                      /\ ram' = IF kb = 0 THEN ram
                                ELSE Carried(old.memory, b, kb * KbBytes, BytesKept(old.kb, kb))
             /\ promised' = [promised EXCEPT ![h] = Resized(promised[h], kb * KbBytes)]
    BY DEF DosXmsReallocate
  <2> QED
    BY <1>1, <1>2, <2>1

(* A valid end of a move lies in the guest's own memory or in its block.   *)
LEMMA EndIs ==
    ASSUME XmsTables, XmsContents, NEW e \in Ends, NEW n \in Nat, n > 0, EndValid(e, n)
    PROVE  /\ e.offset \in Nat /\ EndAddress(e) \in Nat
           /\ EndAddress(e) + n <= AddressEnd /\ AddressEnd \in Nat
           /\ e.handle = 0 => EndAddress(e) = e.offset /\ e.offset + n <= DirectEnd
           /\ e.handle # 0 => /\ e.handle \in XmsHandles /\ handles[e.handle].inUse
                              /\ handles[e.handle].kb > 0
                              /\ EndAddress(e) = handles[e.handle].memory + e.offset
                              /\ e.offset + n <= Bytes(e.handle) /\ Bytes(e.handle) \in Nat
                              /\ handles[e.handle].memory \in Nat
           /\ \A i \in 1 .. n : ram[EndAddress(e) + i - 1] = PromisedAt(e, i)
<1>0. /\ Max(XmsSizes) \in Nat /\ Max(XmsSizes) * KbBytes \in Nat
      /\ DirectEnd \in Nat /\ DirectEnd <= AddressEnd /\ AddressEnd \in Nat
  <2>1. Max(XmsSizes) \in XmsSizes /\ Max(HeapBases) \in HeapBases /\ Max(XmsSizes) \in Nat
    BY XmsAssumption
  <2> QED
    BY <2>1, BytesNat, CellsInSpace, XmsAssumption
<1>1. e.offset \in Nat /\ e.handle \in {0} \cup XmsHandles
  BY <1>0 DEF Ends
<1>2. CASE e.handle = 0
  <2>1. EndAddress(e) = e.offset /\ e.offset + n <= DirectEnd
    BY <1>0, <1>1, <1>2 DEF EndValid, EndSize, EndAddress
  <2>2. \A i \in 1 .. n : ram[EndAddress(e) + i - 1] = PromisedAt(e, i)
    BY <1>2, <2>1 DEF PromisedAt
  <2> QED
    BY <1>0, <1>1, <1>2, <2>1, <2>2
<1>3. CASE e.handle # 0
  <2> DEFINE h == e.handle
  <2>1. h \in XmsHandles /\ handles[h].inUse /\ Holds(h)
    BY <1>1, <1>3 DEF EndValid, DosXmsGetHandle, Entry, FreeHandle, XmsContents
  <2>2. handles[h].kb \in Nat /\ Bytes(h) \in Nat /\ (handles[h].kb > 0 <=> Bytes(h) > 0)
    BY <2>1, BytesNat DEF XmsTables, BlocksPlaced, XmsEntry, Bytes
  <2>3. EndSize(e) = Bytes(h) /\ EndAddress(e) = handles[h].memory + e.offset
    BY <1>3, <2>1 DEF EndSize, EndAddress, Entry, Bytes
  <2>4. e.offset + n <= Bytes(h)
    BY <1>1, <2>2, <2>3 DEF EndValid
  <2>5. handles[h].kb > 0
    BY <1>1, <2>2, <2>4
  <2>6. handles[h].memory \in Nat /\ handles[h].memory + Bytes(h) <= AddressEnd
    <3>1. handles[h].memory \in HeapBases /\ handles[h].kb \in XmsSizes
      BY <2>1, <2>5 DEF XmsTables, BlocksPlaced, BlockPlaced
    <3> QED
      BY <3>1, CellsInSpace DEF Bytes
  <2>7. ASSUME NEW i \in 1 .. n
        PROVE  ram[EndAddress(e) + i - 1] = PromisedAt(e, i)
    <3>1. e.offset + i \in 1 .. Bytes(h)
      BY <1>1, <2>2, <2>4
    <3>2. PICK k : k = e.offset + i
      OBVIOUS
    <3>3. ram[handles[h].memory + k - 1] = promised[h][k]
      BY <2>1, <3>1, <3>2 DEF Holds
    <3>4. EndAddress(e) + i - 1 = handles[h].memory + k - 1
      BY <1>1, <2>3, <2>6, <3>2
    <3> QED
      BY <1>3, <3>2, <3>3, <3>4 DEF PromisedAt
  <2> QED
    BY <1>0, <1>1, <1>3, <2>1, <2>2, <2>3, <2>4, <2>5, <2>6, <2>7
<1> QED
  BY <1>2, <1>3

LEMMA CopiedMoves ==
    ASSUME DOMAIN ram = Addresses, NEW to \in Nat, NEW from \in Nat, NEW n \in Nat,
           to + n <= AddressEnd, from + n <= AddressEnd, AddressEnd \in Nat
    PROVE  Moves(Copied(to, from, n), to, from, n)
<1>1. CASE to <= from
  BY <1>1, CopyUpMoves DEF Copied
<1>2. CASE ~ (to <= from)
  <2>1. from <= to
    BY <1>2
  <2> QED
    BY <1>2, <2>1, CopyDownMoves DEF Copied
<1> QED
  BY <1>1, <1>2

(* No cell of one block is in the guest's memory or in another's block.    *)
LEMMA CellsElsewhere ==
    ASSUME XmsTables, NEW g \in XmsHandles, handles[g].kb > 0, NEW a \in BlockCells(g)
    PROVE  /\ a \in Nat /\ a \in Addresses /\ a >= DirectEnd
           /\ \A h \in XmsHandles : h # g /\ handles[h].kb > 0 => ~ (a \in BlockCells(h))
<1>1. handles[g].memory \in HeapBases /\ handles[g].kb \in XmsSizes /\ handles[g].kb \in Nat
  BY DEF XmsTables, BlocksPlaced, BlockPlaced, XmsEntry
<1>2. Bytes(g) \in Nat
  BY <1>1, BytesNat DEF Bytes
<1>3. handles[g].memory \in Nat /\ handles[g].memory >= DirectEnd /\ a \in Addresses
  BY <1>1, CellsInSpace DEF BlockCells, Bytes
<1>4. a \in Nat /\ a >= DirectEnd
  BY <1>2, <1>3, CellsAre, XmsAssumption DEF BlockCells
<1> QED
  BY <1>3, <1>4 DEF XmsTables, BlocksApart

LEMMA MoveKeeps ==
    ASSUME XmsTables, XmsContents, NEW from \in Ends, NEW to \in Ends, NEW n \in Nat,
           n > 0, EndValid(from, n), EndValid(to, n),
           ram' = Copied(EndAddress(to), EndAddress(from), n),
           promised' = PromisedMove(from, to, n), UNCHANGED handles
    PROVE  XmsContents'
<1>1. PICK t \in Nat : t = EndAddress(to)
  BY EndIs
<1>2. PICK f \in Nat : f = EndAddress(from)
  BY EndIs
<1>3. t + n <= AddressEnd /\ f + n <= AddressEnd /\ AddressEnd \in Nat
  BY <1>1, <1>2, EndIs
<1>4. Moves(ram', t, f, n)
  BY <1>1, <1>2, <1>3, CopiedMoves DEF XmsContents
<1>5. \A i \in 1 .. n : ram[f + i - 1] = PromisedAt(from, i)
  BY <1>2, EndIs
<1>6. DOMAIN promised' = XmsHandles /\ DOMAIN ram' = Addresses
  BY <1>4 DEF XmsContents, PromisedMove, Moves
<1>7. ASSUME NEW g \in XmsHandles, handles[g].inUse, g # to.handle
      PROVE  Holds(g)'
  <2>1. ASSUME handles[g].kb > 0, NEW a \in BlockCells(g)
        PROVE  ram'[a] = ram[a]
    <3>1. a \in Nat /\ a \in Addresses /\ a >= DirectEnd
      BY <2>1, CellsElsewhere
    <3>2. ~ (a \in Cells(t, n))
      <4>1. CASE to.handle = 0
        <5>1. t + n <= DirectEnd
          BY <1>1, <4>1, EndIs
        <5> QED
          BY <3>1, <5>1, CellsAre, XmsAssumption
      <4>2. CASE to.handle # 0
        <5>1. /\ to.handle \in XmsHandles /\ handles[to.handle].kb > 0
              /\ t = handles[to.handle].memory + to.offset
              /\ to.offset + n <= Bytes(to.handle) /\ Bytes(to.handle) \in Nat
              /\ handles[to.handle].memory \in Nat /\ to.offset \in Nat
          BY <1>1, <4>2, EndIs
        <5>2. ~ (a \in BlockCells(to.handle))
          BY <1>7, <2>1, <5>1, CellsElsewhere
        <5> QED
          BY <3>1, <5>1, <5>2, CellsAre DEF BlockCells
      <4> QED
        BY <4>1, <4>2
    <3> QED
      BY <1>4, <3>1, <3>2 DEF Moves
  <2>2. promised'[g] = promised[g]
    BY <1>7 DEF PromisedMove, XmsContents
  <2> QED
    BY <1>7, <2>1, <2>2, OtherHolds
<1>8. ASSUME NEW h \in XmsHandles, h = to.handle
      PROVE  Holds(h)'
  <2>0. to.handle # 0
    BY <1>8, XmsAssumption
  <2>1. /\ h \in XmsHandles /\ handles[h].kb > 0 /\ handles[h].inUse
        /\ t = handles[h].memory + to.offset
        /\ to.offset + n <= Bytes(h) /\ Bytes(h) \in Nat
        /\ handles[h].memory \in Nat /\ to.offset \in Nat
    BY <1>1, <1>8, <2>0, EndIs
  <2>2. Holds(h)
    BY <2>1 DEF XmsContents
  <2>3. promised'[h] = [i \in DOMAIN promised[h] |-> IF i - to.offset \in 1 .. n
                                THEN PromisedAt(from, i - to.offset) ELSE promised[h][i]]
    BY <1>8, <2>0, <2>1 DEF PromisedMove, XmsContents
  <2>4. DOMAIN promised'[h] = 1 .. Bytes(h)
    BY <2>2, <2>3 DEF Holds
  <2>5. ASSUME NEW i \in 1 .. Bytes(h)
        PROVE  ram'[handles[h].memory + i - 1] = promised'[h][i]
    <3>1. PICK a : a = handles[h].memory + i - 1
      OBVIOUS
    <3>2. PICK k : k = i - to.offset
      OBVIOUS
    <3>3. a \in BlockCells(h) /\ k \in Int
      BY <2>1, <3>1, <3>2, CellsAre DEF BlockCells
    <3>4. a \in Nat /\ a \in Addresses
      BY <2>1, <3>3, CellsElsewhere
    <3>5. promised'[h][i] = IF k \in 1 .. n THEN PromisedAt(from, k) ELSE promised[h][i]
      BY <2>2, <2>3, <3>2 DEF Holds
    <3>6. a \in Cells(t, n) <=> k \in 1 .. n
      BY <2>1, <3>1, <3>2, CellsAre
    <3>7. CASE k \in 1 .. n
      <4>1. f + (a - t) = f + k - 1
        BY <2>1, <3>1, <3>2
      <4>2. ram'[a] = ram[f + (a - t)]
        BY <1>4, <3>4, <3>6, <3>7 DEF Moves
      <4>3. ram[f + k - 1] = PromisedAt(from, k)
        BY <1>5, <3>7
      <4> QED
        BY <3>1, <3>5, <3>7, <4>1, <4>2, <4>3
    <3>8. CASE ~ (k \in 1 .. n)
      <4>1. ram'[a] = ram[a]
        BY <1>4, <3>4, <3>6, <3>8 DEF Moves
      <4>2. ram[a] = promised[h][i]
        BY <2>2, <3>1 DEF Holds
      <4> QED
        BY <3>1, <3>5, <3>8, <4>1, <4>2
    <3> QED
      BY <3>7, <3>8
  <2>6. Bytes(h)' = Bytes(h)
    BY DEF Bytes
  <2> QED
    BY <2>4, <2>5, <2>6 DEF Holds
<1> QED
  BY <1>6, <1>7, <1>8 DEF XmsContents

(* The BIOS's block move writes the blocks as it writes memory.            *)
LEMMA StoreKeeps ==
    ASSUME XmsTables, XmsContents, NEW store, UNCHANGED handles,
           DOMAIN ram' = Addresses,
           \A a \in Addresses : ram'[a] = IF a \in DOMAIN store THEN store[a] ELSE ram[a],
           promised' = PromisedStore(store)
    PROVE  XmsContents'
<1>1. DOMAIN promised' = XmsHandles
  BY DEF PromisedStore
<1>2. ASSUME NEW g \in XmsHandles, handles[g].inUse
      PROVE  Holds(g)'
  <2>1. Holds(g) /\ Bytes(g)' = Bytes(g)
    BY <1>2 DEF XmsContents, Bytes
  <2>2. DOMAIN promised'[g] = 1 .. Bytes(g)
    BY <2>1 DEF PromisedStore, Holds
  <2>3. handles[g].kb \in Nat /\ handles[g].memory \in Int /\ Bytes(g) \in Nat /\ (handles[g].kb > 0 <=> Bytes(g) > 0)
    BY BytesNat DEF XmsTables, BlocksPlaced, XmsEntry, Bytes
  <2>4. ASSUME NEW i \in 1 .. Bytes(g)
        PROVE  ram'[handles[g].memory + i - 1] = promised'[g][i]
    <3>1. PICK a : a = handles[g].memory + i - 1
      OBVIOUS
    <3>2. a \in BlockCells(g) /\ handles[g].kb > 0
      BY <2>3, <3>1, CellsAre DEF BlockCells
    <3>3. a \in Addresses
      BY <3>2, CellsElsewhere
    <3>4. promised'[g][i] = IF a \in DOMAIN store THEN store[a] ELSE promised[g][i]
      BY <2>1, <3>1 DEF PromisedStore, Holds
    <3>5. ram[a] = promised[g][i]
      BY <2>1, <3>1 DEF Holds
    <3> QED
      BY <3>1, <3>3, <3>4, <3>5
  <2> QED
    BY <2>1, <2>2, <2>4 DEF Holds
<1> QED
  BY <1>1, <1>2 DEF XmsContents

LEMMA LockIs ==
    ASSUME BlocksPlaced, DosXmsLock \/ DosXmsUnlock
    PROVE  \/ UNCHANGED <<handles, regions, told>>
           \/ \E h \in XmsHandles, locks \in Nat : LocksAs(h, locks)
<1>1. CASE Refused
  BY <1>1 DEF Refused
<1>2. CASE DosXmsLock /\ ~ Refused
  <2>1. PICK h \in XmsHandles \cup {0} :
          /\ DosXmsGetHandle(h)
          /\ handles' = [handles EXCEPT ![h].locks = @ + 1]
          /\ told' = told \cup {<<h, handles[h].memory>>} /\ UNCHANGED regions
    BY <1>2 DEF DosXmsLock
  <2>2. h \in XmsHandles /\ handles[h].inUse /\ handles[h].locks \in Nat
    BY <2>1 DEF DosXmsGetHandle, Entry, FreeHandle, BlocksPlaced, XmsEntry
  <2>3. PICK locks \in Nat : locks = handles[h].locks + 1
    BY <2>2
  <2>4. handles' = [handles EXCEPT ![h].locks = locks] /\ locks > 0
    BY <2>1, <2>2, <2>3
  <2> QED
    BY <2>1, <2>2, <2>4 DEF LocksAs
<1>3. CASE DosXmsUnlock /\ ~ Refused
  <2>1. PICK h \in XmsHandles \cup {0} :
          /\ DosXmsGetHandle(h) /\ handles[h].locks > 0
          /\ handles' = [handles EXCEPT ![h].locks = @ - 1]
          /\ told' = (IF handles[h].locks = 1 THEN {t \in told : t[1] # h} ELSE told)
          /\ UNCHANGED regions
    BY <1>3 DEF DosXmsUnlock
  <2>2. h \in XmsHandles /\ handles[h].inUse /\ handles[h].locks \in Nat
    BY <2>1 DEF DosXmsGetHandle, Entry, FreeHandle, BlocksPlaced, XmsEntry
  <2>3. PICK locks \in Nat : locks = handles[h].locks - 1
    BY <2>1, <2>2
  <2>4. handles' = [handles EXCEPT ![h].locks = locks] /\ (handles[h].locks # 1 => locks > 0)
    BY <2>1, <2>2, <2>3
  <2> QED
    BY <2>1, <2>2, <2>4 DEF LocksAs
<1> QED
  BY <1>1, <1>2, <1>3

LEMMA XmsStepIs ==
    ASSUME XmsTables, XmsContents, [XmsNext]_xmsVars
    PROVE  \/ UNCHANGED <<handles, regions, told>> /\ XmsContents'
           \/ \E h \in XmsHandles, e \in XmsEntry : Replaces(h, e) /\ Fills(h, e)
           \/ \E h \in XmsHandles, locks \in Nat : LocksAs(h, locks) /\ UNCHANGED <<ram, promised>>
<1>0. ASSUME UNCHANGED <<handles, ram, promised>>
      PROVE  XmsContents'
  BY <1>0 DEF XmsContents, Holds, Bytes
<1>1. CASE RequestHma \/ ReleaseHma \/ UNCHANGED xmsVars \/ Refused
  BY <1>0, <1>1 DEF RequestHma, ReleaseHma, xmsVars, Refused
<1>2. CASE DosXmsMove
  <2>1. UNCHANGED <<handles, regions, told>>
    BY <1>2 DEF DosXmsMove, Refused
  <2>2. CASE ~ Refused
    <3>1. PICK from \in Ends, to \in Ends, n \in MoveLengths :
            /\ n > 0 /\ EndValid(from, n) /\ EndValid(to, n)
            /\ ram' = Copied(EndAddress(to), EndAddress(from), n)
            /\ promised' = PromisedMove(from, to, n)
      BY <1>2, <2>2 DEF DosXmsMove
    <3>2. n \in Nat
      BY XmsAssumption
    <3>3. XmsContents'
      BY <2>1, <3>1, <3>2, MoveKeeps
    <3> QED
      BY <2>1, <3>3
  <2> QED
    BY <1>1, <2>2
<1>3. CASE Int15MoveBlockAt
  <2>1. UNCHANGED <<handles, regions, told>>
    BY <1>3 DEF Int15MoveBlockAt, Refused
  <2>2. CASE ~ Refused
    <3>1. PICK from \in Addresses, to \in Addresses, n \in MoveLengths :
            \/ UNCHANGED <<ram, promised>>
            \/ /\ ram' = Replaced(ram, to, from, DosExtMemClassify(from, n), n)
               /\ promised' = PromisedStore(
                    [a \in Cells(to, n) |-> Byte(DosExtMemClassify(from, n), from + (a - to))])
      BY <1>3, <2>2 DEF Int15MoveBlockAt
    <3>2. CASE UNCHANGED <<ram, promised>>
      BY <1>0, <2>1, <3>2
    <3>3. CASE ~ UNCHANGED <<ram, promised>>
      <4>1. PICK store : store = [a \in Cells(to, n) |-> Byte(DosExtMemClassify(from, n), from + (a - to))]
        OBVIOUS
      <4>2. promised' = PromisedStore(store)
        BY <3>1, <3>3, <4>1
      <4>3. DOMAIN ram = Addresses
        BY DEF XmsContents
      <4>4. /\ DOMAIN ram' = Addresses
            /\ \A a \in Addresses : ram'[a] = IF a \in DOMAIN store THEN store[a] ELSE ram[a]
        BY <3>1, <3>3, <4>1, <4>3 DEF Replaced
      <4>5. XmsContents'
        BY <2>1, <4>2, <4>4, StoreKeeps
      <4> QED
        BY <2>1, <4>5
    <3> QED
      BY <3>2, <3>3
  <2> QED
    BY <1>1, <2>2
<1>4. ASSUME DosXmsAllocate \/ DosXmsFree \/ DosXmsReallocate
      PROVE  \/ UNCHANGED <<handles, regions, told, ram, promised>>
             \/ \E h \in XmsHandles, e \in XmsEntry : Replaces(h, e) /\ Fills(h, e)
  BY <1>4, AllocateIs, FreeIs, ReallocateIs
<1>5. CASE DosXmsAllocate \/ DosXmsFree \/ DosXmsReallocate
  BY <1>0, <1>4, <1>5
<1>6. CASE DosXmsLock \/ DosXmsUnlock
  <2>1. BlocksPlaced
    BY DEF XmsTables
  <2>2. UNCHANGED <<ram, promised>>
    BY <1>6 DEF DosXmsLock, DosXmsUnlock, Refused
  <2> QED
    BY <1>0, <1>6, <2>1, <2>2, LockIs
<1> QED
  BY <1>1, <1>2, <1>3, <1>5, <1>6 DEF XmsNext

LEMMA TablesStep ==
    ASSUME XmsTables, XmsContents, [XmsNext]_xmsVars
    PROVE  XmsTables' /\ XmsContents'
<1>0. BlocksPlaced /\ BlocksApart /\ ToldInv
  BY DEF XmsTables
<1>1. ASSUME UNCHANGED <<handles, regions, told>>
      PROVE  XmsTables'
  BY <1>0, <1>1
     DEF XmsTables, BlocksPlaced, BlockPlaced, BlocksApart, BlockCells, Bytes, ToldInv
<1>2. ASSUME NEW h \in XmsHandles, NEW e \in XmsEntry, Replaces(h, e)
      PROVE  XmsTables'
  <2>1. BlocksPlaced' /\ BlocksApart'
    BY <1>0, <1>2, TakesPlace DEF Replaces
  <2>2. ToldInv'
    BY <1>0, <1>2 DEF ToldInv, Replaces, BlocksPlaced
  <2> QED
    BY <2>1, <2>2 DEF XmsTables
<1>3. ASSUME NEW h \in XmsHandles, NEW locks \in Nat, LocksAs(h, locks)
      PROVE  XmsTables'
  <2>1. handles' \in [XmsHandles -> XmsEntry]
    BY <1>0, <1>3 DEF LocksAs, BlocksPlaced, XmsEntry
  <2>2. \A g \in XmsHandles :
          /\ handles'[g].kb = handles[g].kb /\ handles'[g].memory = handles[g].memory
          /\ handles'[g].inUse = handles[g].inUse
          /\ g # h => handles'[g] = handles[g]
    BY <1>0, <1>3 DEF LocksAs, BlocksPlaced, XmsEntry
  <2>3. handles'[h].locks = locks /\ handles[h].inUse
    BY <1>0, <1>3 DEF LocksAs, BlocksPlaced, XmsEntry
  <2>4. BlocksPlaced'
    BY <1>0, <1>3, <2>1, <2>2, <2>3 DEF BlocksPlaced, BlockPlaced, LocksAs, Bytes
  <2>5. BlocksApart'
    BY <1>0, <2>2 DEF BlocksApart, BlockCells, Bytes
  <2>6. ToldInv'
    BY <1>0, <1>3, <2>2, <2>3 DEF ToldInv, LocksAs
  <2> QED
    BY <2>4, <2>5, <2>6 DEF XmsTables
<1>4. ASSUME NEW h \in XmsHandles, NEW locks \in Nat, LocksAs(h, locks), UNCHANGED <<ram, promised>>
      PROVE  XmsContents'
  <2>1. \A g \in XmsHandles :
          /\ handles'[g].kb = handles[g].kb /\ handles'[g].memory = handles[g].memory
          /\ handles'[g].inUse = handles[g].inUse
    BY <1>0, <1>4 DEF LocksAs, BlocksPlaced, XmsEntry
  <2> QED
    BY <1>4, <2>1 DEF XmsContents, Holds, Bytes
<1> QED
  BY <1>1, <1>2, <1>3, <1>4, XmsStepIs, FillingKeeps

LEMMA TablesGiveLocks ==
    ASSUME XmsTables
    PROVE  LockHolds
<1> SUFFICES ASSUME NEW t \in told
             PROVE  LET entry == handles[t[1]]
                    IN /\ entry.inUse /\ entry.memory = t[2]
                       /\ entry.kb > 0 =>
                            /\ Region(entry) \subseteq regions
                            /\ DosExtMemClassify(t[2], entry.kb * KbBytes) = "emb"
  BY DEF LockHolds
<1> DEFINE h == t[1]
<1>1. h \in XmsHandles /\ handles[h].inUse /\ handles[h].memory = t[2]
  BY DEF XmsTables, ToldInv
<1>2. ASSUME handles[h].kb > 0
      PROVE  /\ Region(handles[h]) \subseteq regions
             /\ DosExtMemClassify(t[2], handles[h].kb * KbBytes) = "emb"
  <2>1. /\ handles[h].memory \in HeapBases /\ <<handles[h].memory, Bytes(h)>> \in regions
        /\ handles[h].kb \in Nat
    BY <1>1, <1>2 DEF XmsTables, BlocksPlaced, BlockPlaced, XmsEntry
  <2>2. Bytes(h) \in Nat /\ Bytes(h) > 0
    BY <1>2, <2>1, BytesNat DEF Bytes
  <2>3. t[2] \in Int /\ t[2] >= DirectEnd /\ DirectEnd \in Int
    BY <1>1, <2>1, XmsAssumption
  <2>4. h \in Holding(t[2], Bytes(h))
    BY <1>1, <1>2, <2>2, <2>3 DEF Holding, Bytes
  <2>5. DosExtMemClassify(t[2], Bytes(h)) = "emb"
    <3>1. Bytes(h) # 0 /\ ~ (t[2] + Bytes(h) <= DirectEnd) /\ Holding(t[2], Bytes(h)) # {}
      BY <2>2, <2>3, <2>4
    <3> QED
      BY <3>1, Zenon DEF DosExtMemClassify
  <2> QED
    BY <2>1, <2>5 DEF Region, Bytes
<1> QED
  BY <1>1, <1>2

LEMMA XmsStart == XmsInit => XmsTables /\ XmsContents
<1> SUFFICES ASSUME XmsInit PROVE XmsTables /\ XmsContents
  OBVIOUS
<1>1. XmsTables
  BY DEF XmsInit, XmsTables, BlocksPlaced, BlockPlaced, BlocksApart, ToldInv, XmsEntry, FreeHandle, NoMemory
<1>2. XmsContents
  BY DEF XmsInit, XmsContents, FreeHandle
<1> QED
  BY <1>1, <1>2

(* For every number of handles, sizes of blocks and places the host puts   *)
(* them: an address a lock call returned stays the block's, and findable   *)
(* by the BIOS's block move, until it is unlocked (DosXmsLock,             *)
(* DosXmsReallocate, DosExtMemClassify).                                   *)
THEOREM XmsLocksHold == XmsSpec => []LockHolds
<1>1. XmsInit => XmsTables /\ XmsContents
  BY XmsStart
<1> QED
  BY <1>1, TablesStep, TablesGiveLocks, PTL DEF XmsSpec

(* Whatever is allocated, resized, moved within and between blocks and     *)
(* the guest's memory, and freed: every block holds what was last put into *)
(* it and nothing of another's (DosXmsAllocate, DosXmsReallocate,          *)
(* DosXmsMove, Int15MoveBlockAt).                                          *)
THEOREM XmsBlocksKeep == XmsSpec => []BlocksKeepContents
<1>1. XmsInit => XmsTables /\ XmsContents
  BY XmsStart
<1>2. XmsTables /\ XmsContents => BlocksKeepContents
  <2> SUFFICES ASSUME XmsTables, XmsContents, NEW h \in XmsHandles, handles[h].inUse
               PROVE  /\ Len(promised[h]) = Bytes(h)
                      /\ \A i \in DOMAIN promised[h] : ram[handles[h].memory + i - 1] = promised[h][i]
    BY DEF BlocksKeepContents, Bytes
  <2>1. Holds(h)
    BY DEF XmsContents
  <2>2. Bytes(h) \in Nat
    BY BytesNat DEF XmsTables, BlocksPlaced, XmsEntry, Bytes
  <2> QED
    BY <2>1, <2>2 DEF Holds
<1> QED
  BY <1>1, <1>2, TablesStep, PTL DEF XmsSpec
-----------------------------------------------------------------------------
(* Expanded memory: where the value of each page is.                       *)

Slots == {Unmapped} \cup (EmsHandles \X Nat)

OnePlace(map) ==
    \A v, w \in Windows : v # w /\ map[v] # Unmapped => map[v] # map[w]

Owner == [inUse : BOOLEAN, isMapSaved : BOOLEAN, savedMap : [Windows -> Slots]]

Owned(o) ==
    /\ o \in [EmsHandles -> Owner]
    /\ \A h \in EmsHandles : OnePlace(o[h].savedMap)

(* A machine m: its windows, and buffers as long as the contents s.        *)
Shaped(m, s) ==
    /\ s \in [EmsHandles -> Seq(PageValues)]
    /\ m = [shown |-> m.shown, frame |-> m.frame, backing |-> m.backing]
    /\ m.shown \in [Windows -> Slots]
    /\ m.frame \in [Windows -> PageValues]
    /\ m.backing \in [EmsHandles -> Seq(PageValues)]
    /\ \A h \in EmsHandles : Len(m.backing[h]) = Len(s[h])

(* A window shows a page of a handle in use, no two windows the same one,  *)
(* and the contents s are in the windows and, for a page none shows, in    *)
(* the buffers.                                                            *)
Shows(m, o, s, w) ==
    m.shown[w] # Unmapped =>
        /\ o[m.shown[w][1]].inUse
        /\ m.shown[w][2] \in 1 .. Len(s[m.shown[w][1]])
        /\ m.frame[w] = s[m.shown[w][1]][m.shown[w][2]]

Rests(m, s, h, p) == (\A w \in Windows : m.shown[w] # <<h, p>>) => m.backing[h][p] = s[h][p]

Settled(m, o, s) ==
    /\ OnePlace(m.shown)
    /\ \A w \in Windows : Shows(m, o, s, w)
    /\ \A h \in EmsHandles : \A p \in 1 .. Len(s[h]) : Rests(m, s, h, p)

EmsInv ==
    /\ emsGuest = "onePlace"
    /\ Owned(owners)
    /\ Shaped(Machine, stored)
    /\ Settled(Machine, owners, stored)

LEMMA SlotIs ==
    ASSUME NEW at \in Slots
    PROVE  /\ \A h, p : <<h, p>> # Unmapped
           /\ at # Unmapped => at[1] \in EmsHandles /\ at[2] \in Nat /\ at = <<at[1], at[2]>>
  BY DEF Slots, Unmapped

LEMMA PageOf ==
    ASSUME NEW s \in [EmsHandles -> Seq(PageValues)], NEW h \in EmsHandles
    PROVE  /\ Len(s[h]) \in Nat /\ DOMAIN s[h] = 1 .. Len(s[h])
           /\ \A p \in 1 .. Len(s[h]) : p \in Nat /\ s[h][p] \in PageValues
<1>1. s[h] \in Seq(PageValues)
  OBVIOUS
<1> QED
  BY <1>1, ElementOfSeq, LenProperties

(* One value stored in one page.                                           *)
LEMMA StoreIs ==
    ASSUME NEW s \in [EmsHandles -> Seq(PageValues)], NEW h \in EmsHandles,
           NEW p \in 1 .. Len(s[h]), NEW v \in PageValues
    PROVE  LET t == [s EXCEPT ![h][p] = v]
           IN /\ t \in [EmsHandles -> Seq(PageValues)]
              /\ \A g \in EmsHandles : Len(t[g]) = Len(s[g])
              /\ \A g \in EmsHandles : \A q \in 1 .. Len(s[g]) :
                    t[g][q] = IF <<g, q>> = <<h, p>> THEN v ELSE s[g][q]
<1> DEFINE x == [s[h] EXCEPT ![p] = v]
           t == [s EXCEPT ![h] = x]
<1>1. s[h] \in Seq(PageValues)
  OBVIOUS
<1>2. /\ x \in Seq(PageValues) /\ Len(x) = Len(s[h])
      /\ \A q \in 1 .. Len(s[h]) : x[q] = IF q = p THEN v ELSE s[h][q]
  BY <1>1, ExceptSeq
<1>3. \A g \in EmsHandles : t[g] = IF g = h THEN x ELSE s[g]
  OBVIOUS
<1>4. t = [s EXCEPT ![h][p] = v]
  OBVIOUS
<1> HIDE DEF x
<1>5. t \in [EmsHandles -> Seq(PageValues)]
  BY <1>2
<1> HIDE DEF t
<1>6. /\ \A g \in EmsHandles : Len(t[g]) = Len(s[g])
      /\ \A g \in EmsHandles : \A q \in 1 .. Len(s[g]) :
            t[g][q] = IF <<g, q>> = <<h, p>> THEN v ELSE s[g][q]
  BY <1>2, <1>3
<1> QED
  BY <1>4, <1>5, <1>6

(* A window written back: its page has its value, everything else stays.   *)
LEMMA WritesBack ==
    ASSUME NEW m, NEW s, Shaped(m, s), Settled(m, owners, s), NEW w \in Windows
    PROVE  LET n == DosEmsWriteBackWindow(m, w)
           IN /\ Shaped(n, s) /\ n.shown = m.shown /\ n.frame = m.frame
              /\ \A h \in EmsHandles : \A p \in 1 .. Len(s[h]) :
                    n.backing[h][p] = IF m.shown[w] = <<h, p>> THEN m.frame[w] ELSE m.backing[h][p]
<1> DEFINE n == DosEmsWriteBackWindow(m, w)
           at == m.shown[w]
<1>0. at \in Slots /\ m.frame[w] \in PageValues
  BY DEF Shaped
<1>1. CASE at = Unmapped
  <2>1. n = m
    BY <1>1 DEF DosEmsWriteBackWindow
  <2> QED
    BY <1>0, <1>1, <2>1, SlotIs
<1>2. CASE at # Unmapped
  <2>1. /\ at[1] \in EmsHandles /\ at = <<at[1], at[2]>>
        /\ owners[at[1]].inUse /\ at[2] \in 1 .. Len(s[at[1]])
    BY <1>0, <1>2, SlotIs DEF Settled, Shows
  <2>2. m.backing \in [EmsHandles -> Seq(PageValues)] /\ at[2] \in 1 .. Len(m.backing[at[1]])
    BY <2>1 DEF Shaped
  <2>3. HasPage(m.backing, at[1], at[2])
    BY <2>1, <2>2, PageOf DEF HasPage, DosEmsGetHandle
  <2> DEFINE b == [m.backing EXCEPT ![at[1]][at[2]] = m.frame[w]]
  <2>4. /\ b \in [EmsHandles -> Seq(PageValues)]
        /\ \A g \in EmsHandles : Len(b[g]) = Len(m.backing[g])
        /\ \A g \in EmsHandles : \A q \in 1 .. Len(m.backing[g]) :
              b[g][q] = IF <<g, q>> = <<at[1], at[2]>> THEN m.frame[w] ELSE m.backing[g][q]
    BY <1>0, <2>1, <2>2, StoreIs
  <2>5. n = [m EXCEPT !.backing = b]
    BY <1>2, <2>3 DEF DosEmsWriteBackWindow
  <2> HIDE DEF b
  <2>6. n = [shown |-> m.shown, frame |-> m.frame, backing |-> b]
    BY <2>5 DEF Shaped
  <2> HIDE DEF n, at
  <2>7. n.shown = m.shown /\ n.frame = m.frame /\ n.backing = b
    BY <2>6
  <2>8. Shaped(n, s)
    BY <2>4, <2>6, <2>7 DEF Shaped
  <2>9. ASSUME NEW h \in EmsHandles, NEW p \in 1 .. Len(s[h])
        PROVE  n.backing[h][p] = IF at = <<h, p>> THEN m.frame[w] ELSE m.backing[h][p]
    BY <2>1, <2>4, <2>7 DEF Shaped
  <2> QED
    BY <2>7, <2>8, <2>9 DEF n, at
<1> QED
  BY <1>1, <1>2

(* No window other than w shows the page.                                  *)
OnlyAt(m, w, g, q) == \A v \in Windows \ {w} : m.shown[v] # <<g, q>>

(* Once the window is written back, a page in no other window is at rest.  *)
LEMMA RestsWithout ==
    ASSUME NEW m, NEW s, Shaped(m, s), Settled(m, owners, s), NEW w \in Windows,
           NEW g \in EmsHandles, NEW q \in 1 .. Len(s[g]),
           OnlyAt(m, w, g, q)
    PROVE  DosEmsWriteBackWindow(m, w).backing[g][q] = s[g][q]
<1>1. DosEmsWriteBackWindow(m, w).backing[g][q] =
         IF m.shown[w] = <<g, q>> THEN m.frame[w] ELSE m.backing[g][q]
  BY WritesBack
<1>2. CASE m.shown[w] = <<g, q>>
  <2>1. m.shown[w] # Unmapped /\ m.shown[w][1] = g /\ m.shown[w][2] = q
    BY <1>2 DEF Unmapped
  <2> QED
    BY <1>1, <1>2, <2>1 DEF Settled, Shows
<1>3. CASE m.shown[w] # <<g, q>>
  BY <1>1, <1>3 DEF Settled, Rests, OnlyAt
<1> QED
  BY <1>2, <1>3

(* Another page in a window, or none.                                      *)
Shown(m, n, w, at) ==
    /\ n.shown[w] = at
    /\ \A v \in Windows \ {w} : n.shown[v] = m.shown[v]

LEMMA CopyInIs ==
    ASSUME NEW m, NEW s, Shaped(m, s), Settled(m, owners, s), NEW w \in Windows,
           NEW h \in EmsHandles, NEW p, HasPage(m.backing, h, p),
           OnlyAt(m, w, h, p)
    PROVE  LET n == CopyIn(m, w, h, p)
           IN Shaped(n, s) /\ Settled(n, owners, s) /\ Shown(m, n, w, <<h, p>>)
<1> DEFINE b == DosEmsWriteBackWindow(m, w)
           n == CopyIn(m, w, h, p)
           at == <<h, p>>
<1>1. Shaped(b, s) /\ b.shown = m.shown /\ b.frame = m.frame
  BY WritesBack
<1>2. ASSUME NEW g \in EmsHandles, NEW q \in 1 .. Len(s[g]), OnlyAt(m, w, g, q)
      PROVE  b.backing[g][q] = s[g][q]
  BY <1>2, RestsWithout
<1>3. n = [b EXCEPT !.frame[w] = b.backing[h][p], !.shown[w] = at]
  BY DEF CopyIn
<1>4. owners[h].inUse /\ p \in 1 .. Len(s[h]) /\ p \in Nat
  <2>1. m.backing \in [EmsHandles -> Seq(PageValues)] /\ Len(m.backing[h]) = Len(s[h])
    BY DEF Shaped
  <2> QED
    BY <2>1, PageOf DEF HasPage, DosEmsGetHandle
<1> HIDE DEF b, n
<1>5. b = [shown |-> b.shown, frame |-> b.frame, backing |-> b.backing]
  BY <1>1 DEF Shaped
<1>6. n = [shown |-> [b.shown EXCEPT ![w] = at], frame |-> [b.frame EXCEPT ![w] = b.backing[h][p]],
           backing |-> b.backing]
  BY <1>3, <1>5
<1>7. /\ n.shown = [m.shown EXCEPT ![w] = at] /\ n.backing = b.backing
      /\ n.frame = [m.frame EXCEPT ![w] = b.backing[h][p]]
  BY <1>1, <1>6
<1>8. b.backing \in [EmsHandles -> Seq(PageValues)] /\ Len(b.backing[h]) = Len(s[h])
  BY <1>1 DEF Shaped
<1>9. b.backing[h][p] \in PageValues
  BY <1>4, <1>8, PageOf
<1>10. Shaped(n, s)
  <2>1. m.shown \in [Windows -> Slots] /\ m.frame \in [Windows -> PageValues]
    BY DEF Shaped
  <2>2. at \in Slots
    BY <1>4 DEF Slots
  <2>3. n.shown \in [Windows -> Slots] /\ n.frame \in [Windows -> PageValues]
    BY <1>7, <1>9, <2>1, <2>2
  <2> QED
    BY <1>1, <1>6, <1>7, <2>3 DEF Shaped
<1>11. /\ n.shown[w] = at /\ n.frame[w] = b.backing[h][p]
       /\ \A v \in Windows \ {w} : n.shown[v] = m.shown[v] /\ n.frame[v] = m.frame[v]
  <2>1. m.shown \in [Windows -> Slots] /\ m.frame \in [Windows -> PageValues]
    BY DEF Shaped
  <2> QED
    BY <1>7, <2>1
<1>12. b.backing[h][p] = s[h][p]
  BY <1>2, <1>4
<1>13. OnePlace(n.shown)
  BY <1>11 DEF Settled, OnePlace, OnlyAt
<1>14. ASSUME NEW v \in Windows
       PROVE  Shows(n, owners, s, v)
  <2>1. CASE v = w
    BY <1>4, <1>11, <1>12, <2>1 DEF Shows
  <2>2. CASE v # w
    <3>1. n.shown[v] = m.shown[v] /\ n.frame[v] = m.frame[v] /\ Shows(m, owners, s, v)
      BY <1>11, <2>2 DEF Settled
    <3> QED
      BY <3>1 DEF Shows
  <2> QED
    BY <2>1, <2>2
<1>15. ASSUME NEW g \in EmsHandles, NEW q \in 1 .. Len(s[g]), \A v \in Windows : n.shown[v] # <<g, q>>
       PROVE  n.backing[g][q] = s[g][q]
  <2>1. OnlyAt(m, w, g, q)
    BY <1>11, <1>15 DEF OnlyAt
  <2> QED
    BY <1>2, <1>7, <2>1
<1>16. Settled(n, owners, s)
  BY <1>13, <1>14, <1>15 DEF Settled, Rests
<1> QED
  BY <1>10, <1>11, <1>16 DEF n, Shown

LEMMA UnmapIs ==
    ASSUME NEW m, NEW s, Shaped(m, s), Settled(m, owners, s), NEW w \in Windows
    PROVE  LET n == Unmap(m, w)
           IN Shaped(n, s) /\ Settled(n, owners, s) /\ Shown(m, n, w, Unmapped)
<1> DEFINE b == DosEmsWriteBackWindow(m, w)
           n == Unmap(m, w)
<1>1. Shaped(b, s) /\ b.shown = m.shown /\ b.frame = m.frame
  BY WritesBack
<1>2. ASSUME NEW g \in EmsHandles, NEW q \in 1 .. Len(s[g]), OnlyAt(m, w, g, q)
      PROVE  b.backing[g][q] = s[g][q]
  BY <1>2, RestsWithout
<1>3. n = [b EXCEPT !.shown[w] = Unmapped]
  BY DEF Unmap
<1> HIDE DEF b, n
<1>4. b = [shown |-> b.shown, frame |-> b.frame, backing |-> b.backing]
  BY <1>1 DEF Shaped
<1>5. n = [shown |-> [b.shown EXCEPT ![w] = Unmapped], frame |-> b.frame, backing |-> b.backing]
  BY <1>3, <1>4
<1>6. n.shown = [m.shown EXCEPT ![w] = Unmapped] /\ n.backing = b.backing /\ n.frame = m.frame
  BY <1>1, <1>5
<1>7. m.shown \in [Windows -> Slots]
  BY DEF Shaped
<1>8. Shaped(n, s)
  <2>1. Unmapped \in Slots
    BY DEF Slots
  <2>2. n.shown \in [Windows -> Slots]
    BY <1>6, <1>7, <2>1
  <2> QED
    BY <1>1, <1>5, <1>6, <2>2 DEF Shaped
<1>9. n.shown[w] = Unmapped /\ \A v \in Windows \ {w} : n.shown[v] = m.shown[v]
  BY <1>6, <1>7
<1>10. OnePlace(n.shown)
  BY <1>9 DEF Settled, OnePlace
<1>11. ASSUME NEW v \in Windows
       PROVE  Shows(n, owners, s, v)
  <2>1. CASE v = w
    BY <1>9, <2>1 DEF Shows
  <2>2. CASE v # w
    <3>1. n.shown[v] = m.shown[v] /\ n.frame[v] = m.frame[v] /\ Shows(m, owners, s, v)
      BY <1>6, <1>9, <2>2 DEF Settled
    <3> QED
      BY <3>1 DEF Shows
  <2> QED
    BY <2>1, <2>2
<1>12. ASSUME NEW g \in EmsHandles, NEW q \in 1 .. Len(s[g]), \A v \in Windows : n.shown[v] # <<g, q>>
       PROVE  n.backing[g][q] = s[g][q]
  <2>1. OnlyAt(m, w, g, q)
    BY <1>9, <1>12 DEF OnlyAt
  <2> QED
    BY <1>2, <1>6, <2>1
<1>13. Settled(n, owners, s)
  BY <1>10, <1>11, <1>12 DEF Settled, Rests
<1> QED
  BY <1>8, <1>9, <1>13 DEF n, Shown

(* The loops over the windows: one step of writing a handle's windows back *)
(* and one of restoring its saved map.                                     *)
Passed(pass, h, m, w) ==
    IF pass = "flush"
    THEN IF shown[w] # Unmapped /\ shown[w][1] = h THEN DosEmsWriteBackWindow(m, w) ELSE m
    ELSE IF owners[h].savedMap[w] = Unmapped THEN Unmap(m, w)
         ELSE IF HasPage(m.backing, owners[h].savedMap[w][1], owners[h].savedMap[w][2])
              THEN CopyIn(m, w, owners[h].savedMap[w][1], owners[h].savedMap[w][2])
              ELSE m

Passes(f, n, pass, h) ==
    f = [i \in 0 .. n |-> IF i = 0 THEN Machine ELSE Passed(pass, h, f[i - 1], i - 1)]

LEMMA PassesExist ==
    ASSUME NEW n \in Nat, NEW pass, NEW h
    PROVE  \E f : Passes(f, n, pass, h)
<1> DEFINE Fits(m, f) == f = [i \in 0 .. m |-> IF i = 0 THEN Machine ELSE Passed(pass, h, f[i - 1], i - 1)]
           Bad == {m \in Nat : ~ \E f : Fits(m, f)}
<1>1. \E f : Fits(0, f)
  <2> DEFINE f == [i \in 0 .. 0 |-> Machine]
  <2>1. Fits(0, f)
    OBVIOUS
  <2> QED
    BY <2>1
<1>2. ASSUME NEW m \in Nat, \E f : Fits(m, f)
      PROVE  \E f : Fits(m + 1, f)
  <2>1. PICK f : Fits(m, f)
    BY <1>2
  <2> DEFINE g == [i \in 0 .. m + 1 |-> IF i = m + 1 THEN Passed(pass, h, f[m], m) ELSE f[i]]
  <2>2. ASSUME NEW i \in 0 .. m + 1
        PROVE  g[i] = IF i = 0 THEN Machine ELSE Passed(pass, h, g[i - 1], i - 1)
    <3>1. CASE i = m + 1
      <4>1. i # 0 /\ i - 1 = m /\ g[m] = f[m]
        BY <3>1
      <4> QED
        BY <3>1, <4>1
    <3>2. CASE i # m + 1 /\ i # 0
      <4>1. i \in 0 .. m /\ i - 1 \in 0 .. m /\ g[i] = f[i] /\ g[i - 1] = f[i - 1]
        BY <3>2
      <4> QED
        BY <2>1, <3>2, <4>1
    <3>3. CASE i = 0
      BY <2>1, <3>3
    <3> QED
      BY <3>1, <3>2, <3>3
  <2>3. Fits(m + 1, g)
    <3> HIDE DEF g
    <3>1. g = [i \in 0 .. m + 1 |-> g[i]]
      BY DEF g
    <3> QED
      BY <2>2, <3>1
  <2> QED
    BY <2>3
<1> HIDE DEF Fits
<1>3. Bad = {}
  <2> SUFFICES ASSUME Bad # {} PROVE FALSE
    OBVIOUS
  <2>1. PICK m \in Bad : \A k \in Bad : m <= k
    BY LeastNatural
  <2>2. m \in Nat /\ m # 0
    BY <1>1, <2>1
  <2>3. m - 1 \in Nat /\ ~ (m - 1 \in Bad)
    BY <2>1, <2>2
  <2>4. \E f : Fits(m - 1 + 1, f)
    BY <1>2, <2>3
  <2> QED
    BY <2>1, <2>2, <2>4
<1> QED
  BY <1>3 DEF Fits, Passes

(* A handle's windows written back: its pages are all in its buffer.       *)
Written(m, h, i) ==
    /\ Shaped(m, stored) /\ Settled(m, owners, stored)
    /\ m.shown = shown /\ m.frame = frame
    /\ \A v \in Windows : v < i /\ shown[v] # Unmapped /\ shown[v][1] = h =>
          m.backing[h][shown[v][2]] = frame[v]

LEMMA FlushedIs ==
    ASSUME EmsInv, NEW h \in EmsHandles
    PROVE  /\ Shaped(Flushed(h), stored) /\ Settled(Flushed(h), owners, stored)
           /\ Flushed(h).shown = shown /\ Flushed(h).frame = frame
           /\ \A p \in 1 .. Len(stored[h]) : Flushed(h).backing[h][p] = stored[h][p]
<1> DEFINE n == Max(Windows) + 1
<1>1. n \in Nat /\ Windows = 0 .. n - 1
  BY EmsAssumption
<1> HIDE DEF n
<1>2. PICK f : Passes(f, n, "flush", h)
  BY <1>1, PassesExist
<1>3. f = [i \in 0 .. n |-> IF i = 0 THEN Machine
                            ELSE IF shown[i - 1] # Unmapped /\ shown[i - 1][1] = h
                                 THEN DosEmsWriteBackWindow(f[i - 1], i - 1) ELSE f[i - 1]]
  BY <1>2 DEF Passes, Passed
<1>4. PICK c : /\ c = [i \in 0 .. n |-> IF i = 0 THEN Machine
                                ELSE IF shown[i - 1] # Unmapped /\ shown[i - 1][1] = h
                                     THEN DosEmsWriteBackWindow(c[i - 1], i - 1) ELSE c[i - 1]]
               /\ Flushed(h) = c[n]
  BY <1>3 DEF Flushed, n
<1> DEFINE Bad == {i \in 0 .. n : ~ Written(c[i], h, i)}
<1>5. Written(c[0], h, 0)
  <2>1. c[0] = Machine
    BY <1>1, <1>4
  <2>2. Machine.shown = shown /\ Machine.frame = frame
    BY DEF Machine
  <2> QED
    BY <1>1, <2>1, <2>2 DEF Written, EmsInv
<1>6. ASSUME NEW i \in 1 .. n, Written(c[i - 1], h, i - 1)
      PROVE  Written(c[i], h, i)
  <2> DEFINE w == i - 1
             at == shown[w]
  <2>1. w \in Windows /\ i \in 0 .. n /\ i # 0
    BY <1>1
  <2>2. c[i] = IF at # Unmapped /\ at[1] = h THEN DosEmsWriteBackWindow(c[w], w) ELSE c[w]
    <3> HIDE DEF Bad
    <3> QED
      BY <1>4, <2>1, Zenon
  <2>3. CASE at # Unmapped /\ at[1] = h
    <3>1. /\ Shaped(c[i], stored) /\ c[i].shown = shown /\ c[i].frame = frame
          /\ \A g \in EmsHandles : \A p \in 1 .. Len(stored[g]) :
                c[i].backing[g][p] = IF shown[w] = <<g, p>> THEN frame[w] ELSE c[w].backing[g][p]
      BY <1>6, <2>1, <2>2, <2>3, WritesBack DEF Written
    <3>2. Settled(c[w], owners, stored) /\ c[w].shown = shown /\ c[w].frame = frame
      BY <1>6 DEF Written
    <3>3. shown \in [Windows -> Slots]
      BY DEF EmsInv, Shaped, Machine
    <3>4. ASSUME NEW v \in Windows, v < i, shown[v] # Unmapped, shown[v][1] = h
          PROVE  c[i].backing[h][shown[v][2]] = frame[v]
      <4>1. shown[v][2] \in 1 .. Len(stored[h]) /\ shown[v] = <<h, shown[v][2]>>
        BY <3>2, <3>3, <3>4, SlotIs DEF Settled, Shows
      <4>2. CASE v = w
        BY <3>1, <4>1, <4>2
      <4>3. CASE v # w
        <5>1. shown[w] # shown[v]
          BY <2>1, <2>3, <3>2, <4>3 DEF Settled, OnePlace
        <5>2. v < w
          BY <1>1, <3>4, <4>3
        <5>3. c[w].backing[h][shown[v][2]] = frame[v]
          BY <1>6, <3>4, <5>2 DEF Written
        <5> QED
          BY <3>1, <4>1, <5>1, <5>3
      <4> QED
        BY <4>2, <4>3
    <3>5. Settled(c[i], owners, stored)
      <4>1. OnePlace(c[i].shown) /\ \A v \in Windows : Shows(c[i], owners, stored, v)
        BY <3>1, <3>2 DEF Settled, Shows
      <4>2. ASSUME NEW g \in EmsHandles, NEW p \in 1 .. Len(stored[g])
            PROVE  Rests(c[i], stored, g, p)
        <5>1. (\A v \in Windows : shown[v] # <<g, p>>) => c[w].backing[g][p] = stored[g][p]
          BY <3>2 DEF Settled, Rests
        <5>2. c[i].backing[g][p] = IF shown[w] = <<g, p>> THEN frame[w] ELSE c[w].backing[g][p]
          BY <3>1
        <5> QED
          BY <2>1, <3>1, <5>1, <5>2 DEF Rests
      <4> QED
        BY <4>1, <4>2 DEF Settled
    <3> QED
      BY <3>1, <3>4, <3>5 DEF Written
  <2>4. CASE ~ (at # Unmapped /\ at[1] = h)
    <3>1. c[i] = c[w]
      BY <2>2, <2>4
    <3>2. \A v \in Windows : v < i /\ v # w => v < i - 1
      BY <1>1
    <3> QED
      BY <1>6, <2>4, <3>1, <3>2 DEF Written
  <2> QED
    BY <2>3, <2>4
<1>7. Bad = {}
  <2> SUFFICES ASSUME Bad # {} PROVE FALSE
    OBVIOUS
  <2>1. PICK i \in Bad : \A k \in Bad : i <= k
    <3>1. Bad \subseteq Nat
      OBVIOUS
    <3> HIDE DEF Bad
    <3> QED
      BY <3>1, LeastNatural
  <2>2. i \in 1 .. n /\ i - 1 \in 0 .. n
    BY <1>1, <1>5, <2>1
  <2>3. Written(c[i - 1], h, i - 1)
    <3>1. ~ (i - 1 \in Bad)
      BY <2>1, <2>2
    <3> QED
      BY <2>2, <3>1
  <2> QED
    BY <1>6, <2>1, <2>2, <2>3
<1>8. Written(Flushed(h), h, n)
  <2>1. n \in 0 .. n
    BY <1>1
  <2> QED
    BY <1>4, <1>7, <2>1
<1>9. ASSUME NEW p \in 1 .. Len(stored[h])
      PROVE  Flushed(h).backing[h][p] = stored[h][p]
  <2>1. CASE \A w \in Windows : shown[w] # <<h, p>>
    BY <1>8, <2>1 DEF Written, Settled, Rests
  <2>2. CASE \E w \in Windows : shown[w] = <<h, p>>
    <3>1. PICK w \in Windows : shown[w] = <<h, p>>
      BY <2>2
    <3>2. shown[w] # Unmapped /\ shown[w][1] = h /\ shown[w][2] = p /\ w < n
      BY <1>1, <3>1 DEF Unmapped
    <3>3. Flushed(h).backing[h][p] = frame[w]
      BY <1>8, <3>2 DEF Written
    <3>4. frame[w] = stored[h][p]
      BY <1>8, <3>2 DEF Written, Settled, Shows
    <3> QED
      BY <3>3, <3>4
  <2> QED
    BY <2>1, <2>2
<1> QED
  BY <1>8, <1>9 DEF Written

(* The windows restored: each shows the saved page, or what it showed      *)
(* before, or nothing.                                                     *)
Restoring(m, h) ==
    /\ Shaped(m, stored) /\ Settled(m, owners, stored)
    /\ \A v \in Windows : m.shown[v] \in {owners[h].savedMap[v], shown[v], Unmapped}

LEMMA RestoredIs ==
    ASSUME EmsInv, NEW h \in EmsHandles, MayRestore(h)
    PROVE  Shaped(Restored(h), stored) /\ Settled(Restored(h), owners, stored)
<1> DEFINE n == Max(Windows) + 1
           saved == owners[h].savedMap
<1>1. n \in Nat /\ Windows = 0 .. n - 1
  BY EmsAssumption
<1>2. /\ saved \in [Windows -> Slots] /\ OnePlace(saved)
      /\ \A w \in Windows : saved[w] # Unmapped =>
            \A v \in Windows \ {w} : shown[v] # saved[w]
  BY DEF EmsInv, Owned, Owner, MayRestore, ShownElsewhere
<1> HIDE DEF n, saved
<1>3. PICK f : Passes(f, n, "restore", h)
  BY <1>1, PassesExist
<1>4. f = [i \in 0 .. n |->
             IF i = 0 THEN Machine
             ELSE IF saved[i - 1] = Unmapped THEN Unmap(f[i - 1], i - 1)
             ELSE IF HasPage(f[i - 1].backing, saved[i - 1][1], saved[i - 1][2])
                  THEN CopyIn(f[i - 1], i - 1, saved[i - 1][1], saved[i - 1][2])
                  ELSE f[i - 1]]
  BY <1>3 DEF Passes, Passed, saved
<1>5. PICK c : /\ c = [i \in 0 .. n |->
                         IF i = 0 THEN Machine
                         ELSE IF saved[i - 1] = Unmapped THEN Unmap(c[i - 1], i - 1)
                         ELSE IF HasPage(c[i - 1].backing, saved[i - 1][1], saved[i - 1][2])
                              THEN CopyIn(c[i - 1], i - 1, saved[i - 1][1], saved[i - 1][2])
                              ELSE c[i - 1]]
               /\ Restored(h) = c[n]
  BY <1>4 DEF Restored, n, saved
<1> DEFINE Bad == {i \in 0 .. n : ~ Restoring(c[i], h)}
<1>6. Restoring(c[0], h)
  <2>1. c[0] = Machine
    BY <1>1, <1>5
  <2>2. Machine.shown = shown
    BY DEF Machine
  <2> QED
    BY <2>1, <2>2 DEF Restoring, EmsInv
<1>7. ASSUME NEW i \in 1 .. n, Restoring(c[i - 1], h)
      PROVE  Restoring(c[i], h)
  <2> DEFINE w == i - 1
  <2>1. w \in Windows /\ i \in 0 .. n /\ i # 0
    BY <1>1
  <2>2. c[i] = IF saved[w] = Unmapped THEN Unmap(c[w], w)
               ELSE IF HasPage(c[w].backing, saved[w][1], saved[w][2])
                    THEN CopyIn(c[w], w, saved[w][1], saved[w][2]) ELSE c[w]
    <3> HIDE DEF Bad
    <3> QED
      BY <1>5, <2>1, Zenon
  <2> HIDE DEF w, Bad
  <2>3. /\ Shaped(c[w], stored) /\ Settled(c[w], owners, stored)
        /\ \A v \in Windows : c[w].shown[v] \in {saved[v], shown[v], Unmapped}
    BY <1>7 DEF Restoring, saved, w
  <2>4. CASE saved[w] = Unmapped
    <3>1. Shaped(c[i], stored) /\ Settled(c[i], owners, stored) /\ Shown(c[w], c[i], w, Unmapped)
      BY <2>1, <2>2, <2>3, <2>4, UnmapIs
    <3> QED
      BY <2>3, <3>1 DEF Restoring, Shown, saved
  <2>5. CASE saved[w] # Unmapped /\ HasPage(c[w].backing, saved[w][1], saved[w][2])
    <3>1. saved[w][1] \in EmsHandles /\ saved[w] = <<saved[w][1], saved[w][2]>>
      BY <1>2, <2>1, <2>5, SlotIs
    <3>2. ASSUME NEW v \in Windows \ {w}
          PROVE  c[w].shown[v] # saved[w]
      <4>1. saved[v] # saved[w]
        BY <1>2, <2>1, <2>5 DEF OnePlace
      <4> QED
        BY <1>2, <2>1, <2>3, <2>5, <4>1
    <3>3. OnlyAt(c[w], w, saved[w][1], saved[w][2])
      BY <3>1, <3>2 DEF OnlyAt
    <3>4. c[i] = CopyIn(c[w], w, saved[w][1], saved[w][2])
      BY <2>2, <2>5
    <3>5. Shaped(c[i], stored) /\ Settled(c[i], owners, stored) /\ Shown(c[w], c[i], w, saved[w])
      <4>1. HasPage(c[w].backing, saved[w][1], saved[w][2]) /\ w \in Windows
        BY <2>1, <2>5
      <4>2. LET to == CopyIn(c[w], w, saved[w][1], saved[w][2])
            IN /\ Shaped(to, stored) /\ Settled(to, owners, stored)
               /\ Shown(c[w], to, w, <<saved[w][1], saved[w][2]>>)
        BY <2>3, <3>1, <3>3, <4>1, CopyInIs
      <4> QED
        BY <3>1, <3>4, <4>2
    <3> QED
      BY <2>3, <3>5 DEF Restoring, Shown, saved
  <2>6. CASE saved[w] # Unmapped /\ ~ HasPage(c[w].backing, saved[w][1], saved[w][2])
    BY <2>2, <2>3, <2>6 DEF Restoring, saved
  <2> QED
    BY <2>4, <2>5, <2>6
<1>8. Bad = {}
  <2> SUFFICES ASSUME Bad # {} PROVE FALSE
    OBVIOUS
  <2>1. PICK i \in Bad : \A k \in Bad : i <= k
    <3>1. Bad \subseteq Nat
      OBVIOUS
    <3> HIDE DEF Bad
    <3> QED
      BY <3>1, LeastNatural
  <2>2. i \in 1 .. n /\ i - 1 \in 0 .. n
    BY <1>1, <1>6, <2>1
  <2>3. Restoring(c[i - 1], h)
    <3>1. ~ (i - 1 \in Bad)
      BY <2>1, <2>2
    <3> QED
      BY <2>2, <3>1
  <2> QED
    BY <1>7, <2>1, <2>2, <2>3
<1>9. n \in 0 .. n
  BY <1>1
<1> QED
  BY <1>5, <1>8, <1>9 DEF Restoring

-----------------------------------------------------------------------------
(* The calls.                                                              *)

LEMMA BecomesIs ==
    ASSUME NEW m, NEW s, Shaped(m, s), Becomes(m)
    PROVE  Machine' = m
  BY DEF Shaped, Becomes, Machine

(* A handle given another buffer: a window may be taken off it, and one    *)
(* that stays shows what the new buffer holds.                             *)
LeavesOnly(h) ==
    /\ shown' \in [Windows -> Slots]
    /\ \A w \in Windows : shown'[w] = shown[w] \/ (shown'[w] = Unmapped /\ shown[w][1] = h)

StaysOn(h, b) ==
    \A w \in Windows :
        shown'[w] # Unmapped /\ shown'[w][1] = h =>
            /\ owners'[h].inUse /\ shown'[w][2] \in 1 .. Len(b)
            /\ frame[w] = b[shown'[w][2]]

OthersInUse(h) == \A g \in EmsHandles \ {h} : owners[g].inUse => owners'[g].inUse

LEMMA Rebuffered ==
    ASSUME EmsInv, NEW m, Shaped(m, stored), Settled(m, owners, stored), m.shown = shown,
           NEW h \in EmsHandles, NEW b \in Seq(PageValues),
           LeavesOnly(h), StaysOn(h, b), OthersInUse(h),
           UNCHANGED <<emsGuest, frame>>,
           Owned(owners'),
           backing' = [m.backing EXCEPT ![h] = b],
           stored' = [stored EXCEPT ![h] = b]
    PROVE  EmsInv'
<1>1. /\ Machine.shown = shown /\ Machine.frame = frame
      /\ Shaped(Machine, stored) /\ Settled(Machine, owners, stored)
  BY DEF Machine, EmsInv
<1>2. PICK n : n = Machine'
  OBVIOUS
<1>3. /\ n = [shown |-> n.shown, frame |-> n.frame, backing |-> n.backing]
      /\ n.shown = shown' /\ n.frame = frame /\ n.backing = backing'
  BY <1>2 DEF Machine
<1>4. /\ m.backing \in [EmsHandles -> Seq(PageValues)] /\ stored \in [EmsHandles -> Seq(PageValues)]
      /\ shown \in [Windows -> Slots] /\ frame \in [Windows -> PageValues]
      /\ \A g \in EmsHandles : Len(m.backing[g]) = Len(stored[g])
  BY <1>1 DEF Shaped
<1>5. /\ n.backing[h] = b /\ stored'[h] = b
      /\ \A g \in EmsHandles \ {h} : n.backing[g] = m.backing[g] /\ stored'[g] = stored[g]
      /\ n.backing \in [EmsHandles -> Seq(PageValues)] /\ stored' \in [EmsHandles -> Seq(PageValues)]
  BY <1>3, <1>4
<1>6. Shaped(n, stored')
  BY <1>3, <1>4, <1>5 DEF Shaped, LeavesOnly
<1>7. OnePlace(n.shown)
  BY <1>1, <1>3 DEF Settled, OnePlace, LeavesOnly
<1>8. ASSUME NEW w \in Windows, shown'[w] # Unmapped
      PROVE  /\ owners'[shown'[w][1]].inUse
             /\ shown'[w][2] \in 1 .. Len(stored'[shown'[w][1]])
             /\ frame[w] = stored'[shown'[w][1]][shown'[w][2]]
  <2>1. CASE shown'[w][1] = h
    BY <1>5, <1>8, <2>1 DEF StaysOn
  <2>2. CASE shown'[w][1] # h
    <3>1. shown'[w] = shown[w] /\ shown[w] # Unmapped
      BY <1>8 DEF LeavesOnly
    <3>2. shown[w][1] \in EmsHandles \ {h}
      BY <1>4, <2>2, <3>1, SlotIs
    <3>3. /\ owners[shown[w][1]].inUse
          /\ shown[w][2] \in 1 .. Len(stored[shown[w][1]])
          /\ frame[w] = stored[shown[w][1]][shown[w][2]]
      BY <1>1, <3>1 DEF Settled, Shows
    <3> QED
      BY <1>5, <3>1, <3>2, <3>3 DEF OthersInUse
  <2> QED
    BY <2>1, <2>2
<1>9. ASSUME NEW g \in EmsHandles, NEW p \in 1 .. Len(stored'[g])
      PROVE  Rests(n, stored', g, p)
  <2> SUFFICES ASSUME \A w \in Windows : shown'[w] # <<g, p>>
               PROVE  n.backing[g][p] = stored'[g][p]
    BY <1>3 DEF Rests
  <2>1. CASE g = h
    BY <1>5, <2>1
  <2>2. CASE g # h
    <3>1. p \in 1 .. Len(stored[g])
      BY <1>5, <2>2
    <3>2. ASSUME NEW w \in Windows
          PROVE  m.shown[w] # <<g, p>>
      <4>1. <<g, p>>[1] # h
        BY <2>2
      <4> QED
        BY <4>1 DEF LeavesOnly
    <3>3. m.backing[g][p] = stored[g][p]
      BY <3>1, <3>2 DEF Settled, Rests
    <3> QED
      BY <1>5, <2>2, <3>3
  <2> QED
    BY <2>1, <2>2
<1>10. Settled(n, owners', stored')
  <2>1. \A w \in Windows : Shows(n, owners', stored', w)
    BY <1>3, <1>8 DEF Shows
  <2> QED
    BY <1>7, <1>9, <2>1 DEF Settled
<1> QED
  BY <1>2, <1>6, <1>10 DEF EmsInv

(* A handle whose saved map changes, of which nothing else does.           *)
LEMMA SavedMapChanges ==
    ASSUME EmsInv, NEW m, Shaped(m, stored), Settled(m, owners, stored), Becomes(m),
           NEW h \in EmsHandles, NEW e \in Owner, OnePlace(e.savedMap),
           e.inUse, owners' = [owners EXCEPT ![h] = e], UNCHANGED <<emsGuest, stored>>
    PROVE  EmsInv'
<1>1. Machine' = m
  BY BecomesIs
<1>2. Owned(owners)'
  BY DEF EmsInv, Owned
<1>3. \A g \in EmsHandles : owners[g].inUse => owners'[g].inUse
  BY DEF EmsInv, Owned
<1>4. m.shown \in [Windows -> Slots]
  BY DEF Shaped
<1>5. Settled(m, owners', stored)
  <2>1. ASSUME NEW w \in Windows
        PROVE  Shows(m, owners', stored, w)
    BY <1>3, <1>4, SlotIs DEF Settled, Shows
  <2> QED
    BY <2>1 DEF Settled
<1> QED
  BY <1>1, <1>2, <1>5 DEF EmsInv

(* The same windows and buffers, or others with the same contents.         *)
LEMMA MachineChanges ==
    ASSUME EmsInv, NEW m, Shaped(m, stored), Settled(m, owners, stored), Becomes(m),
           UNCHANGED <<emsGuest, owners, stored>>
    PROVE  EmsInv'
  BY BecomesIs DEF EmsInv

LEMMA SameMachine ==
    Becomes(Machine) <=> UNCHANGED <<shown, frame, backing>>
  BY DEF Becomes, Machine

LEMMA AllocateKeeps == EmsInv /\ DosEmsAllocatePages => EmsInv'
<1> SUFFICES ASSUME EmsInv, DosEmsAllocatePages PROVE EmsInv'
  OBVIOUS
<1> DEFINE unused == {g \in EmsHandles : ~ owners[g].inUse}
           h == Min(unused)
<1>1. PICK n \in PageCounts :
        /\ EmsCall
        /\ \/ EmsRefused
           \/ /\ unused # {}
              /\ owners' = [owners EXCEPT ![h] = [Unowned EXCEPT !.inUse = TRUE]]
              /\ backing' = [backing EXCEPT ![h] = [p \in 1 .. n |-> 0]]
              /\ stored' = [stored EXCEPT ![h] = [p \in 1 .. n |-> 0]]
              /\ UNCHANGED <<shown, frame>>
  BY DEF DosEmsAllocatePages
<1>2. Shaped(Machine, stored) /\ Settled(Machine, owners, stored)
  BY DEF EmsInv
<1>3. CASE EmsRefused
  BY <1>1, <1>2, <1>3, MachineChanges, SameMachine DEF EmsRefused, EmsCall
<1>4. CASE ~ EmsRefused
  <2>1. h \in EmsHandles /\ ~ owners[h].inUse
    <3>1. unused # {} /\ unused \subseteq Nat
      BY <1>1, <1>4, EmsAssumption
    <3>2. h \in unused
      <4> HIDE DEF unused
      <4> QED
        BY <3>1, LeastIn
    <3> QED
      BY <3>2
  <2> HIDE DEF unused, h
  <2> DEFINE fresh == [p \in 1 .. n |-> 0]
             e == [Unowned EXCEPT !.inUse = TRUE]
  <2>2. fresh \in Seq(PageValues)
    <3>1. n \in Nat /\ 0 \in PageValues
      BY EmsAssumption
    <3> QED
      BY <3>1
  <2>3. e \in Owner /\ OnePlace(e.savedMap)
    BY DEF Unowned, Owner, Slots, OnePlace
  <2>4. /\ owners' = [owners EXCEPT ![h] = e]
        /\ backing' = [backing EXCEPT ![h] = fresh] /\ stored' = [stored EXCEPT ![h] = fresh]
        /\ UNCHANGED <<emsGuest, shown, frame>>
    BY <1>1, <1>4 DEF EmsCall
  <2> HIDE DEF fresh, e
  <2>5. /\ Machine.shown = shown /\ Machine.backing = backing
        /\ shown \in [Windows -> Slots] /\ Owned(owners)
    BY DEF Machine, EmsInv, Shaped
  <2>6. Owned(owners')
    BY <2>1, <2>3, <2>4, <2>5 DEF Owned
  <2>7. StaysOn(h, fresh)
    BY <1>2, <2>1, <2>4, <2>5 DEF Settled, Shows, StaysOn
  <2>8. LeavesOnly(h) /\ OthersInUse(h)
    BY <2>4, <2>5 DEF Owned, LeavesOnly, OthersInUse
  <2> QED
    BY <1>2, <2>1, <2>2, <2>4, <2>5, <2>6, <2>7, <2>8, Rebuffered
<1> QED
  BY <1>3, <1>4

LEMMA MapKeeps == EmsInv /\ DosEmsMapPage => EmsInv'
<1> SUFFICES ASSUME EmsInv, DosEmsMapPage PROVE EmsInv'
  OBVIOUS
<1>1. Shaped(Machine, stored) /\ Settled(Machine, owners, stored) /\ Machine.shown = shown
      /\ Machine.backing = backing
  BY DEF EmsInv, Machine
<1>2. PICK w \in Windows, h \in EmsHandles, p \in 1 .. TotalPages :
        /\ EmsCall /\ MayMap(w, <<h, p>>)
        /\ \/ EmsRefused
           \/ HasPage(backing, h, p) /\ Becomes(CopyIn(Machine, w, h, p)) /\ UNCHANGED <<owners, stored>>
  BY DEF DosEmsMapPage
<1>3. CASE EmsRefused
  BY <1>1, <1>2, <1>3, MachineChanges, SameMachine DEF EmsRefused, EmsCall
<1>4. CASE HasPage(backing, h, p) /\ Becomes(CopyIn(Machine, w, h, p)) /\ UNCHANGED <<owners, stored>>
  <2>1. OnlyAt(Machine, w, h, p)
    BY <1>1, <1>2 DEF MayMap, ShownElsewhere, OnlyAt
  <2>2. Shaped(CopyIn(Machine, w, h, p), stored) /\ Settled(CopyIn(Machine, w, h, p), owners, stored)
    BY <1>1, <1>4, <2>1, CopyInIs
  <2> QED
    BY <1>2, <1>4, <2>2, MachineChanges DEF EmsCall
<1> QED
  BY <1>2, <1>3, <1>4

LEMMA UnmapKeeps == EmsInv /\ DosEmsUnmapPage => EmsInv'
<1> SUFFICES ASSUME EmsInv, DosEmsUnmapPage PROVE EmsInv'
  OBVIOUS
<1>1. PICK w \in Windows : EmsCall /\ Becomes(Unmap(Machine, w)) /\ UNCHANGED <<owners, stored>>
  BY DEF DosEmsUnmapPage
<1>2. Shaped(Unmap(Machine, w), stored) /\ Settled(Unmap(Machine, w), owners, stored)
  BY UnmapIs DEF EmsInv
<1> QED
  BY <1>1, <1>2, MachineChanges DEF EmsCall

LEMMA DeallocateKeeps == EmsInv /\ DosEmsDeallocatePages => EmsInv'
<1> SUFFICES ASSUME EmsInv, DosEmsDeallocatePages PROVE EmsInv'
  OBVIOUS
<1>1. PICK h \in EmsHandles :
        /\ EmsCall
        /\ \/ EmsRefused
           \/ /\ shown' = [w \in Windows |->
                             IF shown[w] # Unmapped /\ shown[w][1] = h THEN Unmapped ELSE shown[w]]
              /\ owners' = [owners EXCEPT ![h] = Unowned]
              /\ backing' = [backing EXCEPT ![h] = <<>>]
              /\ stored' = [stored EXCEPT ![h] = <<>>]
              /\ UNCHANGED frame
  BY DEF DosEmsDeallocatePages
<1>2. /\ Shaped(Machine, stored) /\ Settled(Machine, owners, stored) /\ Owned(owners)
      /\ Machine.shown = shown /\ Machine.backing = backing /\ shown \in [Windows -> Slots]
  BY DEF EmsInv, Machine, Shaped
<1>3. CASE EmsRefused
  BY <1>1, <1>2, <1>3, MachineChanges, SameMachine DEF EmsRefused, EmsCall
<1>4. CASE ~ EmsRefused
  <2>1. <<>> \in Seq(PageValues)
    OBVIOUS
  <2>2. Unowned \in Owner /\ OnePlace(Unowned.savedMap)
    BY DEF Unowned, Owner, Slots, OnePlace
  <2>3. Owned(owners')
    BY <1>1, <1>2, <1>4, <2>2 DEF Owned
  <2>4. OthersInUse(h)
    BY <1>1, <1>2, <1>4 DEF Owned, OthersInUse
  <2>5. LeavesOnly(h) /\ StaysOn(h, <<>>)
    BY <1>1, <1>2, <1>4 DEF Slots, LeavesOnly, StaysOn
  <2> QED
    BY <1>1, <1>2, <1>4, <2>1, <2>3, <2>4, <2>5, Rebuffered DEF EmsCall
<1> QED
  BY <1>3, <1>4

LEMMA KeptOf ==
    ASSUME NEW s \in Seq(PageValues), NEW n \in Nat
    PROVE  /\ Kept(s, n) \in Seq(PageValues) /\ Len(Kept(s, n)) = n
           /\ \A p \in 1 .. n : p <= Len(s) => Kept(s, n)[p] = s[p]
           /\ \A p \in 1 .. n : ~ (p <= Len(s)) => Kept(s, n)[p] = 0
<1>1. 0 \in PageValues /\ \A p \in 1 .. n : p <= Len(s) => s[p] \in PageValues
  BY ElementOfSeq, EmsAssumption
<1> DEFINE k == [p \in 1 .. n |-> IF p <= Len(s) THEN s[p] ELSE 0]
<1>2. \A p \in 1 .. n : k[p] \in PageValues
  BY <1>1
<1>3. k \in Seq(PageValues) /\ Len(k) = n
  BY <1>2
<1>4. k = Kept(s, n)
  BY DEF Kept
<1> QED
  BY <1>3, <1>4

LEMMA ReallocKeeps == EmsInv /\ DosEmsReallocatePages => EmsInv'
<1> SUFFICES ASSUME EmsInv, DosEmsReallocatePages PROVE EmsInv'
  OBVIOUS
<1>1. PICK h \in EmsHandles, n \in PageCounts :
        /\ EmsCall
        /\ \/ EmsRefused
           \/ backing' = Flushed(h).backing /\ UNCHANGED <<owners, shown, frame, stored>>
           \/ /\ backing' = [Flushed(h).backing EXCEPT ![h] = Kept(@, n)]
              /\ stored' = [stored EXCEPT ![h] = Kept(@, n)]
              /\ shown' = StillShown(h, n)
              /\ UNCHANGED <<owners, frame>>
  BY DEF DosEmsReallocatePages
<1>2. /\ Shaped(Machine, stored) /\ Settled(Machine, owners, stored) /\ Owned(owners)
      /\ shown \in [Windows -> Slots]
  BY DEF EmsInv, Machine, Shaped
<1>3. PICK m : m = Flushed(h)
  OBVIOUS
<1>4. /\ Shaped(m, stored) /\ Settled(m, owners, stored) /\ m.shown = shown /\ m.frame = frame
      /\ \A p \in 1 .. Len(stored[h]) : m.backing[h][p] = stored[h][p]
  BY <1>3, FlushedIs
<1>5. CASE EmsRefused
  BY <1>1, <1>2, <1>5, MachineChanges, SameMachine DEF EmsRefused, EmsCall
<1>6. CASE backing' = Flushed(h).backing /\ UNCHANGED <<owners, shown, frame, stored>>
  <2>1. Becomes(m)
    BY <1>3, <1>4, <1>6 DEF Becomes
  <2> QED
    BY <1>1, <1>4, <1>6, <2>1, MachineChanges DEF EmsCall
<1>7. CASE /\ backing' = [Flushed(h).backing EXCEPT ![h] = Kept(@, n)]
           /\ stored' = [stored EXCEPT ![h] = Kept(@, n)]
           /\ shown' = StillShown(h, n)
           /\ UNCHANGED <<owners, frame>>
  <2> DEFINE b == Kept(stored[h], n)
  <2>1. /\ n \in Nat /\ stored[h] \in Seq(PageValues) /\ m.backing[h] \in Seq(PageValues)
        /\ Len(m.backing[h]) = Len(stored[h]) /\ Len(stored[h]) \in Nat
    BY <1>4, EmsAssumption, PageOf DEF Shaped
  <2>2. /\ b \in Seq(PageValues) /\ Len(b) = n
        /\ \A p \in 1 .. n : p <= Len(stored[h]) => b[p] = stored[h][p]
    BY <2>1, KeptOf
  <2>3. Kept(m.backing[h], n) = b
    BY <1>4, <2>1 DEF Kept
  <2> HIDE DEF b
  <2>4. backing' = [m.backing EXCEPT ![h] = b] /\ stored' = [stored EXCEPT ![h] = b]
    BY <1>3, <1>7, <2>3 DEF b
  <2>5. \A w \in Windows : shown'[w] = IF shown[w] # Unmapped /\ shown[w][1] = h /\ shown[w][2] > n
                                       THEN Unmapped ELSE shown[w]
    BY <1>7 DEF StillShown
  <2>6. LeavesOnly(h)
    <3>1. shown' \in [Windows -> Slots]
      BY <1>2, <1>7 DEF StillShown, Slots
    <3> QED
      BY <2>5, <3>1 DEF LeavesOnly
  <2>7. ASSUME NEW w \in Windows, shown'[w] # Unmapped, shown'[w][1] = h
        PROVE  /\ owners'[h].inUse /\ shown'[w][2] \in 1 .. Len(b)
               /\ frame[w] = b[shown'[w][2]]
    <3>1. shown'[w] = shown[w] /\ ~ (shown[w][2] > n)
      BY <2>5, <2>7
    <3>2. /\ owners[h].inUse /\ shown[w][2] \in 1 .. Len(stored[h])
          /\ frame[w] = stored[h][shown[w][2]]
      BY <1>4, <2>7, <3>1 DEF Settled, Shows
    <3>3. shown[w][2] \in 1 .. n /\ shown[w][2] <= Len(stored[h])
      BY <2>1, <3>1, <3>2
    <3> QED
      BY <1>7, <2>2, <3>1, <3>2, <3>3
  <2>8. StaysOn(h, b)
    BY <2>7 DEF StaysOn
  <2>9. UNCHANGED <<emsGuest, frame, owners>>
    BY <1>1, <1>7 DEF EmsCall
  <2>10. Owned(owners') /\ OthersInUse(h)
    BY <1>2, <2>9 DEF OthersInUse
  <2> QED
    BY <1>4, <2>2, <2>4, <2>6, <2>8, <2>9, <2>10, Rebuffered
<1> QED
  BY <1>1, <1>5, <1>6, <1>7

LEMMA SaveKeeps == EmsInv /\ DosEmsSavePageMap => EmsInv'
<1> SUFFICES ASSUME EmsInv, DosEmsSavePageMap PROVE EmsInv'
  OBVIOUS
<1>1. PICK h \in EmsHandles :
        /\ EmsCall
        /\ \/ EmsRefused
           \/ /\ owners[h].inUse
              /\ owners' = [owners EXCEPT ![h].isMapSaved = TRUE, ![h].savedMap = shown]
              /\ UNCHANGED <<backing, shown, frame, stored>>
  BY DEF DosEmsSavePageMap, DosEmsGetHandle
<1>2. Shaped(Machine, stored) /\ Settled(Machine, owners, stored) /\ Owned(owners)
  BY DEF EmsInv
<1>3. CASE EmsRefused
  BY <1>1, <1>2, <1>3, MachineChanges, SameMachine DEF EmsRefused, EmsCall
<1>4. CASE ~ EmsRefused
  <2> DEFINE e == [inUse |-> TRUE, isMapSaved |-> TRUE, savedMap |-> shown]
  <2>1. shown \in [Windows -> Slots] /\ OnePlace(shown)
    BY <1>2 DEF Machine, Shaped, Settled
  <2>2. e \in Owner /\ OnePlace(e.savedMap) /\ e.inUse
    BY <2>1 DEF Owner
  <2>3. owners' = [owners EXCEPT ![h] = e]
    <3>1. owners[h] \in Owner /\ (owners[h].inUse <=> TRUE)
      BY <1>1, <1>2, <1>4 DEF Owned
    <3> QED
      BY <1>1, <1>4, <3>1 DEF Owner
  <2>4. UNCHANGED <<emsGuest, stored>> /\ Becomes(Machine)
    BY <1>1, <1>4, SameMachine DEF EmsCall
  <2> HIDE DEF e
  <2> QED
    BY <1>2, <2>2, <2>3, <2>4, SavedMapChanges
<1> QED
  BY <1>3, <1>4

LEMMA RestoreKeeps == EmsInv /\ DosEmsRestorePageMap => EmsInv'
<1> SUFFICES ASSUME EmsInv, DosEmsRestorePageMap PROVE EmsInv'
  OBVIOUS
<1> DEFINE e == [Unowned EXCEPT !.inUse = TRUE]
<1>1. PICK h \in EmsHandles :
        /\ EmsCall /\ MayRestore(h)
        /\ \/ EmsRefused
           \/ /\ Becomes(Restored(h)) /\ UNCHANGED stored
              /\ owners' = [owners EXCEPT ![h] = e]
  BY DEF DosEmsRestorePageMap
<1>2. Shaped(Machine, stored) /\ Settled(Machine, owners, stored)
  BY DEF EmsInv
<1>3. CASE EmsRefused
  BY <1>1, <1>2, <1>3, MachineChanges, SameMachine DEF EmsRefused, EmsCall
<1>4. CASE ~ EmsRefused
  <2>1. e \in Owner /\ OnePlace(e.savedMap) /\ e.inUse
    BY DEF Unowned, Owner, Slots, OnePlace
  <2> HIDE DEF e
  <2>2. Shaped(Restored(h), stored) /\ Settled(Restored(h), owners, stored)
    BY <1>1, RestoredIs
  <2> QED
    BY <1>1, <1>4, <2>1, <2>2, SavedMapChanges DEF EmsCall
<1> QED
  BY <1>3, <1>4

LEMMA GuestStoresKeeps == EmsInv /\ GuestStores => EmsInv'
<1> SUFFICES ASSUME EmsInv, GuestStores PROVE EmsInv'
  OBVIOUS
<1>1. PICK w \in Windows, v \in PageValues :
        /\ shown[w] # Unmapped
        /\ frame' = [frame EXCEPT ![w] = v]
        /\ stored' = [stored EXCEPT ![shown[w][1]][shown[w][2]] = v]
        /\ UNCHANGED <<emsGuest, owners, backing, shown>>
  BY DEF GuestStores, EmsCall
<1>2. PICK h, p : h = shown[w][1] /\ p = shown[w][2]
  OBVIOUS
<1>3. /\ Machine.shown = shown /\ Machine.frame = frame /\ Machine.backing = backing
      /\ Shaped(Machine, stored) /\ Settled(Machine, owners, stored)
  BY DEF Machine, EmsInv
<1>4. /\ shown \in [Windows -> Slots] /\ frame \in [Windows -> PageValues]
      /\ stored \in [EmsHandles -> Seq(PageValues)] /\ backing \in [EmsHandles -> Seq(PageValues)]
      /\ \A g \in EmsHandles : Len(backing[g]) = Len(stored[g])
  BY <1>3 DEF Shaped
<1>5. h \in EmsHandles /\ p \in 1 .. Len(stored[h]) /\ shown[w] = <<h, p>>
  BY <1>1, <1>2, <1>3, <1>4, SlotIs DEF Settled, Shows
<1>6. /\ stored' \in [EmsHandles -> Seq(PageValues)]
      /\ \A g \in EmsHandles : Len(stored'[g]) = Len(stored[g])
      /\ \A g \in EmsHandles : \A q \in 1 .. Len(stored[g]) :
            stored'[g][q] = IF <<g, q>> = <<h, p>> THEN v ELSE stored[g][q]
  <2>1. stored' = [stored EXCEPT ![h][p] = v]
    BY <1>1, <1>2
  <2> QED
    BY <1>4, <1>5, <2>1, StoreIs
<1>7. PICK n : n = Machine'
  OBVIOUS
<1>8. /\ n = [shown |-> n.shown, frame |-> n.frame, backing |-> n.backing]
      /\ n.shown = shown /\ n.frame = frame' /\ n.backing = backing
  BY <1>1, <1>7 DEF Machine
<1>9. Shaped(n, stored')
  BY <1>1, <1>4, <1>6, <1>8 DEF Shaped
<1>10. ASSUME NEW u \in Windows
       PROVE  Shows(n, owners, stored', u)
  <2> SUFFICES ASSUME shown[u] # Unmapped
               PROVE  /\ owners[shown[u][1]].inUse
                      /\ shown[u][2] \in 1 .. Len(stored'[shown[u][1]])
                      /\ frame'[u] = stored'[shown[u][1]][shown[u][2]]
    BY <1>8 DEF Shows
  <2>1. /\ shown[u][1] \in EmsHandles /\ shown[u] = <<shown[u][1], shown[u][2]>>
        /\ owners[shown[u][1]].inUse
        /\ shown[u][2] \in 1 .. Len(stored[shown[u][1]])
        /\ frame[u] = stored[shown[u][1]][shown[u][2]]
    BY <1>3, <1>4, SlotIs DEF Settled, Shows
  <2>2. stored'[shown[u][1]][shown[u][2]] = IF shown[u] = <<h, p>> THEN v ELSE frame[u]
    BY <1>6, <2>1
  <2>3. frame'[u] = IF u = w THEN v ELSE frame[u]
    BY <1>1, <1>4
  <2>4. shown[u] = <<h, p>> <=> u = w
    BY <1>1, <1>3, <1>5 DEF Settled, OnePlace
  <2> QED
    BY <1>6, <2>1, <2>2, <2>3, <2>4
<1>11. ASSUME NEW g \in EmsHandles, NEW q \in 1 .. Len(stored'[g])
       PROVE  Rests(n, stored', g, q)
  <2> SUFFICES ASSUME \A u \in Windows : shown[u] # <<g, q>>
               PROVE  backing[g][q] = stored'[g][q]
    BY <1>8 DEF Rests
  <2>1. q \in 1 .. Len(stored[g]) /\ <<g, q>> # <<h, p>>
    BY <1>5, <1>6
  <2>2. backing[g][q] = stored[g][q]
    BY <1>3, <2>1 DEF Settled, Rests
  <2> QED
    BY <1>6, <2>1, <2>2
<1>12. Settled(n, owners, stored')
  <2>1. OnePlace(n.shown)
    BY <1>3, <1>8 DEF Settled
  <2> QED
    BY <1>10, <1>11, <2>1 DEF Settled
<1> QED
  BY <1>1, <1>7, <1>9, <1>12 DEF EmsInv

(* For every number of handles, windows and pages, and every guest that    *)
(* shows a page in one window only: what it stored through any window      *)
(* survives every remapping, reallocation and restored map                 *)
(* (DosEmsMapPage, DosEmsReallocatePages, DosEmsRestorePageMap).           *)
THEOREM EmsWritesSurvive == EmsSpec /\ emsGuest = "onePlace" => []WritesSurvive
<1>1. EmsInit /\ emsGuest = "onePlace" => EmsInv
  <2> SUFFICES ASSUME EmsInit, emsGuest = "onePlace" PROVE EmsInv
    OBVIOUS
  <2>1. Owned(owners)
    BY DEF EmsInit, Owned, Owner, Unowned, OnePlace, Slots
  <2>2. /\ stored \in [EmsHandles -> Seq(PageValues)] /\ backing \in [EmsHandles -> Seq(PageValues)]
        /\ \A h \in EmsHandles : Len(stored[h]) = 0 /\ Len(backing[h]) = 0
        /\ shown \in [Windows -> Slots] /\ frame \in [Windows -> PageValues]
        /\ \A w \in Windows : shown[w] = Unmapped
    BY EmsAssumption DEF EmsInit, Slots
  <2>3. /\ Machine.shown = shown /\ Machine.frame = frame /\ Machine.backing = backing
        /\ Machine = [shown |-> Machine.shown, frame |-> Machine.frame, backing |-> Machine.backing]
    BY DEF Machine
  <2>4. Shaped(Machine, stored)
    BY <2>2, <2>3 DEF Shaped
  <2>5. Settled(Machine, owners, stored)
    BY <2>2, <2>3 DEF Settled, OnePlace, Shows
  <2> QED
    BY <2>1, <2>4, <2>5 DEF EmsInv
<1>2. EmsInv /\ [EmsNext]_emsVars => EmsInv'
  <2> SUFFICES ASSUME EmsInv, [EmsNext]_emsVars PROVE EmsInv'
    OBVIOUS
  <2>1. CASE UNCHANGED emsVars
    <3>1. UNCHANGED <<emsGuest, owners, stored>> /\ Becomes(Machine)
      BY <2>1, SameMachine DEF emsVars
    <3> QED
      BY <3>1, MachineChanges DEF EmsInv
  <2> QED
    BY <2>1, AllocateKeeps, MapKeeps, UnmapKeeps, DeallocateKeeps, ReallocKeeps, SaveKeeps,
       RestoreKeeps, GuestStoresKeeps DEF EmsNext
<1>3. EmsInv => WritesSurvive
  <2> SUFFICES ASSUME EmsInv PROVE WritesSurvive
    OBVIOUS
  <2>1. /\ Machine.shown = shown /\ Machine.frame = frame /\ Machine.backing = backing
        /\ Shaped(Machine, stored) /\ Settled(Machine, owners, stored)
    BY DEF Machine, EmsInv
  <2>2. /\ shown \in [Windows -> Slots]
        /\ stored \in [EmsHandles -> Seq(PageValues)] /\ backing \in [EmsHandles -> Seq(PageValues)]
        /\ \A h \in EmsHandles : Len(backing[h]) = Len(stored[h])
    BY <2>1 DEF Shaped
  <2>3. ASSUME NEW w \in Windows, shown[w] # Unmapped
        PROVE  /\ HasPage(backing, shown[w][1], shown[w][2])
               /\ frame[w] = stored[shown[w][1]][shown[w][2]]
    <3>1. /\ shown[w][1] \in EmsHandles /\ owners[shown[w][1]].inUse
          /\ shown[w][2] \in 1 .. Len(stored[shown[w][1]])
          /\ frame[w] = stored[shown[w][1]][shown[w][2]]
      BY <2>1, <2>2, <2>3, SlotIs DEF Settled, Shows
    <3> QED
      BY <2>2, <3>1, PageOf DEF HasPage, DosEmsGetHandle
  <2>4. ASSUME NEW h \in EmsHandles, NEW p \in DOMAIN stored[h],
               \A w \in Windows : shown[w] # <<h, p>>
        PROVE  backing[h][p] = stored[h][p]
    <3>1. p \in 1 .. Len(stored[h])
      BY <2>2, PageOf
    <3>2. Rests(Machine, stored, h, p)
      BY <2>1, <3>1 DEF Settled
    <3> QED
      BY <2>1, <2>4, <3>2 DEF Rests
  <2> QED
    BY <2>3, <2>4 DEF WritesSurvive
<1> QED
  BY <1>1, <1>2, <1>3, PTL DEF EmsSpec

-----------------------------------------------------------------------------
(* The clocks: day counts and dates (DosClockDays, DosClockUnpack). The     *)
(* dates are those of the calendar in every year; the code's two functions  *)
(* are shown to be each other's inverse, and NextDay to be a day later.     *)
Date == {d \in Int \X Int \X Int : d[2] \in 1 .. 12 /\ d[3] \in 1 .. DaysInMonth(d[1], d[2])}

(* Years that begin in March: the first day of one, and its last.          *)
FirstOfMarch(y) == 365 * y + y \div 4 - y \div 100 + y \div 400
LastDay(y) == IF IsLeapYear(y + 1) THEN 365 ELSE 364
ShiftedMonth(m) == IF m > 2 THEN m - 3 ELSE m + 9
UnshiftedMonth(s) == IF s < 10 THEN s + 3 ELSE s - 9
FirstOfMonth(s) == (153 * s + 2) \div 5

(* The code's parts of a year and of the day count it begins with: eras,   *)
(* centuries, leap cycles and years, without and with the days.            *)
IsParts(a, b, c) == a \in 0 .. 3 /\ b \in 0 .. 24 /\ c \in 0 .. 3
YearAt(e, a, b, c) == 400 * e + 100 * a + 4 * b + c
DaysAt(e, a, b, c) == 146097 * e + 36524 * a + 1461 * b + 365 * c
IsInEra(doe) == 0 <= doe /\ doe <= 146096
HasLeapDay(a, b, c) == c = 3 /\ (b # 24 \/ a = 3)
LastDayAt(a, b, c) == IF HasLeapDay(a, b, c) THEN 365 ELSE 364

LEMMA EraParts ==
    ASSUME NEW y \in Int
    PROVE  \E e, a, b, c \in Int :
              /\ IsParts(a, b, c)
              /\ y = YearAt(e, a, b, c)
              /\ FirstOfMarch(y) = DaysAt(e, a, b, c)
              /\ LastDay(y) = LastDayAt(a, b, c)
<1> DEFINE e == y \div 400
           z == y - 400 * e
           a == z \div 100
           b == (z - 100 * a) \div 4
           c == z - 100 * a - 4 * b
<1>1. e \in Int /\ z \in 0 .. 399 /\ y = 400 * e + z
  OBVIOUS
<1>2. a \in 0 .. 3 /\ b \in 0 .. 24 /\ c \in 0 .. 3 /\ z = 100 * a + 4 * b + c
  BY <1>1
<1> HIDE DEF e, z, a, b, c
<1>3. y \div 4 = 100 * e + 25 * a + b /\ y \div 100 = 4 * e + a /\ y \div 400 = e
  BY <1>1, <1>2
<1>4. FirstOfMarch(y) = DaysAt(e, a, b, c)
  BY <1>1, <1>2, <1>3 DEF FirstOfMarch, DaysAt
<1>5. LastDay(y) = LastDayAt(a, b, c)
  <2>1. y + 1 = 400 * e + 100 * a + 4 * b + c + 1
    BY <1>1, <1>2
  <2>2. (y + 1) % 4 = 0 <=> c = 3
    BY <1>1, <1>2, <2>1
  <2>3. (y + 1) % 100 = 0 <=> c = 3 /\ b = 24
    BY <1>1, <1>2, <2>1
  <2>4. (y + 1) % 400 = 0 <=> c = 3 /\ b = 24 /\ a = 3
    BY <1>1, <1>2, <2>1
  <2> QED BY <1>2, <2>2, <2>3, <2>4 DEF LastDay, IsLeapYear, HasLeapDay, LastDayAt
<1>6. y = YearAt(e, a, b, c)
  BY <1>1, <1>2 DEF YearAt
<1>7. e \in Int /\ a \in Int /\ b \in Int /\ c \in Int /\ IsParts(a, b, c)
  BY <1>1, <1>2 DEF IsParts
<1> QED
  BY <1>4, <1>5, <1>6, <1>7

(* What the divisions of the two functions come to on those parts.         *)
LEMMA YearParts ==
    ASSUME NEW e \in Int, NEW a \in Int, NEW b \in Int, NEW c \in Int, IsParts(a, b, c)
    PROVE  /\ YearAt(e, a, b, c) \div 400 = e
           /\ YearAt(e, a, b, c) - e * 400 = YearAt(0, a, b, c)
           /\ YearAt(0, a, b, c) \div 4 = 25 * a + b /\ YearAt(0, a, b, c) \div 100 = a
  BY DEF YearAt, IsParts

(* yearOfEra as the code computes it.                                      *)
YearOfEra(doe) == (doe - doe \div 1460 + doe \div 36524 - doe \div 146096) \div 365

LEMMA YearOfEraIs ==
    ASSUME NEW a \in Int, NEW b \in Int, NEW c \in Int, IsParts(a, b, c),
           NEW r \in Int, 0 <= r, r <= LastDayAt(a, b, c),
           NEW doe \in Int, doe = DaysAt(0, a, b, c) + r
    PROVE  IsInEra(doe) /\ YearOfEra(doe) = YearAt(0, a, b, c)
<1>1. /\ a \in 0 .. 3 /\ b \in 0 .. 24 /\ c \in 0 .. 3 /\ r \in 0 .. 365
      /\ r = 365 => c = 3 /\ (b # 24 \/ a = 3)
  BY DEF HasLeapDay, LastDayAt, IsParts
<1>2. doe = 36524 * a + 1461 * b + 365 * c + r
  BY DEF DaysAt
<1>3. IsInEra(doe)
  BY <1>1, <1>2 DEF IsInEra
<1>4. PICK q \in 0 .. 1 : doe \div 1460 = 25 * a + b + q /\ q <= r /\ r - q <= 364
  <2>1. CASE 24 * a + b + 365 * c + r < 1460
    <3>1. doe \div 1460 = 25 * a + b
      BY <1>1, <1>2, <2>1
    <3>2. r <= 364
      BY <1>1, <2>1
    <3> QED BY <1>1, <3>1, <3>2
  <2>2. CASE 24 * a + b + 365 * c + r >= 1460
    <3>1. doe \div 1460 = 25 * a + b + 1
      BY <1>1, <1>2, <2>2
    <3>2. 1 <= r
      BY <1>1, <2>2
    <3> QED BY <1>1, <3>1, <3>2
  <2> QED BY <2>1, <2>2
<1>5. doe \div 36524 - doe \div 146096 = a
  <2>1. CASE r = 365 /\ a = 3 /\ b = 24
    BY <1>1, <1>2, <2>1
  <2>2. CASE ~ (r = 365 /\ a = 3 /\ b = 24)
    <3> DEFINE t == 1461 * b + 365 * c + r
    <3>1. doe = 36524 * a + t /\ 0 <= t /\ t < 36524
      BY <1>1, <1>2, <2>2
    <3> HIDE DEF t
    <3>2. t \in Int
      BY <1>1 DEF t
    <3>3. doe \div 36524 = a
      BY <1>1, <3>1, <3>2
    <3>4. doe \div 146096 = 0
      BY <1>1, <3>1, <3>2
    <3> QED BY <3>3, <3>4
  <2> QED BY <2>1, <2>2
<1>6. doe = 365 * (100 * a + 4 * b + c) + 24 * a + b + r
  BY <1>1, <1>2
<1> DEFINE u == doe \div 1460
           v == doe \div 36524
           w == doe \div 146096
           x == doe - u + v - w
           z == 100 * a + 4 * b + c
<1>7. x = 365 * z + r - q
  <2>1. u \in Int /\ v \in Int /\ w \in Int /\ z \in Int
    BY <1>1
  <2>2. u = 25 * a + b + q /\ v - w = a /\ doe = 365 * z + 24 * a + b + r
    BY <1>4, <1>5, <1>6
  <2> HIDE DEF u, v, w, z
  <2> QED BY <1>1, <2>1, <2>2
<1>8. z \in Int /\ YearAt(0, a, b, c) = z
  BY <1>1 DEF YearAt
<1>9. YearOfEra(doe) = x \div 365
  BY SMT DEF YearOfEra
<1> HIDE DEF x, z
<1>10. x \div 365 = z
  BY <1>1, <1>4, <1>7, <1>8
<1> QED
  BY <1>3, <1>8, <1>9, <1>10

(* Within a year: the month of a day and the day of a month.               *)
LEMMA MonthOfDay ==
    ASSUME NEW y \in Int, NEW r \in 0 .. LastDay(y)
    PROVE  LET s == (5 * r + 2) \div 153
               m == UnshiftedMonth(s)
               z == y + (IF m <= 2 THEN 1 ELSE 0)
           IN  /\ s \in 0 .. 11 /\ m \in 1 .. 12 /\ ShiftedMonth(m) = s
               /\ r - FirstOfMonth(s) + 1 \in 1 .. DaysInMonth(z, m)
<1> DEFINE s == (5 * r + 2) \div 153
           m == UnshiftedMonth(s)
           z == y + (IF m <= 2 THEN 1 ELSE 0)
<1>1. r \in 0 .. 365 /\ (r = 365 => IsLeapYear(y + 1))
  BY DEF LastDay
<1>2. s \in 0 .. 11
  BY <1>1
<1>3. 153 * s <= 5 * r + 2 /\ 5 * r + 2 < 153 * s + 153
  BY <1>1
<1> HIDE DEF s
<1>4. m \in 1 .. 12 /\ ShiftedMonth(m) = s
  BY <1>2 DEF UnshiftedMonth, ShiftedMonth
<1>5. r - FirstOfMonth(s) + 1 >= 1
  BY <1>1, <1>2, <1>3 DEF FirstOfMonth
<1>6. r - FirstOfMonth(s) + 1 <= DaysInMonth(z, m) /\ r - FirstOfMonth(s) + 1 \in Int
  <2>1. s \in 0 .. 9 => z = y
    BY DEF UnshiftedMonth
  <2>2. s \in {10, 11} => z = y + 1
    BY DEF UnshiftedMonth
  <2> QED BY <1>1, <1>2, <1>3, <2>1, <2>2 DEF FirstOfMonth, UnshiftedMonth, DaysInMonth
<1>7. DaysInMonth(z, m) \in Nat
  BY DEF DaysInMonth
<1>8. r - FirstOfMonth(s) + 1 \in 1 .. DaysInMonth(z, m)
  <2> DEFINE n == r - FirstOfMonth(s) + 1
             k == DaysInMonth(z, m)
  <2> HIDE DEF n, k
  <2> QED BY <1>5, <1>6, <1>7 DEF n, k
<1> QED
  BY <1>2, <1>4, <1>8 DEF s

(* The year of March that a date lies in, and its day there.               *)
MarchYear(d) == d[1] - (IF d[2] <= 2 THEN 1 ELSE 0)
DayOfYear(d) == FirstOfMonth(ShiftedMonth(d[2])) + d[3] - 1

LEMMA DayOfMonth ==
    ASSUME NEW d, d[1] \in Int, d[2] \in 1 .. 12, d[3] \in 1 .. DaysInMonth(d[1], d[2])
    PROVE  /\ MarchYear(d) \in Int /\ DayOfYear(d) \in Int
           /\ 0 <= DayOfYear(d) /\ DayOfYear(d) <= LastDay(MarchYear(d))
           /\ (5 * DayOfYear(d) + 2) \div 153 = ShiftedMonth(d[2])
           /\ UnshiftedMonth(ShiftedMonth(d[2])) = d[2]
<1> DEFINE z == d[1]
           m == d[2]
           k == d[3]
           s == ShiftedMonth(m)
           y == z - (IF m <= 2 THEN 1 ELSE 0)
           r == FirstOfMonth(s) + k - 1
<1>1. z \in Int /\ m \in 1 .. 12 /\ k \in 1 .. DaysInMonth(z, m)
  OBVIOUS
<1>2. MarchYear(d) = y /\ DayOfYear(d) = r
  BY DEF MarchYear, DayOfYear
<1> HIDE DEF z, m, k
<1>3. s \in 0 .. 11 /\ UnshiftedMonth(s) = m
  BY <1>1 DEF UnshiftedMonth, ShiftedMonth
<1>4. r \in 0 .. LastDay(y) /\ 153 * s <= 5 * r + 2 /\ 5 * r + 2 < 153 * s + 153
  BY <1>1 DEF ShiftedMonth, FirstOfMonth, DaysInMonth, LastDay
<1>5. r \in Int /\ y \in Int /\ 0 <= r /\ r <= LastDay(y)
  BY <1>1, <1>4 DEF LastDay
<1> HIDE DEF r, y, s
<1>6. (5 * r + 2) \div 153 = s
  BY <1>3, <1>4, <1>5
<1>7. s = ShiftedMonth(d[2]) /\ m = d[2]
  BY DEF s, m
<1> QED
  BY <1>2, <1>3, <1>5, <1>6, <1>7

(* The day count in years that begin in March, and the way back.           *)
LEMMA DateIs ==
    ASSUME NEW d \in Date
    PROVE  /\ d[1] \in Int /\ d[2] \in 1 .. 12 /\ d[3] \in Int
           /\ d[3] \in 1 .. DaysInMonth(d[1], d[2]) /\ d = <<d[1], d[2], d[3]>>
  BY DEF Date, DaysInMonth

LEMMA DaysAre ==
    ASSUME NEW d \in Date
    PROVE  /\ MarchYear(d) \in Int /\ DayOfYear(d) \in Int
           /\ 0 <= DayOfYear(d) /\ DayOfYear(d) <= LastDay(MarchYear(d))
           /\ DosClockDays(d) = FirstOfMarch(MarchYear(d)) + DayOfYear(d)
           /\ (5 * DayOfYear(d) + 2) \div 153 = ShiftedMonth(d[2])
           /\ UnshiftedMonth(ShiftedMonth(d[2])) = d[2]
<1>1. d[1] \in Int /\ d[2] \in 1 .. 12 /\ d[3] \in 1 .. DaysInMonth(d[1], d[2])
  BY DateIs
<1> DEFINE y == MarchYear(d)
           r == DayOfYear(d)
<1>2. /\ UnshiftedMonth(ShiftedMonth(d[2])) = d[2]
      /\ (5 * r + 2) \div 153 = ShiftedMonth(d[2])
  BY <1>1, DayOfMonth
<1>3. y \in Int /\ r \in Int /\ 0 <= r /\ r <= LastDay(y)
  BY <1>1, DayOfMonth
<1>4. DosClockDays(d) = FirstOfMarch(y) + r
  <2>1. DosClockDays(d) = (y \div 400) * 146097 + (y - (y \div 400) * 400) * 365
                             + (y - (y \div 400) * 400) \div 4 - (y - (y \div 400) * 400) \div 100 + r
    BY <1>1 DEF DosClockDays, MarchYear, DayOfYear, ShiftedMonth, FirstOfMonth, DaysInMonth
  <2> HIDE DEF y, r
  <2>2. PICK e, a, b, c \in Int :
              IsParts(a, b, c) /\ y = YearAt(e, a, b, c) /\ FirstOfMarch(y) = DaysAt(e, a, b, c)
    BY <1>3, EraParts
  <2>3. /\ y \div 400 = e /\ y - e * 400 = YearAt(0, a, b, c)
        /\ YearAt(0, a, b, c) \div 4 = 25 * a + b /\ YearAt(0, a, b, c) \div 100 = a
    <3>1. /\ YearAt(e, a, b, c) \div 400 = e /\ YearAt(e, a, b, c) - e * 400 = YearAt(0, a, b, c)
          /\ YearAt(0, a, b, c) \div 4 = 25 * a + b /\ YearAt(0, a, b, c) \div 100 = a
      BY <2>2, YearParts
    <3> QED BY <2>2, <3>1
  <2>4. DosClockDays(d) = e * 146097 + YearAt(0, a, b, c) * 365 + (25 * a + b) - a + r
    BY <2>1, <2>3
  <2> QED BY <1>3, <2>2, <2>4 DEF YearAt, DaysAt
<1> QED
  BY <1>2, <1>3, <1>4

LEMMA UnpackIs ==
    ASSUME NEW y \in Int, NEW r \in Int, 0 <= r, r <= LastDay(y),
           NEW n \in Int, n = FirstOfMarch(y) + r
    PROVE  LET s == (5 * r + 2) \div 153
               m == UnshiftedMonth(s)
           IN  DosClockUnpackDays(n) =
                  <<y + (IF m <= 2 THEN 1 ELSE 0), m, r - FirstOfMonth(s) + 1>>
<1>1. PICK e, a, b, c \in Int :
              /\ IsParts(a, b, c)
              /\ y = YearAt(e, a, b, c)
              /\ FirstOfMarch(y) = DaysAt(e, a, b, c)
              /\ LastDay(y) = LastDayAt(a, b, c)
  BY EraParts
<1> DEFINE doe == DaysAt(0, a, b, c) + r
           z   == YearAt(0, a, b, c)
<1>2. doe \in Int /\ doe = DaysAt(0, a, b, c) + r /\ z \in Int
  BY DEF DaysAt, YearAt
<1>3. r <= LastDayAt(a, b, c)
  BY <1>1
<1>4. IsInEra(doe) /\ YearOfEra(doe) = z
  <2> HIDE DEF doe
  <2> QED BY <1>1, <1>2, <1>3, YearOfEraIs
<1>5. n = 146097 * e + doe
  BY <1>1 DEF DaysAt
<1>6. doe - (365 * z + z \div 4 - z \div 100) = r
  <2>1. z \div 4 = 25 * a + b /\ z \div 100 = a
    BY <1>1, YearParts
  <2> HIDE DEF z
  <2>2. doe - (365 * z + (25 * a + b) - a) = r
    BY DEF DaysAt, YearAt, z
  <2> QED BY <2>1, <2>2
<1>7. y = z + e * 400
  BY <1>1 DEF YearAt
<1> HIDE DEF doe, z
<1> DEFINE era == n \div 146097
           dayOfEra == n - era * 146097
           yearOfEra == YearOfEra(dayOfEra)
           dayOfYear == dayOfEra - (365 * yearOfEra + yearOfEra \div 4 - yearOfEra \div 100)
<1>8. DosClockUnpackDays(n) =
          LET s == (5 * dayOfYear + 2) \div 153
              m == UnshiftedMonth(s)
          IN  <<yearOfEra + era * 400 + (IF m <= 2 THEN 1 ELSE 0), m, dayOfYear - FirstOfMonth(s) + 1>>
  BY SMT DEF DosClockUnpackDays, UnshiftedMonth, FirstOfMonth, YearOfEra
<1>9. era = e /\ dayOfEra = doe
  <2>1. 0 <= doe /\ doe <= 146096
    BY <1>4 DEF IsInEra
  <2>2. e * 146097 = 146097 * e
    OBVIOUS
  <2>3. era = e
    BY <1>2, <1>5, <2>1
  <2> QED BY <1>2, <1>5, <2>2, <2>3
<1> HIDE DEF era, dayOfEra
<1>10. yearOfEra = z /\ dayOfYear = r
  BY <1>4, <1>6, <1>9
<1> HIDE DEF yearOfEra, dayOfYear
<1> QED
  BY <1>7, <1>8, <1>9, <1>10

LEMMA DayExists ==
    ASSUME NEW n \in Int
    PROVE  \E y \in Int : \E r \in 0 .. LastDay(y) : n = FirstOfMarch(y) + r
<1> DEFINE e == n \div 146097
           p == n - 146097 * e
           a == IF p \div 36524 = 4 THEN 3 ELSE p \div 36524
           t == p - 36524 * a
           b == t \div 1461
           u == t - 1461 * b
           c == IF u \div 365 = 4 THEN 3 ELSE u \div 365
           r == u - 365 * c
           y == 400 * e + 100 * a + 4 * b + c
<1>1. e \in Int /\ p \in Int /\ 0 <= p /\ p <= 146096 /\ n = 146097 * e + p
  OBVIOUS
<1> HIDE DEF e, p
<1>2. a \in 0 .. 3 /\ t \in Int /\ 0 <= t /\ t <= 36524 /\ (t = 36524 => a = 3) /\ p = 36524 * a + t
  BY <1>1
<1> HIDE DEF a, t
<1>3. b \in 0 .. 24 /\ u \in Int /\ 0 <= u /\ u <= 1460 /\ (u = 1460 => b # 24 \/ a = 3) /\ t = 1461 * b + u
  BY <1>2
<1> HIDE DEF b, u
<1>4. c \in 0 .. 3 /\ r \in 0 .. 365 /\ (r = 365 => c = 3 /\ u = 1460) /\ u = 365 * c + r
  BY <1>3
<1> HIDE DEF c, r
<1>5. y \in Int
  BY <1>1, <1>2, <1>3, <1>4
<1>6. y = YearAt(e, a, b, c)
  BY DEF YearAt
<1> HIDE DEF y
<1>7. PICK e1, a1, b1, c1 \in Int :
              /\ IsParts(a1, b1, c1)
              /\ y = YearAt(e1, a1, b1, c1)
              /\ FirstOfMarch(y) = DaysAt(e1, a1, b1, c1)
              /\ LastDay(y) = LastDayAt(a1, b1, c1)
  BY <1>5, EraParts
<1>8. e1 = e /\ a1 = a /\ b1 = b /\ c1 = c
  <2>1. /\ a1 \in 0 .. 3 /\ b1 \in 0 .. 24 /\ c1 \in 0 .. 3
        /\ 400 * e + 100 * a + 4 * b + c = 400 * e1 + 100 * a1 + 4 * b1 + c1
    BY <1>6, <1>7 DEF YearAt, IsParts
  <2>2. e1 = e
    BY <1>1, <1>2, <1>3, <1>4, <2>1
  <2> QED BY <1>1, <1>2, <1>3, <1>4, <2>1, <2>2
<1>9. n = FirstOfMarch(y) + r
  BY <1>1, <1>2, <1>3, <1>4, <1>7, <1>8 DEF DaysAt
<1>10. r \in 0 .. LastDay(y)
  BY <1>3, <1>4, <1>7, <1>8 DEF HasLeapDay, LastDayAt
<1> QED
  BY <1>5, <1>9, <1>10

(* The two functions are each other's inverse, and midnight adds a day.    *)
LEMMA DateOfDays ==
    ASSUME NEW d \in Date
    PROVE  DosClockDays(d) \in Int /\ DosClockUnpackDays(DosClockDays(d)) = d
<1> DEFINE n == DosClockDays(d)
           y == MarchYear(d)
           r == DayOfYear(d)
           s == ShiftedMonth(d[2])
<1>1. /\ y \in Int /\ r \in Int /\ 0 <= r /\ r <= LastDay(y) /\ n = FirstOfMarch(y) + r
      /\ (5 * r + 2) \div 153 = s /\ UnshiftedMonth(s) = d[2]
  BY DaysAre
<1>2. y + (IF d[2] <= 2 THEN 1 ELSE 0) = d[1] /\ r - FirstOfMonth(s) + 1 = d[3]
  BY DateIs DEF MarchYear, DayOfYear, ShiftedMonth, FirstOfMonth
<1> HIDE DEF n, y, r, s
<1>3. n \in Int
  BY <1>1 DEF FirstOfMarch
<1>4. DosClockUnpackDays(n) =
          <<y + (IF UnshiftedMonth((5 * r + 2) \div 153) <= 2 THEN 1 ELSE 0),
            UnshiftedMonth((5 * r + 2) \div 153), r - FirstOfMonth((5 * r + 2) \div 153) + 1>>
  BY <1>1, <1>3, UnpackIs
<1>5. DosClockUnpackDays(n) = <<d[1], d[2], d[3]>>
  BY <1>1, <1>2, <1>4
<1> QED
  BY <1>3, <1>5, DateIs DEF n

LEMMA DaysOfDate ==
    ASSUME NEW n \in Int
    PROVE  DosClockUnpackDays(n) \in Date /\ DosClockDays(DosClockUnpackDays(n)) = n
<1> DEFINE d == DosClockUnpackDays(n)
<1>1. PICK y \in Int : \E r \in 0 .. LastDay(y) : n = FirstOfMarch(y) + r
  BY DayExists
<1>2. PICK r \in 0 .. LastDay(y) : n = FirstOfMarch(y) + r
  BY <1>1
<1>3. r \in Int /\ 0 <= r /\ r <= LastDay(y)
  BY <1>1 DEF LastDay
<1> DEFINE s == (5 * r + 2) \div 153
           m == UnshiftedMonth(s)
           z == y + (IF m <= 2 THEN 1 ELSE 0)
           k == r - FirstOfMonth(s) + 1
<1>4. d = <<z, m, k>>
  BY <1>2, <1>3, UnpackIs
<1>5. s \in 0 .. 11 /\ m \in 1 .. 12 /\ ShiftedMonth(m) = s /\ k \in 1 .. DaysInMonth(z, m)
  BY MonthOfDay
<1>6. z \in Int /\ k \in Int /\ DaysInMonth(z, m) \in Nat
  BY <1>3, <1>5 DEF DaysInMonth, FirstOfMonth
<1> HIDE DEF d
<1>7. z - (IF m <= 2 THEN 1 ELSE 0) = y
  BY <1>5
<1>8. FirstOfMonth(s) + k - 1 = r
  BY <1>3, <1>5 DEF FirstOfMonth
<1> HIDE DEF s, m, z, k
<1>9. d \in Date
  BY <1>4, <1>5, <1>6 DEF Date
<1>10. MarchYear(d) = y /\ DayOfYear(d) = r
  BY <1>4, <1>5, <1>7, <1>8 DEF MarchYear, DayOfYear
<1>11. DosClockDays(d) = n
  BY <1>2, <1>9, <1>10, DaysAre
<1> QED
  BY <1>9, <1>11 DEF d

LEMMA NextYear ==
    ASSUME NEW y \in Int
    PROVE  FirstOfMarch(y + 1) = FirstOfMarch(y) + LastDay(y) + 1
<1>1. (y + 1) \div 4 = y \div 4 + (IF (y + 1) % 4 = 0 THEN 1 ELSE 0)
  OBVIOUS
<1>2. (y + 1) \div 100 = y \div 100 + (IF (y + 1) % 100 = 0 THEN 1 ELSE 0)
  OBVIOUS
<1>3. (y + 1) \div 400 = y \div 400 + (IF (y + 1) % 400 = 0 THEN 1 ELSE 0)
  OBVIOUS
<1>4. ((y + 1) % 100 = 0 => (y + 1) % 4 = 0) /\ ((y + 1) % 400 = 0 => (y + 1) % 100 = 0)
  OBVIOUS
<1> QED
  BY <1>1, <1>2, <1>3, <1>4 DEF FirstOfMarch, LastDay, IsLeapYear

LEMMA NextDayCounts ==
    ASSUME NEW d \in Date
    PROVE  NextDay(d) \in Date /\ DosClockDays(NextDay(d)) = DosClockDays(d) + 1
<1> DEFINE f == NextDay(d)
<1>1. /\ d[1] \in Int /\ d[2] \in 1 .. 12 /\ d[3] \in Int
      /\ d[3] \in 1 .. DaysInMonth(d[1], d[2])
  BY DateIs
<1>2. \A y \in Int : \A m \in 1 .. 12 : DaysInMonth(y, m) \in 28 .. 31
  BY DEF DaysInMonth
<1>3. f \in Date
  BY <1>1, <1>2 DEF NextDay, Date
<1>4. CASE d[2] = 2 /\ d[3] = DaysInMonth(d[1], d[2])
  <2>1. f = <<d[1], 3, 1>>
    BY <1>1, <1>4 DEF NextDay
  <2>2. MarchYear(f) = MarchYear(d) + 1 /\ DayOfYear(f) = 0
    BY <1>1, <1>4, <2>1 DEF MarchYear, DayOfYear, ShiftedMonth, FirstOfMonth
  <2>3. DayOfYear(d) = LastDay(MarchYear(d))
    <3>1. MarchYear(d) + 1 = d[1]
      BY <1>1, <1>4 DEF MarchYear
    <3> QED BY <1>1, <1>4, <3>1 DEF DayOfYear, ShiftedMonth, FirstOfMonth, LastDay, DaysInMonth
  <2>4. MarchYear(d) \in Int /\ FirstOfMarch(MarchYear(d)) \in Int /\ LastDay(MarchYear(d)) \in Int
    BY DaysAre DEF FirstOfMarch, LastDay
  <2>5. FirstOfMarch(MarchYear(d) + 1) = FirstOfMarch(MarchYear(d)) + LastDay(MarchYear(d)) + 1
    BY <2>4, NextYear
  <2>6. /\ DosClockDays(f) = FirstOfMarch(MarchYear(f)) + DayOfYear(f)
        /\ DosClockDays(d) = FirstOfMarch(MarchYear(d)) + DayOfYear(d)
    BY <1>3, DaysAre
  <2> QED BY <1>3, <2>2, <2>3, <2>4, <2>5, <2>6
<1>5. CASE ~ (d[2] = 2 /\ d[3] = DaysInMonth(d[1], d[2]))
  <2>1. MarchYear(f) = MarchYear(d) /\ DayOfYear(f) = DayOfYear(d) + 1
    BY <1>1, <1>2, <1>5 DEF NextDay, MarchYear, DayOfYear, ShiftedMonth, FirstOfMonth, DaysInMonth
  <2>2. /\ DosClockDays(f) = FirstOfMarch(MarchYear(f)) + DayOfYear(f)
        /\ DosClockDays(d) = FirstOfMarch(MarchYear(d)) + DayOfYear(d)
        /\ MarchYear(d) \in Int /\ FirstOfMarch(MarchYear(d)) \in Int /\ DayOfYear(d) \in Int
    BY <1>3, DaysAre DEF FirstOfMarch
  <2> HIDE DEF f
  <2> QED BY <1>3, <2>1, <2>2 DEF f
<1> QED
  BY <1>4, <1>5

-----------------------------------------------------------------------------
(* Readings of a clock, as numbers and as dates and times of day.          *)
Reading == [date : Date, time : 0 .. ClockDay - 1]
Packed(r) == DosClockPack(r.date, r.time)

LEMMA DivOfSum ==
    ASSUME NEW k \in Int, NEW t \in Int, 0 <= t, t < ClockDay
    PROVE  /\ k * ClockDay + t \in Int
           /\ (k * ClockDay + t) \div ClockDay = k /\ (k * ClockDay + t) % ClockDay = t
<1>1. ClockDay \in Nat \ {0}
  BY ClockAssumption
<1>2. k * ClockDay + t \in Int /\ k * ClockDay = ClockDay * k
  BY <1>1
<1>3. (k * ClockDay + t) \div ClockDay = k
  BY <1>1, <1>2
<1>4. (k * ClockDay + t) % ClockDay = t
  BY <1>1, <1>2
<1> QED
  BY <1>2, <1>3, <1>4

LEMMA DivParts ==
    ASSUME NEW n \in Int
    PROVE  /\ n \div ClockDay \in Int /\ n % ClockDay \in 0 .. ClockDay - 1
           /\ n = (n \div ClockDay) * ClockDay + (n % ClockDay)
<1>1. ClockDay \in Nat \ {0}
  BY ClockAssumption
<1>2. n = ClockDay * (n \div ClockDay) + (n % ClockDay)
  BY <1>1
<1>3. n \div ClockDay \in Int /\ n % ClockDay \in 0 .. ClockDay - 1
  BY <1>1
<1>4. ClockDay * (n \div ClockDay) = (n \div ClockDay) * ClockDay
  <2> DEFINE q == n \div ClockDay
  <2> HIDE DEF q
  <2>1. q \in Int
    BY <1>3 DEF q
  <2>2. ClockDay * q = q * ClockDay
    BY <1>1, <2>1
  <2> QED BY <2>2 DEF q
<1> QED
  BY <1>2, <1>3, <1>4

LEMMA ReadingIs ==
    ASSUME NEW w \in Reading
    PROVE  /\ w.date \in Date /\ w.time \in Int /\ 0 <= w.time /\ w.time < ClockDay
           /\ w = [date |-> w.date, time |-> w.time]
           /\ Packed(w) \in Int /\ Packed(w) = DosClockDays(w.date) * ClockDay + w.time
           /\ DosClockUnpack(Packed(w)) = w
<1>1. /\ w.date \in Date /\ w.time \in Int /\ 0 <= w.time /\ w.time < ClockDay
      /\ w = [date |-> w.date, time |-> w.time]
  BY ClockAssumption DEF Reading
<1>2. DosClockDays(w.date) \in Int /\ DosClockUnpackDays(DosClockDays(w.date)) = w.date
  BY <1>1, DateOfDays
<1>3. Packed(w) = DosClockDays(w.date) * ClockDay + w.time
  BY DEF Packed, DosClockPack
<1>4. /\ Packed(w) \in Int /\ Packed(w) \div ClockDay = DosClockDays(w.date)
      /\ Packed(w) % ClockDay = w.time
  BY <1>1, <1>2, <1>3, DivOfSum
<1>5. DosClockUnpack(Packed(w)) = [date |-> w.date, time |-> w.time]
  BY <1>2, <1>4 DEF DosClockUnpack
<1> QED
  BY <1>1, <1>3, <1>4, <1>5

LEMMA UnpackedIs ==
    ASSUME NEW n \in Int
    PROVE  DosClockUnpack(n) \in Reading /\ Packed(DosClockUnpack(n)) = n
<1>1. /\ n \div ClockDay \in Int /\ n % ClockDay \in 0 .. ClockDay - 1
      /\ n = (n \div ClockDay) * ClockDay + (n % ClockDay)
  BY DivParts
<1>2. /\ DosClockUnpackDays(n \div ClockDay) \in Date
      /\ DosClockDays(DosClockUnpackDays(n \div ClockDay)) = n \div ClockDay
  BY <1>1, DaysOfDate
<1>3. DosClockUnpack(n) = [date |-> DosClockUnpackDays(n \div ClockDay), time |-> n % ClockDay]
  BY DEF DosClockUnpack
<1>4. DosClockUnpack(n) \in Reading
  BY <1>1, <1>2, <1>3 DEF Reading
<1>5. Packed(DosClockUnpack(n)) = (n \div ClockDay) * ClockDay + (n % ClockDay)
  BY <1>2, <1>3 DEF Packed, DosClockPack
<1> QED
  BY <1>1, <1>4, <1>5

LEMMA NextReadingCounts ==
    ASSUME NEW w \in Reading
    PROVE  NextReading(w) \in Reading /\ Packed(NextReading(w)) = Packed(w) + 1
<1>1. /\ w.date \in Date /\ w.time \in Int /\ 0 <= w.time /\ w.time < ClockDay
      /\ Packed(w) = DosClockDays(w.date) * ClockDay + w.time
  BY ReadingIs
<1>2. /\ NextDay(w.date) \in Date /\ DosClockDays(w.date) \in Int
      /\ DosClockDays(NextDay(w.date)) = DosClockDays(w.date) + 1
  BY <1>1, NextDayCounts, DateOfDays
<1>3. ClockDay \in Nat \ {0}
  BY ClockAssumption
<1>4. CASE w.time + 1 < ClockDay
  <2>1. NextReading(w) = [date |-> w.date, time |-> w.time + 1]
    BY <1>4 DEF NextReading, Reading
  <2> QED BY <1>1, <1>2, <1>3, <1>4, <2>1 DEF Reading, Packed, DosClockPack
<1>5. CASE ~ (w.time + 1 < ClockDay)
  <2>1. NextReading(w) = [date |-> NextDay(w.date), time |-> 0]
    BY <1>5 DEF NextReading
  <2>2. w.time = ClockDay - 1
    BY <1>1, <1>3, <1>5
  <2>3. (DosClockDays(w.date) + 1) * ClockDay = DosClockDays(w.date) * ClockDay + ClockDay
    BY <1>2, <1>3
  <2>4. NextReading(w) \in Reading
    BY <1>2, <1>3, <2>1 DEF Reading
  <2>5. Packed(NextReading(w)) = (DosClockDays(w.date) + 1) * ClockDay
    BY <1>2, <1>3, <2>1 DEF Packed, DosClockPack
  <2>6. DosClockDays(w.date) * ClockDay \in Int
    BY <1>2, <1>3
  <2> QED BY <1>1, <1>3, <2>2, <2>3, <2>4, <2>5, <2>6
<1> QED
  BY <1>4, <1>5

(* A clock with this offset reads w.                                       *)
Reads(offset, w) == offset \in Int /\ w \in Reading /\ HostPacked + offset = Packed(w)

LEMMA ReadsAs ==
    ASSUME clkHost \in Reading, NEW offset, NEW w, Reads(offset, w)
    PROVE  DosClockRead(offset) = w /\ DosClockUnpack(HostPacked + offset) = w
<1>1. /\ offset \in Int /\ w \in Reading /\ HostPacked + offset = Packed(w)
  BY DEF Reads
<1>2. DosClockUnpack(HostPacked + offset) = w
  BY <1>1, ReadingIs
<1>3. HostPacked = Packed(clkHost) /\ HostPacked \in Int /\ DosClockUnpack(HostPacked) = clkHost
  BY ReadingIs DEF HostPacked, Packed
<1>4. offset = 0 => clkHost = w
  BY <1>1, <1>2, <1>3
<1> QED
  BY <1>2, <1>4 DEF DosClockRead

LEMMA SetsDate ==
    ASSUME clkHost \in Reading, NEW offset, NEW w, Reads(offset, w), NEW date \in Date
    PROVE  Reads(DosClockSetDate(offset, date), [w EXCEPT !.date = date])
<1> DEFINE v == [w EXCEPT !.date = date]
<1>1. DosClockUnpack(HostPacked + offset) = w /\ w \in Reading
  BY ReadsAs DEF Reads
<1>2. v \in Reading /\ v.date = date /\ v.time = w.time
  BY <1>1 DEF Reading
<1>3. DosClockSetDate(offset, date) = Packed(v) - HostPacked
  BY <1>1, <1>2 DEF DosClockSetDate, Packed
<1>4. HostPacked \in Int /\ Packed(v) \in Int
  BY <1>2, ReadingIs DEF HostPacked, Packed
<1> HIDE DEF v
<1>5. Reads(DosClockSetDate(offset, date), v)
  BY <1>2, <1>3, <1>4 DEF Reads
<1> QED
  BY <1>5 DEF v

LEMMA SetsTime ==
    ASSUME clkHost \in Reading, NEW offset, NEW w, Reads(offset, w), NEW time \in 0 .. ClockDay - 1
    PROVE  Reads(DosClockSetTime(offset, time), [w EXCEPT !.time = time])
<1> DEFINE v == [w EXCEPT !.time = time]
<1>1. DosClockUnpack(HostPacked + offset) = w /\ w \in Reading
  BY ReadsAs DEF Reads
<1>2. v \in Reading /\ v.date = w.date /\ v.time = time
  BY <1>1 DEF Reading
<1>3. DosClockSetTime(offset, time) = Packed(v) - HostPacked
  BY <1>1, <1>2 DEF DosClockSetTime, Packed
<1>4. HostPacked \in Int /\ Packed(v) \in Int
  BY <1>2, ReadingIs DEF HostPacked, Packed
<1> HIDE DEF v
<1>5. Reads(DosClockSetTime(offset, time), v)
  BY <1>2, <1>3, <1>4 DEF Reads
<1> QED
  BY <1>5 DEF v

(* What a guest may hand over as a date and time of day.                   *)
Given == [date : Int \X Int \X Int, time : Nat]

LEMMA RealDates ==
    ASSUME NEW date \in Int \X Int \X Int, DosClockIsRealDate(date)
    PROVE  date \in Date
  BY DEF DosClockIsRealDate, Date

LEMMA HostRtcSets ==
    ASSUME clkHost \in Reading, NEW offset, NEW w, Reads(offset, w),
           NEW given \in Given, NEW isDate \in BOOLEAN
    PROVE  Reads(HostRtcSet(offset, given, isDate), WantRtc(w, given, isDate))
<1>1. given.date \in Int \X Int \X Int /\ given.time \in Nat /\ ClockDay \in Nat \ {0}
  BY ClockAssumption DEF Given
<1>2. CASE isDate
  <2>1. CASE DosClockIsRealDate(given.date)
    <3>1. Reads(DosClockSetDate(offset, given.date), [w EXCEPT !.date = given.date])
      BY <1>1, <2>1, RealDates, SetsDate
    <3> QED BY <1>2, <2>1, <3>1 DEF HostRtcSet, WantRtc
  <2> QED BY <1>2, <2>1 DEF HostRtcSet, WantRtc
<1>3. CASE ~ isDate
  <2>1. CASE DosClockIsTimeValid(given.time)
    <3>1. given.time \in 0 .. ClockDay - 1
      BY <1>1, <2>1 DEF DosClockIsTimeValid
    <3>2. Reads(DosClockSetTime(offset, given.time), [w EXCEPT !.time = given.time])
      BY <3>1, SetsTime
    <3> QED BY <1>3, <2>1, <3>2 DEF HostRtcSet, WantRtc
  <2> QED BY <1>3, <2>1 DEF HostRtcSet, WantRtc
<1> QED
  BY <1>2, <1>3

-----------------------------------------------------------------------------
(* The guest's clocks.                                                     *)
Ticks  == [count : 0 .. TicksPerDay - 1, witness : 0 .. TicksPerDay - 1, foreign : BOOLEAN,
           wraps : Nat, since : Nat]
StoreStates == [date : Date, isNearMidnight : BOOLEAN]

ClocksTyped ==
    /\ clkHost \in Reading /\ clkWant \in [{"dos", "rtc"} -> Reading]
    /\ clkSet \in [held : BOOLEAN, shadow : Given]
    /\ clkTicks \in Ticks /\ clkSpent \in [time : Nat, ops : Nat] /\ clkStore \in StoreStates

(* DOS's clock when the tick began in which the store was made, as far as   *)
(* the count tells, and the midnight before it.                            *)
TickOfStore == Packed(clkWant["dos"]) - TakenSince * TickUnits - (clkSpent.time % TickUnits)
DayOfStore == (DosClockDays(clkStore.date) - TakenWraps) * ClockDay

StoreInv ==
    IsTickTaken /\ ~ clkStore.isNearMidnight =>
        DayOfStore < TickOfStore /\ TickOfStore + TickUnits < DayOfStore + ClockDay

ClkInv ==
    /\ ClocksTyped
    /\ Reads(clkRtc, clkWant["rtc"])
    /\ Reads(clkDos, clkWant["dos"])
    /\ StoreInv

LEMMA TicksFit ==
    /\ TickUnits \in Nat \ {0} /\ ClockDay \in Nat \ {0} /\ TicksPerDay \in Nat \ {0}
    /\ TicksPerDay * TickUnits = ClockDay
    /\ \A count \in 0 .. TicksPerDay - 1 : count * TickUnits \in 0 .. ClockDay - 1
    /\ \A time \in 0 .. ClockDay - 1 : time \div TickUnits \in 0 .. TicksPerDay - 1
<1>1. TickUnits \in Nat \ {0} /\ ClockDay \in Nat \ {0} /\ ClockDay % TickUnits = 0
  BY ClockAssumption
<1>2. TicksPerDay \in Nat
  BY <1>1 DEF TicksPerDay
<1>3. ClockDay = TickUnits * TicksPerDay
  BY <1>1 DEF TicksPerDay
<1>4. TicksPerDay \in Nat \ {0} /\ TicksPerDay * TickUnits = ClockDay
  BY <1>1, <1>2, <1>3
<1>5. ASSUME NEW count \in 0 .. TicksPerDay - 1
      PROVE  count * TickUnits \in 0 .. ClockDay - 1
  <2>1. count * TickUnits \in Nat
    BY <1>1, <1>2
  <2>2. (TicksPerDay - count) * TickUnits >= 1
    BY <1>1, <1>2
  <2>3. (TicksPerDay - count) * TickUnits = TicksPerDay * TickUnits - count * TickUnits
    BY <1>1, <1>2
  <2> QED BY <1>1, <1>4, <2>1, <2>2, <2>3
<1>6. ASSUME NEW time \in 0 .. ClockDay - 1
      PROVE  time \div TickUnits \in 0 .. TicksPerDay - 1
  <2> DEFINE q == time \div TickUnits
  <2>1. q \in Nat /\ TickUnits * q <= time
    BY <1>1
  <2> HIDE DEF q
  <2>2. q >= TicksPerDay => TickUnits * q >= TickUnits * TicksPerDay
    BY <1>1, <1>2, <2>1
  <2>3. q < TicksPerDay
    BY <1>1, <1>2, <1>3, <2>1, <2>2
  <2>4. q \in 0 .. TicksPerDay - 1
    BY <1>2, <2>1, <2>3
  <2> QED BY <2>4 DEF q
<1> QED
  BY <1>1, <1>4, <1>5, <1>6

(* DOS's clock after it took over a count: on the day that the division     *)
(* finds, moved on by the midnights, at the count's time.                  *)
LEMMA FollowIs ==
    ASSUME clkHost \in Reading, NEW w, Reads(clkDos, w), NEW store \in StoreStates,
           NEW count \in 0 .. TicksPerDay - 1, TakenWraps \in Nat, TakenSince \in Nat,
           ~ store.isNearMidnight =>
              (Packed(w) - TakenSince * TickUnits) \div ClockDay
                  = DosClockDays(store.date) - TakenWraps
    PROVE  LET offset == DosClockFollowTicks(count, TakenWraps, TakenSince)
           IN  Reads(offset, FollowedWant(store, count, offset))
<1> DEFINE offset == DosClockFollowTicks(count, TakenWraps, TakenSince)
           n == Packed(w) - TakenSince * TickUnits
           day == n \div ClockDay
           m == n % ClockDay
           t == count * TickUnits
           v == FollowedWant(store, count, offset)
<1>1. HostPacked + clkDos = Packed(w) /\ clkDos \in Int /\ Packed(w) \in Int /\ HostPacked \in Int
  BY ReadingIs DEF Reads, HostPacked, Packed
<1>2. n \in Int /\ ClockDay \in Nat \ {0} /\ t \in Int /\ 0 <= t /\ t < ClockDay
  BY <1>1, TicksFit
<1>3. day \in Int /\ m \in Int /\ n = day * ClockDay + m
  <2> HIDE DEF n
  <2> QED BY <1>2, DivParts
<1>4. offset = n - m + TakenWraps * ClockDay + t - HostPacked
  <2> DEFINE a == HostPacked + clkDos - TakenSince * TickUnits
  <2>1. a = n
    BY <1>1, TicksFit
  <2>2. offset = a - (a % ClockDay) + TakenWraps * ClockDay + t - HostPacked
    BY DEF DosClockFollowTicks
  <2> HIDE DEF a, offset, t, n
  <2> QED BY <2>1, <2>2
<1> HIDE DEF n, day, m, t
<1>5. (day + TakenWraps) * ClockDay = day * ClockDay + TakenWraps * ClockDay
  BY <1>2, <1>3
<1>6. /\ day * ClockDay \in Int /\ TakenWraps * ClockDay \in Int
  BY <1>2, <1>3
<1> HIDE DEF offset
<1>7. offset \in Int /\ HostPacked + offset = (day + TakenWraps) * ClockDay + t
  BY <1>1, <1>2, <1>3, <1>4, <1>5, <1>6
<1>8. /\ (HostPacked + offset) \div ClockDay = day + TakenWraps
      /\ (HostPacked + offset) % ClockDay = t
  <2> DEFINE x == HostPacked + offset
             k == day + TakenWraps
  <2>1. x = k * ClockDay + t
    BY <1>7
  <2>2. k \in Int
    BY <1>3
  <2> HIDE DEF x, k
  <2>3. (k * ClockDay + t) \div ClockDay = k /\ (k * ClockDay + t) % ClockDay = t
    BY <1>2, <2>2, DivOfSum
  <2>4. x \div ClockDay = k /\ x % ClockDay = t
    BY <2>1, <2>3
  <2> QED BY <2>4 DEF x, k
<1>9. DosClockUnpack(HostPacked + offset) \in Reading
      /\ Packed(DosClockUnpack(HostPacked + offset)) = HostPacked + offset
      /\ DosClockUnpack(HostPacked + offset)
             = [date |-> DosClockUnpackDays(day + TakenWraps), time |-> t]
  <2>1. HostPacked + offset \in Int
    BY <1>1, <1>7
  <2>2. DosClockUnpack(HostPacked + offset)
           = [date |-> DosClockUnpackDays(day + TakenWraps), time |-> t]
    BY <1>8 DEF DosClockUnpack
  <2> QED BY <2>1, <2>2, UnpackedIs
<1>10. v = DosClockUnpack(HostPacked + offset)
  <2>1. v.time = t /\ DOMAIN v = {"time", "date"}
    BY DEF FollowedWant, t
  <2>2. CASE store.isNearMidnight
    BY <1>9, <2>2 DEF FollowedWant, t
  <2>3. CASE ~ store.isNearMidnight
    <3>1. store.date \in Date
      BY DEF StoreStates
    <3>2. DosClockDays(store.date) = day + TakenWraps
      <4>1. DosClockDays(store.date) \in Int
        BY <3>1, DateOfDays
      <4>2. day = DosClockDays(store.date) - TakenWraps
        BY <2>3 DEF day, n
      <4> QED BY <1>3, <4>1, <4>2
    <3>3. DosClockUnpackDays(day + TakenWraps) = store.date
      BY <3>1, <3>2, DateOfDays
    <3> QED BY <1>9, <2>3, <3>3 DEF FollowedWant, t
  <2> QED BY <2>2, <2>3
<1> HIDE DEF v
<1>11. Reads(offset, v)
  BY <1>7, <1>9, <1>10 DEF Reads
<1> QED
  BY <1>11 DEF offset, v

(* The day of the store, by the division.                                  *)
LEMMA StoreDay ==
    ASSUME ClkInv, IsTickTaken, ~ clkStore.isNearMidnight
    PROVE  (Packed(clkWant["dos"]) - TakenSince * TickUnits) \div ClockDay
              = DosClockDays(clkStore.date) - TakenWraps
<1> DEFINE n == Packed(clkWant["dos"]) - TakenSince * TickUnits
           day == DosClockDays(clkStore.date) - TakenWraps
           phase == clkSpent.time % TickUnits
<1>1. TickUnits \in Nat \ {0} /\ ClockDay \in Nat \ {0}
  BY TicksFit
<1>2. clkSpent.time \in Nat /\ TakenSince \in Nat /\ TakenWraps \in Nat
      /\ clkStore.date \in Date /\ clkWant["dos"] \in Reading
  BY DEF ClkInv, ClocksTyped, Ticks, StoreStates, TakenSince, TakenWraps
<1>3. phase \in Int /\ 0 <= phase /\ phase < TickUnits
  BY <1>1, <1>2
<1>4. n \in Int /\ day \in Int
  BY <1>1, <1>2, ReadingIs, DateOfDays
<1>5. day * ClockDay < n - phase /\ n - phase + TickUnits < day * ClockDay + ClockDay
  BY DEF ClkInv, StoreInv, TickOfStore, DayOfStore
<1> HIDE DEF n, day, phase
<1>6. day * ClockDay \in Int
  BY <1>1, <1>4
<1> DEFINE r == n - day * ClockDay
<1>7. r \in Int /\ 0 <= r /\ r < ClockDay /\ n = day * ClockDay + r
  BY <1>1, <1>3, <1>4, <1>5, <1>6
<1> HIDE DEF r
<1>8. n \div ClockDay = day
  BY <1>4, <1>7, DivOfSum
<1> QED
  BY <1>8 DEF n, day

LEMMA SyncIs ==
    ASSUME ClkInv
    PROVE  /\ Reads(SyncedOffset, SyncedWant)
           /\ SyncedTicks \in Ticks /\ ~ SyncedTicks.foreign /\ SyncedTicks.count = SyncedTicks.witness
<1>1. clkTicks \in Ticks /\ clkStore \in StoreStates /\ clkHost \in Reading
      /\ Reads(clkDos, clkWant["dos"])
  BY DEF ClkInv, ClocksTyped
<1>2. TakenWraps \in Nat /\ TakenSince \in Nat /\ clkTicks.count \in 0 .. TicksPerDay - 1
  BY <1>1 DEF Ticks, TakenWraps, TakenSince
<1>3. SyncedTicks \in Ticks /\ ~ SyncedTicks.foreign /\ SyncedTicks.count = SyncedTicks.witness
  BY <1>1, <1>2 DEF SyncedTicks, IsTickTaken, VddPitTickOwned, Ticks
<1>4. CASE IsTickTaken
  <2>1. Reads(DosClockFollowTicks(clkTicks.count, TakenWraps, TakenSince),
              FollowedWant(clkStore, clkTicks.count,
                           DosClockFollowTicks(clkTicks.count, TakenWraps, TakenSince)))
    BY <1>1, <1>2, <1>4, StoreDay, FollowIs
  <2> QED BY <1>3, <1>4, <2>1 DEF SyncedOffset, SyncedWant
<1>5. CASE ~ IsTickTaken
  BY <1>1, <1>3, <1>5 DEF SyncedOffset, SyncedWant
<1> QED
  BY <1>4, <1>5

(* A clock unit within a tick, and the one that ends it.                   *)
LEMMA PhaseMoves ==
    ASSUME NEW x \in Nat
    PROVE  /\ x % TickUnits \in 0 .. TickUnits - 1
           /\ (x + 1) % TickUnits = IF (x % TickUnits) + 1 = TickUnits THEN 0 ELSE (x % TickUnits) + 1
<1> DEFINE q == x \div TickUnits
           p == x % TickUnits
<1>1. TickUnits \in Nat \ {0}
  BY TicksFit
<1>2. q \in Nat /\ p \in 0 .. TickUnits - 1
  BY <1>1
<1>3. x = TickUnits * q + p
  BY <1>1
<1> HIDE DEF q, p
<1>4. CASE p + 1 # TickUnits
  <2>1. p + 1 \in 0 .. TickUnits - 1 /\ x + 1 = TickUnits * q + (p + 1)
    BY <1>1, <1>2, <1>3, <1>4
  <2> DEFINE m == p + 1
  <2> HIDE DEF m
  <2>2. m \in 0 .. TickUnits - 1 /\ x + 1 = TickUnits * q + m /\ x + 1 \in Nat
    BY <2>1 DEF m
  <2>3. (x + 1) % TickUnits = m
    BY <1>1, <1>2, <2>2, DivUnique
  <2> QED BY <1>2, <1>4, <2>3 DEF p, m
<1>5. CASE p + 1 = TickUnits
  <2>1. x + 1 = TickUnits * (q + 1) + 0 /\ 0 \in 0 .. TickUnits - 1 /\ q + 1 \in Nat
    <3>1. TickUnits * (q + 1) = TickUnits * q + TickUnits
      BY <1>1, <1>2
    <3>2. TickUnits * q \in Int
      BY <1>1, <1>2
    <3> QED BY <1>1, <1>2, <1>3, <1>5, <3>1, <3>2
  <2>2. (x + 1) % TickUnits = 0
    BY <1>1, <2>1, DivUnique
  <2> QED BY <1>2, <1>5, <2>2 DEF p
<1> QED
  BY <1>4, <1>5

LEMMA ReadsOn ==
    ASSUME clkHost \in Reading, clkHost' = NextReading(clkHost), NEW offset, NEW w, Reads(offset, w)
    PROVE  HostPacked' + offset = Packed(NextReading(w)) /\ NextReading(w) \in Reading
<1>1. /\ w \in Reading /\ offset \in Int /\ HostPacked + offset = Packed(w)
  BY DEF Reads
<1>2. HostPacked = Packed(clkHost) /\ HostPacked' = Packed(clkHost')
  BY DEF HostPacked, Packed, DosClockPack
<1>3. HostPacked \in Int /\ HostPacked' = HostPacked + 1
  BY <1>2, NextReadingCounts, ReadingIs
<1>4. NextReading(w) \in Reading /\ Packed(NextReading(w)) = Packed(w) + 1
  BY <1>1, NextReadingCounts
<1> QED
  BY <1>1, <1>3, <1>4

LEMMA AdvancesKeep ==
    ASSUME ClkInv, ClockAdvances
    PROVE  ClkInv'
<1>1. /\ clkHost \in Reading /\ clkWant \in [{"dos", "rtc"} -> Reading]
      /\ clkSet \in [held : BOOLEAN, shadow : Given]
      /\ clkTicks \in Ticks /\ clkSpent \in [time : Nat, ops : Nat] /\ clkStore \in StoreStates
      /\ Reads(clkRtc, clkWant["rtc"]) /\ Reads(clkDos, clkWant["dos"])
  BY DEF ClkInv, ClocksTyped
<1>2. /\ clkSpent' = [clkSpent EXCEPT !.time = @ + 1] /\ clkHost' = NextReading(clkHost)
      /\ clkWant' = [c \in {"dos", "rtc"} |-> NextReading(clkWant[c])]
      /\ clkDos' = clkDos /\ clkRtc' = clkRtc /\ clkSet' = clkSet
  BY DEF ClockAdvances
<1>3. /\ clkWant'["dos"] = NextReading(clkWant["dos"]) /\ clkWant'["rtc"] = NextReading(clkWant["rtc"])
      /\ clkHost' \in Reading /\ clkWant' \in [{"dos", "rtc"} -> Reading]
      /\ clkSpent' \in [time : Nat, ops : Nat] /\ clkSpent'.time = clkSpent.time + 1
  BY <1>1, <1>2, NextReadingCounts
<1>4. Reads(clkRtc, clkWant["rtc"])' /\ Reads(clkDos, clkWant["dos"])'
  <2>1. HostPacked' + clkRtc = Packed(NextReading(clkWant["rtc"]))
    BY <1>1, <1>2, ReadsOn
  <2>2. HostPacked' + clkDos = Packed(NextReading(clkWant["dos"]))
    BY <1>1, <1>2, ReadsOn
  <2>3. clkRtc \in Int /\ clkDos \in Int /\ clkWant'["rtc"] \in Reading /\ clkWant'["dos"] \in Reading
    BY <1>1, <1>3 DEF Reads
  <2> QED BY <1>2, <1>3, <2>1, <2>2, <2>3 DEF Reads, Packed, DosClockPack
<1>5. Packed(clkWant'["dos"]) = Packed(clkWant["dos"]) + 1 /\ Packed(clkWant["dos"]) \in Int
  BY <1>1, <1>3, NextReadingCounts, ReadingIs
<1>6. TickUnits \in Nat \ {0} /\ ClockDay \in Nat \ {0} /\ TicksPerDay \in Nat \ {0}
  BY TicksFit
<1>7. TakenSince \in Nat /\ TakenWraps \in Nat /\ clkSpent.time \in Nat
  BY <1>1 DEF TakenSince, TakenWraps, Ticks
<1>8. CASE (clkSpent.time + 1) % TickUnits # 0
  <2>1. UNCHANGED <<clkTicks, clkStore>>
    BY <1>3, <1>8 DEF ClockAdvances
  <2>2. (clkSpent.time + 1) % TickUnits = (clkSpent.time % TickUnits) + 1
    BY <1>7, <1>8, PhaseMoves
  <2>3. TakenSince' = TakenSince /\ TakenWraps' = TakenWraps /\ IsTickTaken' = IsTickTaken
    BY <2>1 DEF TakenSince, TakenWraps, IsTickTaken
  <2>4. TickOfStore' = TickOfStore
    <3>1. TickOfStore' = (Packed(clkWant["dos"]) + 1) - TakenSince * TickUnits
                            - ((clkSpent.time + 1) % TickUnits)
      BY <1>3, <1>5, <2>3 DEF TickOfStore, Packed, DosClockPack
    <3>2. TakenSince * TickUnits \in Int /\ clkSpent.time % TickUnits \in Int
      BY <1>6, <1>7
    <3> QED BY <1>5, <2>2, <3>1, <3>2 DEF TickOfStore
  <2>5. DayOfStore' = DayOfStore
    BY <2>1, <2>3 DEF DayOfStore
  <2>6. StoreInv'
    BY <2>1, <2>3, <2>4, <2>5 DEF ClkInv, StoreInv
  <2> QED BY <1>1, <1>2, <1>3, <1>4, <2>1, <2>6 DEF ClkInv, ClocksTyped
<1>9. CASE (clkSpent.time + 1) % TickUnits = 0
  <2>1. /\ clkTicks' = VddPitBiosTick(clkTicks)
        /\ clkStore' = IF IsTickTaken /\ clkTicks.count = TicksPerDay - 1
                       THEN [clkStore EXCEPT !.date = NextDay(@)] ELSE clkStore
    BY <1>3, <1>9 DEF ClockAdvances
  <2> DEFINE wraps == IF clkTicks.count = TicksPerDay - 1 THEN 1 ELSE 0
  <2>2. /\ clkTicks.count \in 0 .. TicksPerDay - 1 /\ clkTicks.foreign \in BOOLEAN
        /\ clkTicks.wraps \in Nat /\ clkTicks.since \in Nat
    BY <1>1 DEF Ticks
  <2>3. clkTicks.count + 1 >= TicksPerDay <=> clkTicks.count = TicksPerDay - 1
    BY <1>6, <2>2
  <2>4. /\ clkTicks'.foreign = IsTickTaken /\ clkTicks'.count = clkTicks'.witness
        /\ IsTickTaken => clkTicks'.wraps = TakenWraps + wraps /\ clkTicks'.since = TakenSince + 1
    BY <1>7, <2>1, <2>2, <2>3 DEF VddPitBiosTick, IsTickTaken, TakenWraps, TakenSince
  <2>5. clkTicks' \in Ticks
    BY <1>6, <2>1, <2>2, <2>3 DEF VddPitBiosTick, Ticks
  <2>6. /\ clkStore' \in StoreStates /\ clkStore'.isNearMidnight = clkStore.isNearMidnight
        /\ IsTickTaken => DosClockDays(clkStore'.date) = DosClockDays(clkStore.date) + wraps
    <3>1. clkStore.date \in Date /\ DosClockDays(clkStore.date) \in Int
      BY <1>1, DateOfDays DEF StoreStates
    <3>2. NextDay(clkStore.date) \in Date
          /\ DosClockDays(NextDay(clkStore.date)) = DosClockDays(clkStore.date) + 1
      BY <3>1, NextDayCounts
    <3>3. CASE IsTickTaken /\ clkTicks.count = TicksPerDay - 1
      BY <1>1, <2>1, <3>1, <3>2, <3>3 DEF StoreStates
    <3>4. CASE ~ (IsTickTaken /\ clkTicks.count = TicksPerDay - 1)
      BY <1>1, <2>1, <3>1, <3>4
    <3> QED BY <3>3, <3>4
  <2>7. IsTickTaken' = IsTickTaken
    BY <2>4 DEF IsTickTaken
  <2>8. ASSUME IsTickTaken
        PROVE  TickOfStore' = TickOfStore /\ DayOfStore' = DayOfStore
    <3>1. TakenWraps' = TakenWraps + wraps /\ TakenSince' = TakenSince + 1
      BY <2>4, <2>8 DEF TakenWraps, TakenSince
    <3>2. clkSpent.time % TickUnits = TickUnits - 1
      <4> DEFINE p == clkSpent.time % TickUnits
      <4>1. p \in 0 .. TickUnits - 1
            /\ (clkSpent.time + 1) % TickUnits = IF p + 1 = TickUnits THEN 0 ELSE p + 1
        BY <1>7, PhaseMoves
      <4> HIDE DEF p
      <4>2. p = TickUnits - 1
        BY <1>6, <1>9, <4>1
      <4> QED BY <4>2 DEF p
    <3>3. TickOfStore' = (Packed(clkWant["dos"]) + 1) - (TakenSince + 1) * TickUnits - 0
      BY <1>3, <1>5, <1>9, <3>1 DEF TickOfStore, Packed, DosClockPack
    <3>4. (TakenSince + 1) * TickUnits = TakenSince * TickUnits + TickUnits
          /\ TakenSince * TickUnits \in Int
      BY <1>6, <1>7
    <3>5. TickOfStore' = TickOfStore
      BY <1>5, <1>6, <3>2, <3>3, <3>4 DEF TickOfStore
    <3>6. DosClockDays(clkStore.date) \in Int
      BY <1>1, DateOfDays DEF StoreStates
    <3>7. DosClockDays(clkStore'.date) - TakenWraps' = DosClockDays(clkStore.date) - TakenWraps
      <4>1. wraps \in Int
        OBVIOUS
      <4> HIDE DEF wraps
      <4> QED BY <1>7, <2>6, <2>8, <3>1, <3>6, <4>1
    <3> QED BY <3>5, <3>7 DEF DayOfStore
  <2>9. StoreInv'
    BY <2>6, <2>7, <2>8 DEF ClkInv, StoreInv
  <2> QED BY <1>1, <1>2, <1>3, <1>4, <2>5, <2>6, <2>9 DEF ClkInv, ClocksTyped
<1> QED
  BY <1>8, <1>9

(* A call of the guest moves no host time: it leaves the clocks right if    *)
(* what it sets is.                                                        *)
LEMMA CallKeeps ==
    ASSUME ClkInv, clkHost' = clkHost, clkSpent' \in [time : Nat, ops : Nat],
           clkSpent'.time = clkSpent.time,
           clkSet' \in [held : BOOLEAN, shadow : Given],
           clkWant' \in [{"dos", "rtc"} -> Reading],
           clkTicks' \in Ticks, clkStore' \in StoreStates,
           Reads(clkRtc', clkWant'["rtc"]), Reads(clkDos', clkWant'["dos"]),
           StoreInv'
    PROVE  ClkInv'
<1>1. clkHost' \in Reading
  BY DEF ClkInv, ClocksTyped
<1>2. ClocksTyped'
  BY <1>1 DEF ClocksTyped
<1>3. Reads(clkRtc, clkWant["rtc"])' /\ Reads(clkDos, clkWant["dos"])'
  BY DEF Reads, HostPacked
<1> QED
  BY <1>2, <1>3 DEF ClkInv

(* What a call leaves alone, when it touches the real-time clock only.     *)
LEMMA RtcCallKeeps ==
    ASSUME ClkInv, UNCHANGED <<clkHost, clkDos, clkTicks, clkStore>>,
           clkSpent' \in [time : Nat, ops : Nat], clkSpent'.time = clkSpent.time,
           clkSet' \in [held : BOOLEAN, shadow : Given],
           NEW w, clkWant' = [clkWant EXCEPT !["rtc"] = w], Reads(clkRtc', w)
    PROVE  ClkInv'
<1>1. /\ clkWant \in [{"dos", "rtc"} -> Reading] /\ clkTicks \in Ticks /\ clkStore \in StoreStates
      /\ Reads(clkDos, clkWant["dos"]) /\ w \in Reading
  BY DEF ClkInv, ClocksTyped, Reads
<1>2. clkWant' \in [{"dos", "rtc"} -> Reading] /\ clkWant'["rtc"] = w /\ clkWant'["dos"] = clkWant["dos"]
  BY <1>1
<1>3. StoreInv'
  BY <1>2 DEF ClkInv, StoreInv, IsTickTaken, TickOfStore, DayOfStore, TakenSince, TakenWraps,
              Packed, DosClockPack
<1> QED
  BY <1>1, <1>2, <1>3, CallKeeps

LEMMA CallCounts ==
    ASSUME ClkInv, ClockCall
    PROVE  clkSpent' \in [time : Nat, ops : Nat] /\ clkSpent'.time = clkSpent.time
  BY DEF ClkInv, ClocksTyped, ClockCall

LEMMA GetKeeps ==
    ASSUME ClkInv, DosGetClock
    PROVE  ClkInv'
<1>1. /\ ClockCall /\ clkDos' = SyncedOffset /\ clkTicks' = SyncedTicks
      /\ clkWant' = [clkWant EXCEPT !["dos"] = SyncedWant]
      /\ UNCHANGED <<clkHost, clkRtc, clkSet, clkStore>>
  BY DEF DosGetClock
<1>2. /\ clkWant \in [{"dos", "rtc"} -> Reading] /\ clkSet \in [held : BOOLEAN, shadow : Given]
      /\ clkStore \in StoreStates /\ Reads(clkRtc, clkWant["rtc"])
  BY DEF ClkInv, ClocksTyped
<1>3. /\ Reads(SyncedOffset, SyncedWant) /\ SyncedTicks \in Ticks
      /\ ~ SyncedTicks.foreign /\ SyncedTicks.count = SyncedTicks.witness
  BY SyncIs
<1>4. /\ clkWant' \in [{"dos", "rtc"} -> Reading]
      /\ clkWant'["rtc"] = clkWant["rtc"] /\ clkWant'["dos"] = SyncedWant
  BY <1>1, <1>2, <1>3 DEF Reads
<1>5. StoreInv'
  BY <1>1, <1>3 DEF StoreInv, IsTickTaken
<1> QED
  BY <1>1, <1>2, <1>3, <1>4, <1>5, CallCounts, CallKeeps

LEMMA GivenDates ==
    ASSUME NEW date \in ClockDates
    PROVE  /\ date \in Int \X Int \X Int
           /\ DosClockIsDosDateValid(date) => date \in Date
<1>1. date \in Int \X Int \X Int
  BY ClockInputs
<1> QED
  BY <1>1, RealDates DEF DosClockIsDosDateValid

LEMMA SetDateKeeps ==
    ASSUME ClkInv, DosSetDate
    PROVE  ClkInv'
<1>1. PICK date \in ClockDates :
          IF DosClockIsDosDateValid(date)
          THEN /\ clkDos' = DosClockSetDate(SyncedOffset, date) /\ clkRtc' = clkDos'
               /\ clkWant' = [c \in {"dos", "rtc"} |-> [SyncedWant EXCEPT !.date = date]]
          ELSE /\ clkDos' = SyncedOffset /\ UNCHANGED clkRtc
               /\ clkWant' = [clkWant EXCEPT !["dos"] = SyncedWant]
  BY DEF DosSetDate
<1>2. ClockCall /\ clkTicks' = SyncedTicks /\ UNCHANGED <<clkHost, clkSet, clkStore>>
  BY DEF DosSetDate
<1>3. /\ clkWant \in [{"dos", "rtc"} -> Reading] /\ clkSet \in [held : BOOLEAN, shadow : Given]
      /\ clkStore \in StoreStates /\ clkHost \in Reading /\ Reads(clkRtc, clkWant["rtc"])
  BY DEF ClkInv, ClocksTyped
<1>4. /\ Reads(SyncedOffset, SyncedWant) /\ SyncedTicks \in Ticks
      /\ ~ SyncedTicks.foreign /\ SyncedTicks.count = SyncedTicks.witness
  BY SyncIs
<1>5. StoreInv'
  BY <1>2, <1>4 DEF StoreInv, IsTickTaken
<1>6. /\ clkWant' \in [{"dos", "rtc"} -> Reading]
      /\ Reads(clkRtc', clkWant'["rtc"]) /\ Reads(clkDos', clkWant'["dos"])
  <2>1. CASE DosClockIsDosDateValid(date)
    <3>1. Reads(DosClockSetDate(SyncedOffset, date), [SyncedWant EXCEPT !.date = date])
      BY <1>3, <1>4, <2>1, GivenDates, SetsDate
    <3>2. [SyncedWant EXCEPT !.date = date] \in Reading
      BY <3>1 DEF Reads
    <3> QED BY <1>1, <2>1, <3>1, <3>2
  <2>2. CASE ~ DosClockIsDosDateValid(date)
    <3>1. SyncedWant \in Reading
      BY <1>4 DEF Reads
    <3> QED BY <1>1, <1>3, <1>4, <2>2, <3>1
  <2> QED BY <2>1, <2>2
<1> QED
  BY <1>2, <1>3, <1>4, <1>5, <1>6, CallCounts, CallKeeps

LEMMA SetTimeKeeps ==
    ASSUME ClkInv, DosSetTime
    PROVE  ClkInv'
<1>1. PICK time \in {0, ClockDay - 1, ClockDay} :
          IF DosClockIsTimeValid(time)
          THEN /\ clkDos' = DosClockSetTime(SyncedOffset, time) /\ clkRtc' = clkDos'
               /\ clkTicks' = VddPitTickOwned(time \div TickUnits)
               /\ clkWant' = [c \in {"dos", "rtc"} |-> [SyncedWant EXCEPT !.time = time]]
          ELSE /\ clkDos' = SyncedOffset /\ clkTicks' = SyncedTicks /\ UNCHANGED clkRtc
               /\ clkWant' = [clkWant EXCEPT !["dos"] = SyncedWant]
  BY DEF DosSetTime
<1>2. ClockCall /\ UNCHANGED <<clkHost, clkSet, clkStore>>
  BY DEF DosSetTime
<1>3. /\ clkWant \in [{"dos", "rtc"} -> Reading] /\ clkSet \in [held : BOOLEAN, shadow : Given]
      /\ clkStore \in StoreStates /\ clkHost \in Reading /\ Reads(clkRtc, clkWant["rtc"])
  BY DEF ClkInv, ClocksTyped
<1>4. /\ Reads(SyncedOffset, SyncedWant) /\ SyncedTicks \in Ticks
      /\ ~ SyncedTicks.foreign /\ SyncedTicks.count = SyncedTicks.witness
  BY SyncIs
<1>5. /\ clkWant' \in [{"dos", "rtc"} -> Reading]
      /\ Reads(clkRtc', clkWant'["rtc"]) /\ Reads(clkDos', clkWant'["dos"])
      /\ clkTicks' \in Ticks /\ ~ clkTicks'.foreign /\ clkTicks'.count = clkTicks'.witness
  <2>1. CASE DosClockIsTimeValid(time)
    <3>1. time \in 0 .. ClockDay - 1
      BY <2>1, TicksFit DEF DosClockIsTimeValid
    <3>2. Reads(DosClockSetTime(SyncedOffset, time), [SyncedWant EXCEPT !.time = time])
      BY <1>3, <1>4, <3>1, SetsTime
    <3>3. [SyncedWant EXCEPT !.time = time] \in Reading
      BY <3>2 DEF Reads
    <3>4. time \div TickUnits \in 0 .. TicksPerDay - 1
      BY <3>1, TicksFit
    <3>5. /\ VddPitTickOwned(time \div TickUnits) \in Ticks
          /\ ~ VddPitTickOwned(time \div TickUnits).foreign
          /\ VddPitTickOwned(time \div TickUnits).count = VddPitTickOwned(time \div TickUnits).witness
      BY <3>4 DEF VddPitTickOwned, Ticks
    <3> QED BY <1>1, <2>1, <3>2, <3>3, <3>5
  <2>2. CASE ~ DosClockIsTimeValid(time)
    <3>1. SyncedWant \in Reading
      BY <1>4 DEF Reads
    <3> QED BY <1>1, <1>3, <1>4, <2>2, <3>1
  <2> QED BY <2>1, <2>2
<1>6. StoreInv'
  BY <1>5 DEF StoreInv, IsTickTaken
<1> QED
  BY <1>2, <1>3, <1>5, <1>6, CallCounts, CallKeeps

(* A store makes its own day known.                                        *)
LEMMA FirstStoreIs ==
    ASSUME ClkInv
    PROVE  /\ FirstStore \in StoreStates
           /\ ~ IsTickTaken /\ ~ FirstStore.isNearMidnight =>
                 /\ FirstStore.date = clkWant["dos"].date
                 /\ TickUnits <= clkWant["dos"].time /\ clkWant["dos"].time < ClockDay - TickUnits
<1>1. clkHost \in Reading /\ clkStore \in StoreStates /\ clkWant["dos"] \in Reading
      /\ DosClockRead(clkDos) = clkWant["dos"]
  BY ReadsAs DEF ClkInv, ClocksTyped
<1>2. /\ clkWant["dos"].date \in Date /\ clkWant["dos"].time \in Int
      /\ TickUnits \in Nat /\ ClockDay \in Nat
  BY <1>1, ReadingIs, TicksFit
<1>3. CASE IsTickTaken
  BY <1>1, <1>3 DEF FirstStore
<1>4. CASE ~ IsTickTaken
  <2>1. FirstStore = [date |-> clkWant["dos"].date,
                      isNearMidnight |-> \/ clkWant["dos"].time < TickUnits
                                         \/ clkWant["dos"].time >= ClockDay - TickUnits]
    BY <1>1, <1>4 DEF FirstStore
  <2>2. FirstStore \in StoreStates
    BY <1>2, <2>1 DEF StoreStates
  <2> QED
    BY <1>2, <2>1, <2>2
<1> QED
  BY <1>3, <1>4

LEMMA TickStoreKeeps ==
    ASSUME ClkInv, StoreTicks
    PROVE  ClkInv'
<1>1. PICK count \in {0, TicksPerDay - 1} : clkTicks' = [clkTicks EXCEPT !.count = count]
  BY DEF StoreTicks
<1>2. ClockCall /\ clkStore' = FirstStore /\ UNCHANGED <<clkHost, clkDos, clkRtc, clkSet, clkWant>>
  BY DEF StoreTicks
<1>3. /\ clkWant \in [{"dos", "rtc"} -> Reading] /\ clkSet \in [held : BOOLEAN, shadow : Given]
      /\ clkTicks \in Ticks /\ clkSpent.time \in Nat
      /\ Reads(clkRtc, clkWant["rtc"]) /\ Reads(clkDos, clkWant["dos"])
  BY DEF ClkInv, ClocksTyped
<1>4. count \in 0 .. TicksPerDay - 1
  BY TicksFit
<1>5. clkTicks' \in Ticks /\ TakenWraps' = TakenWraps /\ TakenSince' = TakenSince
      /\ clkTicks'.foreign = clkTicks.foreign
  BY <1>1, <1>3, <1>4 DEF Ticks, TakenWraps, TakenSince
<1>6. FirstStore \in StoreStates
  BY FirstStoreIs
<1>7. clkSpent' \in [time : Nat, ops : Nat] /\ clkSpent'.time = clkSpent.time
  BY <1>2, CallCounts
<1>8. StoreInv'
  <2>1. CASE IsTickTaken
    <3>1. clkStore' = clkStore
      BY <1>2, <2>1 DEF FirstStore
    <3>2. TickOfStore' = TickOfStore /\ DayOfStore' = DayOfStore
      BY <1>2, <1>5, <1>7, <3>1 DEF TickOfStore, DayOfStore, Packed, DosClockPack
    <3> QED BY <2>1, <3>1, <3>2 DEF ClkInv, StoreInv
  <2>2. CASE ~ IsTickTaken
    <3> SUFFICES ASSUME ~ clkStore'.isNearMidnight
                 PROVE  DayOfStore' < TickOfStore' /\ TickOfStore' + TickUnits < DayOfStore' + ClockDay
      BY DEF StoreInv
    <3> DEFINE w == clkWant["dos"]
               phase == clkSpent.time % TickUnits
    <3>1. w \in Reading /\ Packed(w) = DosClockDays(w.date) * ClockDay + w.time /\ w.time \in Int
          /\ w.date \in Date
      BY <1>3, ReadingIs
    <3>2. clkStore'.date = w.date /\ TickUnits <= w.time /\ w.time < ClockDay - TickUnits
      BY <1>2, <2>2, FirstStoreIs
    <3>3. TakenWraps' = 0 /\ TakenSince' = 0
      BY <1>5, <2>2 DEF TakenWraps, TakenSince, IsTickTaken
    <3>4. phase \in 0 .. TickUnits - 1 /\ TickUnits \in Nat \ {0} /\ ClockDay \in Nat \ {0}
      BY <1>3, PhaseMoves, TicksFit
    <3>5. DosClockDays(w.date) \in Int /\ DosClockDays(w.date) * ClockDay \in Int
      BY <3>1, <3>4, DateOfDays
    <3>6. DayOfStore' = DosClockDays(w.date) * ClockDay
      BY <3>2, <3>3, <3>5 DEF DayOfStore
    <3>7. TickOfStore' = Packed(w) - 0 * TickUnits - phase
      BY <1>2, <1>7, <3>3 DEF TickOfStore, Packed, DosClockPack
    <3>8. 0 * TickUnits = 0
      BY <3>4
    <3> HIDE DEF w, phase
    <3> QED BY <3>1, <3>2, <3>4, <3>5, <3>6, <3>7, <3>8
  <2> QED BY <2>1, <2>2
<1> QED
  BY <1>2, <1>3, <1>5, <1>6, <1>7, <1>8, CallKeeps

LEMMA BiosSetTicksKeeps ==
    ASSUME ClkInv, BiosSetTicks
    PROVE  ClkInv'
<1>1. PICK count \in {0, TicksPerDay - 1} :
          /\ clkDos' = DosClockFollowTicks(count, TakenWraps, TakenSince)
          /\ clkTicks' = VddPitTickOwned(count)
          /\ clkWant' = [clkWant EXCEPT !["dos"] = FollowedWant(FirstStore, count, clkDos')]
  BY DEF BiosSetTicks
<1>2. ClockCall /\ UNCHANGED <<clkHost, clkRtc, clkSet, clkStore>>
  BY DEF BiosSetTicks
<1>3. /\ clkWant \in [{"dos", "rtc"} -> Reading] /\ clkSet \in [held : BOOLEAN, shadow : Given]
      /\ clkTicks \in Ticks /\ clkStore \in StoreStates /\ clkHost \in Reading
      /\ Reads(clkRtc, clkWant["rtc"]) /\ Reads(clkDos, clkWant["dos"])
  BY DEF ClkInv, ClocksTyped
<1>4. count \in 0 .. TicksPerDay - 1
  BY TicksFit
<1>5. TakenWraps \in Nat /\ TakenSince \in Nat /\ FirstStore \in StoreStates
  BY <1>3, FirstStoreIs DEF Ticks, TakenWraps, TakenSince
<1>6. ASSUME ~ FirstStore.isNearMidnight
      PROVE  (Packed(clkWant["dos"]) - TakenSince * TickUnits) \div ClockDay
                = DosClockDays(FirstStore.date) - TakenWraps
  <2>1. CASE IsTickTaken
    BY <1>6, <2>1, StoreDay DEF FirstStore
  <2>2. CASE ~ IsTickTaken
    <3> DEFINE w == clkWant["dos"]
    <3>1. /\ w.date \in Date /\ w.time \in Int /\ 0 <= w.time /\ w.time < ClockDay
          /\ Packed(w) = DosClockDays(w.date) * ClockDay + w.time /\ Packed(w) \in Int
      BY <1>3, ReadingIs
    <3>2. TakenWraps = 0 /\ TakenSince = 0 /\ FirstStore.date = w.date
      BY <1>6, <2>2, FirstStoreIs DEF TakenWraps, TakenSince, IsTickTaken
    <3> HIDE DEF w
    <3>3. DosClockDays(w.date) \in Int
      BY <3>1, DateOfDays
    <3>4. Packed(w) \div ClockDay = DosClockDays(w.date)
      BY <3>1, <3>3, DivOfSum
    <3>5. Packed(w) - TakenSince * TickUnits = Packed(w)
      BY <3>1, <3>2, TicksFit
    <3>6. DosClockDays(FirstStore.date) - TakenWraps = DosClockDays(w.date)
      BY <3>2, <3>3
    <3> QED BY <3>4, <3>5, <3>6 DEF w
  <2> QED BY <2>1, <2>2
<1>7. Reads(clkDos', FollowedWant(FirstStore, count, clkDos'))
  <2> DEFINE offset == DosClockFollowTicks(count, TakenWraps, TakenSince)
  <2>1. Reads(offset, FollowedWant(FirstStore, count, offset))
    BY <1>3, <1>4, <1>5, <1>6, FollowIs
  <2> QED BY <1>1, <2>1
<1>8. /\ clkWant' \in [{"dos", "rtc"} -> Reading]
      /\ Reads(clkRtc', clkWant'["rtc"]) /\ Reads(clkDos', clkWant'["dos"])
  <2>1. FollowedWant(FirstStore, count, clkDos') \in Reading
    BY <1>7 DEF Reads
  <2> QED BY <1>1, <1>2, <1>3, <1>7, <2>1
<1>9. clkTicks' \in Ticks /\ ~ clkTicks'.foreign /\ clkTicks'.count = clkTicks'.witness
  BY <1>1, <1>4 DEF VddPitTickOwned, Ticks
<1>10. StoreInv'
  BY <1>9 DEF StoreInv, IsTickTaken
<1> QED
  BY <1>2, <1>3, <1>8, <1>9, <1>10, CallCounts, CallKeeps

LEMMA ReadingGiven ==
    ASSUME NEW w \in Reading
    PROVE  w \in Given
  BY TicksFit DEF Reading, Given, Date

LEMMA BiosSetRtcKeeps ==
    ASSUME ClkInv, BiosSetRtc
    PROVE  ClkInv'
<1>1. PICK date \in ClockDates, time \in {0, ClockDay}, isDate \in BOOLEAN :
          /\ clkRtc' = HostRtcSet(clkRtc, [date |-> date, time |-> time], isDate)
          /\ clkWant' = [clkWant EXCEPT !["rtc"] = WantRtc(@, [date |-> date, time |-> time], isDate)]
  BY DEF BiosSetRtc
<1>2. ClockCall /\ UNCHANGED <<clkHost, clkDos, clkTicks, clkSet, clkStore>>
  BY DEF BiosSetRtc
<1>3. clkHost \in Reading /\ Reads(clkRtc, clkWant["rtc"])
      /\ clkSet \in [held : BOOLEAN, shadow : Given]
      /\ clkWant \in [{"dos", "rtc"} -> Reading]
  BY DEF ClkInv, ClocksTyped
<1>4. [date |-> date, time |-> time] \in Given
  BY GivenDates, TicksFit DEF Given
<1>5. Reads(clkRtc', WantRtc(clkWant["rtc"], [date |-> date, time |-> time], isDate))
  BY <1>1, <1>3, <1>4, HostRtcSets
<1>6. clkWant' = [clkWant EXCEPT !["rtc"] =
                     WantRtc(clkWant["rtc"], [date |-> date, time |-> time], isDate)]
  BY <1>1
<1> QED
  BY <1>2, <1>3, <1>5, <1>6, CallCounts, RtcCallKeeps

(* One field of a reading is changed by the guest.                         *)
LEMMA FieldGiven ==
    ASSUME NEW r \in Given, NEW field \in DOMAIN FieldValues, NEW v \in FieldValues[field]
    PROVE  WithField(r, field, v) \in Given
<1>1. field \in {"time", "day", "month", "year"} /\ v \in Nat
  BY ClockInputs
<1>2. r.date \in Int \X Int \X Int /\ r.time \in Nat /\ DOMAIN r = {"date", "time"}
  BY DEF Given
<1>3. CASE field = "time"
  BY <1>1, <1>2, <1>3 DEF WithField, Given
<1>4. CASE field = "day"
  BY <1>1, <1>2, <1>4 DEF WithField, Given
<1>5. CASE field = "month"
  BY <1>1, <1>2, <1>5 DEF WithField, Given
<1>6. CASE field = "year"
  BY <1>1, <1>2, <1>6 DEF WithField, Given
<1> QED
  BY <1>1, <1>3, <1>4, <1>5, <1>6

LEMMA CmosReadingGiven ==
    ASSUME ClkInv
    PROVE  CmosReading \in Given
<1>1. clkHost \in Reading /\ Reads(clkRtc, clkWant["rtc"]) /\ clkSet.shadow \in Given
  BY DEF ClkInv, ClocksTyped
<1>2. DosClockRead(clkRtc) \in Given
  BY <1>1, ReadsAs, ReadingGiven DEF Reads
<1> QED
  BY <1>1, <1>2 DEF CmosReading

LEMMA CmosWriteKeeps ==
    ASSUME ClkInv, CmosWriteClock
    PROVE  ClkInv'
<1>1. PICK field \in DOMAIN FieldValues : \E v \in FieldValues[field] :
          LET reading == WithField(CmosReading, field, v)
          IN  IF clkSet.held THEN clkSet' = [clkSet EXCEPT !.shadow = reading]
                                  /\ UNCHANGED <<clkRtc, clkWant>>
              ELSE /\ clkRtc' = HostRtcSet(clkRtc, reading, field # "time")
                   /\ clkWant' = [clkWant EXCEPT !["rtc"] = WantRtc(@, reading, field # "time")]
                   /\ UNCHANGED clkSet
  BY DEF CmosWriteClock
<1>2. PICK v \in FieldValues[field] :
          LET reading == WithField(CmosReading, field, v)
          IN  IF clkSet.held THEN clkSet' = [clkSet EXCEPT !.shadow = reading]
                                  /\ UNCHANGED <<clkRtc, clkWant>>
              ELSE /\ clkRtc' = HostRtcSet(clkRtc, reading, field # "time")
                   /\ clkWant' = [clkWant EXCEPT !["rtc"] = WantRtc(@, reading, field # "time")]
                   /\ UNCHANGED clkSet
  BY <1>1
<1> DEFINE reading == WithField(CmosReading, field, v)
<1>3. reading \in Given
  BY CmosReadingGiven, FieldGiven
<1>4. ClockCall /\ UNCHANGED <<clkHost, clkDos, clkTicks, clkStore>>
  BY DEF CmosWriteClock
<1>5. clkHost \in Reading /\ Reads(clkRtc, clkWant["rtc"])
      /\ clkSet \in [held : BOOLEAN, shadow : Given]
      /\ clkWant \in [{"dos", "rtc"} -> Reading]
  BY DEF ClkInv, ClocksTyped
<1> HIDE DEF reading
<1>6. CASE clkSet.held
  <2>1. clkSet' = [clkSet EXCEPT !.shadow = reading] /\ clkRtc' = clkRtc /\ clkWant' = clkWant
    BY <1>2, <1>6 DEF reading
  <2>2. clkWant' = [clkWant EXCEPT !["rtc"] = clkWant["rtc"]]
    BY <1>5, <2>1
  <2>3. clkSet' \in [held : BOOLEAN, shadow : Given]
    BY <1>3, <1>5, <2>1
  <2> QED BY <1>4, <1>5, <2>1, <2>2, <2>3, CallCounts, RtcCallKeeps
<1>7. CASE ~ clkSet.held
  <2>1. /\ clkRtc' = HostRtcSet(clkRtc, reading, field # "time") /\ clkSet' = clkSet
        /\ clkWant' = [clkWant EXCEPT !["rtc"] = WantRtc(clkWant["rtc"], reading, field # "time")]
    BY <1>2, <1>7 DEF reading
  <2>2. Reads(clkRtc', WantRtc(clkWant["rtc"], reading, field # "time"))
    BY <1>3, <1>5, <2>1, HostRtcSets
  <2> QED BY <1>4, <1>5, <2>1, <2>2, CallCounts, RtcCallKeeps
<1> QED
  BY <1>6, <1>7

LEMMA CmosSetKeeps ==
    ASSUME ClkInv, CmosSetRises \/ CmosSetFalls
    PROVE  ClkInv'
<1>1. clkHost \in Reading /\ Reads(clkRtc, clkWant["rtc"])
      /\ clkSet \in [held : BOOLEAN, shadow : Given] /\ clkSpent \in [time : Nat, ops : Nat]
      /\ clkWant \in [{"dos", "rtc"} -> Reading]
  BY DEF ClkInv, ClocksTyped
<1>2. CASE CmosSetRises
  <2>1. /\ ClockCall /\ clkSet' = [held |-> TRUE, shadow |-> CmosReading]
        /\ UNCHANGED <<clkHost, clkDos, clkRtc, clkTicks, clkWant, clkStore>>
    BY <1>2 DEF CmosSetRises
  <2>2. clkSet' \in [held : BOOLEAN, shadow : Given]
    BY <2>1, CmosReadingGiven
  <2>3. clkWant' = [clkWant EXCEPT !["rtc"] = clkWant["rtc"]]
    BY <1>1, <2>1
  <2> QED BY <1>1, <2>1, <2>2, <2>3, CallCounts, RtcCallKeeps
<1>3. CASE CmosSetFalls
  <2> DEFINE w == WantRtc(clkWant["rtc"], clkSet.shadow, TRUE)
             v == WantRtc(w, clkSet.shadow, FALSE)
             date == HostRtcSet(clkRtc, clkSet.shadow, TRUE)
  <2>1. /\ clkSet' = [held |-> FALSE, shadow |-> clkHost]
        /\ clkRtc' = HostRtcSet(date, clkSet.shadow, FALSE)
        /\ clkWant' = [clkWant EXCEPT !["rtc"] = v]
        /\ UNCHANGED <<clkHost, clkDos, clkTicks, clkSpent, clkStore>>
    BY <1>3 DEF CmosSetFalls
  <2>2. clkSet.shadow \in Given
    BY <1>1
  <2>3. Reads(date, w)
    BY <1>1, <2>2, HostRtcSets
  <2> HIDE DEF w, date
  <2>4. Reads(clkRtc', v)
    BY <1>1, <2>1, <2>2, <2>3, HostRtcSets
  <2>5. clkSet' \in [held : BOOLEAN, shadow : Given]
    BY <1>1, <2>1, ReadingGiven
  <2> HIDE DEF v
  <2> QED BY <1>1, <2>1, <2>4, <2>5, RtcCallKeeps
<1> QED
  BY <1>2, <1>3

LEMMA ClkStarts ==
    ASSUME ClkInit
    PROVE  ClkInv
<1>1. /\ clkHost \in [date : ClockStarts, time : {0}] /\ clkDos = 0 /\ clkRtc = 0
      /\ clkTicks = VddPitTickOwned(clkHost.time \div TickUnits)
      /\ clkSet = [held |-> FALSE, shadow |-> clkHost] /\ clkSpent = [time |-> 0, ops |-> 0]
      /\ clkWant = [c \in {"dos", "rtc"} |-> clkHost]
      /\ clkStore = [date |-> clkHost.date, isNearMidnight |-> FALSE]
  BY DEF ClkInit
<1>2. clkHost.date \in Date
  <2>1. clkHost.date \in ClockStarts
    BY <1>1
  <2>2. clkHost.date \in Nat \X Nat \X Nat /\ DosClockIsRealDate(clkHost.date)
    BY <2>1, ClockInputs
  <2> QED BY <2>2, RealDates
<1>3. clkHost \in Reading
  BY <1>1, <1>2, TicksFit DEF Reading
<1>4. 0 \in 0 .. ClockDay - 1
  BY TicksFit
<1>5. clkHost.time \div TickUnits \in 0 .. TicksPerDay - 1
  BY <1>1, <1>4, TicksFit
<1>6. clkTicks \in Ticks /\ ~ IsTickTaken
  BY <1>1, <1>5 DEF VddPitTickOwned, Ticks, IsTickTaken
<1>7. HostPacked = Packed(clkHost) /\ HostPacked \in Int
  BY <1>3, ReadingIs DEF HostPacked, Packed
<1>8. Reads(clkRtc, clkWant["rtc"]) /\ Reads(clkDos, clkWant["dos"])
  BY <1>1, <1>3, <1>7 DEF Reads
<1>9. ClocksTyped
  BY <1>1, <1>2, <1>3, <1>6, ReadingGiven DEF ClocksTyped, StoreStates
<1> QED
  BY <1>6, <1>8, <1>9 DEF ClkInv, StoreInv

LEMMA ClkStep ==
    ASSUME ClkInv, [ClkNext]_clkVars
    PROVE  ClkInv'
<1>1. CASE UNCHANGED clkVars
  BY <1>1 DEF clkVars, ClkInv, ClocksTyped, StoreInv, Reads, HostPacked, IsTickTaken, TickOfStore,
              DayOfStore, TakenSince, TakenWraps, Packed, DosClockPack
<1> QED
  BY <1>1, AdvancesKeep, GetKeeps, SetDateKeeps, SetTimeKeeps, TickStoreKeeps, BiosSetTicksKeeps,
     BiosSetRtcKeeps, CmosWriteKeeps, CmosSetKeeps DEF ClkNext

(* Where each of the guest's clocks stands, in any order of calls, stores   *)
(* and ticks: its offset from the host's clock is that of what it should    *)
(* read (DosClockSetDate, DosClockSetTime, DosClockFollowTicks), and the    *)
(* day of a store that DOS has not seen yet is still to be found            *)
(* (VddPitBiosTick).                                                       *)
THEOREM ClocksCorrect == ClkSpec => []ClkInv
<1>1. ClkInit => ClkInv
  BY ClkStarts
<1>2. ClkInv /\ [ClkNext]_clkVars => ClkInv'
  BY ClkStep
<1> QED
  BY <1>1, <1>2, PTL DEF ClkSpec

(* The real-time clock reads what it was set to, moved on by the time that  *)
(* has passed, for every date of the calendar (HostRtcSet, DosClockUnpack). *)
THEOREM RtcKeepsTime == ClkSpec => []RtcReadsTrue
<1>1. ClkInv => RtcReadsTrue
  BY ReadsAs DEF ClkInv, ClocksTyped, RtcReadsTrue
<1> QED
  BY <1>1, ClocksCorrect, PTL

(* DOS's clock reads what the guest set or stored, however many midnights   *)
(* the count has passed when DOS notices the store (DosClockSync,           *)
(* DosClockFollowTicks, VddPitTickTake).                                   *)
THEOREM DosKeepsTime == ClkSpec => []DosReadsTrue
<1>1. ClkInv => DosReadsTrue
  BY ReadsAs DEF ClkInv, ClocksTyped, DosReadsTrue
<1> QED
  BY <1>1, ClocksCorrect, PTL
=============================================================================
