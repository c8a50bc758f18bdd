---------------------------- MODULE MemoryProofs ----------------------------
(***************************************************************************)
(* Proofs about conventional memory: what DOS promises its programs        *)
(* (Arena), for any memory size and any start-up layout; the chain of      *)
(* memory control blocks (DosMemory), for any sizes and any sessions whose *)
(* programs are loaded where they fit; and that the second implements the  *)
(* first.                                                                  *)
(***************************************************************************)
EXTENDS Arena, DosMemory, SetFacts

-----------------------------------------------------------------------------
(* Arena.                                                                  *)

(* ArenaInit lays blocks that are typed, in bounds and separate, by        *)
(* ArenaAssumption.                                                        *)
LEMMA InitialArena == ArenaInit => ArenaTypeOK /\ BlocksSeparate
  BY ArenaAssumption DEF ArenaInit, ArenaTypeOK, BlocksSeparate

(* Adding a block that fits beside the others keeps all of them separate.  *)
LEMMA AddBlock ==
    ASSUME NEW S, NEW b, S \subseteq Block, b \in Block, FitsBeside(b, S),
           \A c \in S : InBounds(c),
           \A c, d \in S : c # d => Separate(c, d)
    PROVE  /\ S \cup {b} \subseteq Block
           /\ \A c \in S \cup {b} : InBounds(c)
           /\ \A c, d \in S \cup {b} : c # d => Separate(c, d)
  <1>1. \A c \in S : Separate(b, c) /\ Separate(c, b)
    BY DEF FitsBeside, Separate
  <1> QED BY <1>1 DEF FitsBeside

(* A resize keeps the blocks separate.                                     *)
LEMMA ResizedSeparate == ArenaTypeOK /\ BlocksSeparate /\ blocks' \in SUBSET Block /\ ResizedInPlace => BlocksSeparate'
  <1> SUFFICES ASSUME ArenaTypeOK, BlocksSeparate, blocks' \in SUBSET Block, ResizedInPlace
               PROVE  BlocksSeparate'
    OBVIOUS
  <1> PICK b \in Removed, c \in Added :
             FitsBeside(c, blocks \ {b}) /\ blocks' = (blocks \ {b}) \cup {c}
    BY DEF ResizedInPlace
  <1> DEFINE R == blocks \ {b}
  <1>1. R \subseteq Block /\ (\A x \in R : InBounds(x)) /\ (\A x, y \in R : x # y => Separate(x, y))
    BY DEF ArenaTypeOK, BlocksSeparate
  <1>2. c \in Block /\ FitsBeside(c, R) /\ blocks' = R \cup {c}
    BY DEF Added
  <1> HIDE DEF R
  <1> QED BY <1>1, <1>2, AddBlock DEF BlocksSeparate

(* Every step keeps the blocks typed and separate.                         *)
LEMMA ArenaStep == ArenaTypeOK /\ BlocksSeparate /\ [ArenaNext]_arenaVars => ArenaTypeOK' /\ BlocksSeparate'
  <1> SUFFICES ASSUME ArenaTypeOK, BlocksSeparate, [ArenaNext]_arenaVars
               PROVE  ArenaTypeOK' /\ BlocksSeparate'
    OBVIOUS
  <1>u. CASE UNCHANGED arenaVars
    BY <1>u DEF arenaVars, ArenaTypeOK, BlocksSeparate
  <1> SUFFICES ASSUME ArenaNext PROVE ArenaTypeOK' /\ BlocksSeparate'
    BY <1>u
  <1>t. ArenaTypeOK' /\ blocks' \in SUBSET Block
    BY DEF ArenaNext, ArenaTypeOK
  <1>s. /\ blocks \subseteq Block
        /\ \A b \in blocks : InBounds(b)
        /\ \A b, c \in blocks : b # c => Separate(b, c)
    BY DEF ArenaTypeOK, BlocksSeparate
  <1>1. CASE Allocate
    <2> PICK b \in Added : FitsBeside(b, blocks) /\ blocks' = blocks \cup {b}
      BY <1>1 DEF Allocate
    <2> QED BY <1>t, <1>s, AddBlock DEF Added, BlocksSeparate
  <1>2. CASE GiveBack \/ EndProgram
    BY <1>2, <1>t, <1>s DEF GiveBack, EndProgram, BlocksSeparate
  <1>3. CASE Resize \/ KeepResident
    BY <1>3, <1>t, ResizedSeparate DEF Resize, KeepResident, BlocksSeparate
  <1>4. CASE StartProgram
    <2> PICK p \in Added, e \in Added :
               /\ FitsBeside(e, blocks) /\ FitsBeside(p, blocks \cup {e})
               /\ blocks' = blocks \cup {p, e}
      BY <1>4 DEF StartProgram
    <2> DEFINE S == blocks \cup {e}
    <2>1. p \in Block /\ e \in Block
      BY <1>t DEF Added
    <2>2. S \subseteq Block /\ (\A c \in S : InBounds(c)) /\ (\A c, d \in S : c # d => Separate(c, d))
      BY <2>1, <1>s, AddBlock
    <2>3. FitsBeside(p, S) /\ blocks' = S \cup {p}
      OBVIOUS
    <2> HIDE DEF S
    <2> QED BY <2>1, <2>2, <2>3, <1>t, AddBlock DEF BlocksSeparate
  <1>5. CASE ReserveTop
    <2> PICK b \in Removed, c \in Added, d \in Added :
               /\ FitsBeside(c, blocks \ {b}) /\ FitsBeside(d, (blocks \ {b}) \cup {c})
               /\ blocks' = (blocks \ {b}) \cup {c, d}
      BY <1>5 DEF ReserveTop
    <2> DEFINE R == blocks \ {b}
               S == R \cup {c}
    <2>1. c \in Block /\ d \in Block
      BY <1>t DEF Added
    <2>2. R \subseteq Block /\ (\A x \in R : InBounds(x)) /\ (\A x, y \in R : x # y => Separate(x, y))
      BY <1>s
    <2>3. FitsBeside(c, R) /\ FitsBeside(d, S) /\ blocks' = S \cup {d}
      OBVIOUS
    <2> HIDE DEF R
    <2>4. S \subseteq Block /\ (\A x \in S : InBounds(x)) /\ (\A x, y \in S : x # y => Separate(x, y))
      BY <2>1, <2>2, <2>3, AddBlock
    <2> HIDE DEF S
    <2> QED BY <2>1, <2>3, <2>4, <1>t, AddBlock DEF BlocksSeparate
  <1> QED BY <1>1, <1>2, <1>3, <1>4, <1>5 DEF ArenaNext

(* DOS's promise: blocks of two programs never share memory, and none lies *)
(* over a header.                                                          *)
THEOREM ArenaBlocksSeparate == ArenaSpec => []BlocksSeparate
  <1>1. ArenaTypeOK /\ BlocksSeparate /\ [ArenaNext]_arenaVars => (ArenaTypeOK /\ BlocksSeparate)'
    BY ArenaStep
  <1> QED BY <1>1, InitialArena, PTL DEF ArenaSpec

-----------------------------------------------------------------------------
(* DosMemory.                                                              *)
-----------------------------------------------------------------------------
(* Conventional memory: what the headers of a chain do.                    *)

(* Who a block can belong to: a program, by its PSP, or DOS.               *)
BlockOwners == (FirstMcb + 1 .. Top - 1) \cup {DosOwner}

Headers == [sig : Signatures \cup {"-"}, owner : BlockOwners \cup {Free}, size : 0 .. Top]

(* Any header, stale or not, ends where memory does or before.             *)
MemOK(m) == m \in [Paras -> Headers] /\ \A p \in Paras : NextMcb(m, p) <= Top

(* The blocks of C lie side by side from the first header to the top.      *)
Tiles(m, C) ==
    /\ C \subseteq Paras /\ FirstMcb \in C
    /\ \A p \in C : /\ m[p].sig \in Signatures
                    /\ m[p].sig = "M" => NextMcb(m, p) \in C
                    /\ m[p].sig = "Z" => NextMcb(m, p) = Top
    /\ \A p, q \in C : p < q => NextMcb(m, p) <= q

LEMMA ParasAre == Paras \subseteq Nat /\ \A p \in Nat : p \in Paras <=> p < Top
  BY MemoryAssumption DEF Paras, FirstMcb

LEMMA GreatestPara ==
    ASSUME NEW S \in SUBSET Paras, S # {}
    PROVE  \E x \in S : \A y \in S : y <= x
<1>1. Top \in Nat /\ S \subseteq Nat /\ \A x \in S : x < Top
  BY ParasAre, MemoryAssumption
<1> DEFINE D == {Top - x : x \in S}
<1>2. D \subseteq Nat /\ D # {}
  <2>1. \A x \in S : Top - x \in Nat
    BY <1>1
  <2> QED
    BY <2>1
<1>3. PICK d \in D : \A e \in D : d <= e
  <2> HIDE DEF D
  <2> QED
    BY <1>2, LeastNatural
<1>4. PICK x \in S : d = Top - x
  BY <1>3
<1>5. ASSUME NEW y \in S
      PROVE  y <= x
  <2>1. Top - y \in D
    OBVIOUS
  <2>2. Top - x <= Top - y
    BY <1>3, <1>4, <2>1
  <2> QED
    BY <1>1, <2>2
<1> QED
  BY <1>5

LEMMA NextIs ==
    ASSUME NEW m, MemOK(m), NEW p \in Paras
    PROVE  /\ NextMcb(m, p) \in Nat /\ NextMcb(m, p) > p /\ NextMcb(m, p) <= Top
           /\ m[p].size \in Nat /\ NextMcb(m, p) = p + 1 + m[p].size
           /\ m[p] \in Headers
<1>1. m[p] \in Headers /\ NextMcb(m, p) <= Top
  BY DEF MemOK
<1>2. m[p].size \in 0 .. Top /\ Top \in Nat
  BY <1>1, MemoryAssumption DEF Headers
<1> QED
  BY <1>1, <1>2, ParasAre DEF NextMcb

(* What a walk over the headers computes at p, given what it did behind    *)
(* p's block.  Each of the three recursive functions exists, by the        *)
(* greatest paragraph below which it would not.                            *)
AtPara(kind, m, p, x) ==
    IF kind = "walk" THEN IF m[p].sig = "M" /\ NextMcb(m, p) \in Paras THEN {p} \cup x ELSE {p}
    ELSE IF kind = "check" THEN \/ m[p].sig = "Z" /\ NextMcb(m, p) = Top
                                \/ m[p].sig = "M" /\ NextMcb(m, p) \in Paras /\ x
    ELSE IF Absorbs(m, p) THEN x ELSE p

Walks(f, n, kind, m) == f = [p \in Top - n .. Top - 1 |-> AtPara(kind, m, p, f[NextMcb(m, p)])]

LEMMA WalksExist ==
    ASSUME NEW m, MemOK(m), NEW kind
    PROVE  \E f : f = [p \in Paras |-> AtPara(kind, m, p, f[NextMcb(m, p)])]
<1> DEFINE Bad == {n \in 0 .. Top : ~ \E f : Walks(f, n, kind, m)}
<1>0. Top \in Nat
  BY MemoryAssumption
<1>1. \E f : Walks(f, 0, kind, m)
  <2> DEFINE f == [p \in Top - 0 .. Top - 1 |-> 0]
  <2>1. Top - 0 .. Top - 1 = {}
    BY <1>0
  <2>2. Walks(f, 0, kind, m)
    BY <2>1 DEF Walks
  <2> QED
    BY <2>2
<1>2. ASSUME NEW n \in 0 .. Top - 1, \E f : Walks(f, n, kind, m)
      PROVE  \E f : Walks(f, n + 1, kind, m)
  <2>1. PICK f : Walks(f, n, kind, m)
    BY <1>2
  <2> DEFINE a == Top - (n + 1)
             g == [p \in Top - (n + 1) .. Top - 1 |->
                     IF p = Top - (n + 1) THEN AtPara(kind, m, p, f[NextMcb(m, p)]) ELSE f[p]]
  <2>2. ASSUME NEW p \in Top - (n + 1) .. Top - 1
        PROVE  g[p] = AtPara(kind, m, p, g[NextMcb(m, p)])
    <3>1. p \in Paras
      BY <1>0 DEF Paras, FirstMcb
    <3>2. g[p] = AtPara(kind, m, p, f[NextMcb(m, p)])
      <4>1. CASE p = Top - (n + 1)
        BY <4>1
      <4>2. CASE p # Top - (n + 1)
        <5>1. p \in Top - n .. Top - 1
          BY <1>0, <4>2
        <5>2. f[p] = AtPara(kind, m, p, f[NextMcb(m, p)])
          BY <2>1, <5>1 DEF Walks
        <5> QED
          BY <4>2, <5>2
      <4> QED
        BY <4>1, <4>2
    <3>3. CASE NextMcb(m, p) \in Paras
      <4>1. NextMcb(m, p) \in Top - n .. Top - 1
        BY <1>0, <3>1, <3>3, NextIs, ParasAre
      <4>2. g[NextMcb(m, p)] = f[NextMcb(m, p)]
        BY <1>0, <4>1
      <4> QED
        BY <3>2, <4>2
    <3>4. CASE NextMcb(m, p) \notin Paras
      <4>1. \A x, y : AtPara(kind, m, p, x) = AtPara(kind, m, p, y)
        BY <3>4 DEF AtPara, Absorbs
      <4> QED
        BY <3>2, <4>1
    <3> QED
      BY <3>3, <3>4
  <2>3. g = [p \in Top - (n + 1) .. Top - 1 |-> AtPara(kind, m, p, g[NextMcb(m, p)])]
    <3>1. g = [p \in Top - (n + 1) .. Top - 1 |-> g[p]]
      OBVIOUS
    <3> HIDE DEF g
    <3> QED
      BY <2>2, <3>1
  <2> HIDE DEF g
  <2> QED
    BY <2>3 DEF Walks
<1>3. Bad = {}
  <2> SUFFICES ASSUME Bad # {} PROVE FALSE
    OBVIOUS
  <2>1. PICK n \in Bad : \A i \in Bad : n <= i
    <3>1. Bad \subseteq Nat
      OBVIOUS
    <3> HIDE DEF Bad
    <3> QED
      BY <3>1, LeastNatural
  <2>2. n \in 0 .. Top /\ n # 0
    BY <1>1, <2>1
  <2>3. n - 1 \in 0 .. Top - 1 /\ n - 1 \in 0 .. Top /\ ~ (n - 1 \in Bad)
    BY <1>0, <2>1, <2>2
  <2>4. \E f : Walks(f, n - 1 + 1, kind, m)
    BY <1>2, <2>3
  <2>5. n - 1 + 1 = n
    BY <2>2
  <2> QED
    BY <2>1, <2>4, <2>5
<1>4. PICK f : Walks(f, Top, kind, m)
  <2>1. Top \in 0 .. Top
    BY <1>0
  <2> QED
    BY <1>3, <2>1
<1>5. Top - Top .. Top - 1 = Paras
  BY <1>0 DEF Paras, FirstMcb
<1> QED
  BY <1>4, <1>5 DEF Walks

LEMMA WalkIs ==
    ASSUME NEW m, MemOK(m)
    PROVE  \E w : \A p \in Paras :
              /\ WalkFrom(m, p) = w[p]
              /\ w[p] = IF m[p].sig = "M" /\ NextMcb(m, p) \in Paras
                        THEN {p} \cup w[NextMcb(m, p)] ELSE {p}
<1>1. PICK f : f = [p \in Paras |-> AtPara("walk", m, p, f[NextMcb(m, p)])]
  BY WalksExist
<1>2. f = [p \in Paras |-> IF m[p].sig = "M" /\ NextMcb(m, p) \in Paras
                           THEN {p} \cup f[NextMcb(m, p)] ELSE {p}]
  BY <1>1 DEF AtPara
<1>3. PICK w : /\ w = [p \in Paras |-> IF m[p].sig = "M" /\ NextMcb(m, p) \in Paras
                                       THEN {p} \cup w[NextMcb(m, p)] ELSE {p}]
               /\ \A s : WalkFrom(m, s) = w[s]
  BY <1>2 DEF WalkFrom
<1>4. \A p \in Paras : w[p] = IF m[p].sig = "M" /\ NextMcb(m, p) \in Paras
                              THEN {p} \cup w[NextMcb(m, p)] ELSE {p}
  BY <1>3, Zenon
<1> QED
  BY <1>3, <1>4

LEMMA CheckIs ==
    ASSUME NEW m, MemOK(m)
    PROVE  \E c : /\ DosMcbCheckChain(m) = c[FirstMcb]
                  /\ \A p \in Paras :
                        c[p] = (\/ m[p].sig = "Z" /\ NextMcb(m, p) = Top
                                \/ m[p].sig = "M" /\ NextMcb(m, p) \in Paras /\ c[NextMcb(m, p)])
<1>1. PICK f : f = [p \in Paras |-> AtPara("check", m, p, f[NextMcb(m, p)])]
  BY WalksExist
<1>2. f = [p \in Paras |-> \/ m[p].sig = "Z" /\ NextMcb(m, p) = Top
                           \/ m[p].sig = "M" /\ NextMcb(m, p) \in Paras /\ f[NextMcb(m, p)]]
  BY <1>1 DEF AtPara
<1>3. PICK c : /\ c = [p \in Paras |-> \/ m[p].sig = "Z" /\ NextMcb(m, p) = Top
                                       \/ m[p].sig = "M" /\ NextMcb(m, p) \in Paras /\ c[NextMcb(m, p)]]
               /\ DosMcbCheckChain(m) = c[FirstMcb]
  BY <1>2 DEF DosMcbCheckChain
<1>4. \A p \in Paras : c[p] = (\/ m[p].sig = "Z" /\ NextMcb(m, p) = Top
                               \/ m[p].sig = "M" /\ NextMcb(m, p) \in Paras /\ c[NextMcb(m, p)])
  BY <1>3, Zenon
<1> QED
  BY <1>3, <1>4

LEMMA MergeIs ==
    ASSUME NEW m, MemOK(m)
    PROVE  \E l : \A p \in Paras :
              /\ Coalesced(m, p) = Header(m[l[p]].sig, m[p].owner, NextMcb(m, l[p]) - p - 1)
              /\ l[p] = IF Absorbs(m, p) THEN l[NextMcb(m, p)] ELSE p
<1>1. PICK f : f = [p \in Paras |-> AtPara("last", m, p, f[NextMcb(m, p)])]
  BY WalksExist
<1>2. f = [q \in Paras |-> IF Absorbs(m, q) THEN f[NextMcb(m, q)] ELSE q]
  BY <1>1 DEF AtPara
<1>3. PICK l : /\ l = [q \in Paras |-> IF Absorbs(m, q) THEN l[NextMcb(m, q)] ELSE q]
               /\ \A p : Coalesced(m, p) = Header(m[l[p]].sig, m[p].owner, NextMcb(m, l[p]) - p - 1)
  BY <1>2 DEF Coalesced
<1>4. \A p \in Paras : l[p] = IF Absorbs(m, p) THEN l[NextMcb(m, p)] ELSE p
  BY <1>3, Zenon
<1> QED
  BY <1>3, <1>4

(* The chain is what tiles memory, and the validator says so.              *)
LEMMA ChainIs ==
    ASSUME NEW m, MemOK(m), NEW C, Tiles(m, C)
    PROVE  Chain(m) = C /\ DosMcbCheckChain(m)
<1>0. Top \in Nat /\ C \subseteq Paras /\ FirstMcb \in C /\ FirstMcb \in Paras
      /\ (\A p, q \in C : p < q => NextMcb(m, p) <= q)
  BY MemoryAssumption DEF Tiles
<1>1. PICK w : \A p \in Paras :
              /\ WalkFrom(m, p) = w[p]
              /\ w[p] = IF m[p].sig = "M" /\ NextMcb(m, p) \in Paras
                        THEN {p} \cup w[NextMcb(m, p)] ELSE {p}
  BY WalkIs
<1>2. PICK c : /\ DosMcbCheckChain(m) = c[FirstMcb]
               /\ \A p \in Paras :
                     c[p] = (\/ m[p].sig = "Z" /\ NextMcb(m, p) = Top
                             \/ m[p].sig = "M" /\ NextMcb(m, p) \in Paras /\ c[NextMcb(m, p)])
  BY CheckIs
<1> DEFINE Fine(p) == w[p] = {q \in C : q >= p} /\ c[p]
           Bad == {p \in C : ~ Fine(p)}
<1>3. Bad = {}
  <2> SUFFICES ASSUME Bad # {} PROVE FALSE
    OBVIOUS
  <2>1. PICK p \in Bad : \A q \in Bad : q <= p
    <3>1. Bad \in SUBSET Paras
      BY <1>0
    <3> HIDE DEF Bad
    <3> QED
      BY <3>1, GreatestPara
  <2>2. p \in C /\ p \in Paras /\ NextMcb(m, p) > p /\ NextMcb(m, p) \in Nat /\ p \in Nat
    BY <1>0, <2>1, NextIs, ParasAre
  <2>3. CASE m[p].sig = "M"
    <3>1. NextMcb(m, p) \in C /\ NextMcb(m, p) \in Paras
      BY <1>0, <2>2, <2>3 DEF Tiles
    <3>2. ~ (NextMcb(m, p) \in Bad)
      BY <2>1, <2>2
    <3>3. Fine(NextMcb(m, p))
      BY <3>1, <3>2
    <3>4. w[p] = {p} \cup {q \in C : q >= NextMcb(m, p)} /\ c[p]
      <4>1. w[NextMcb(m, p)] = {q \in C : q >= NextMcb(m, p)} /\ c[NextMcb(m, p)]
        BY <3>3
      <4>2. w[p] = {p} \cup w[NextMcb(m, p)]
        BY <1>1, <2>2, <2>3, <3>1
      <4>3. c[p] = (\/ m[p].sig = "Z" /\ NextMcb(m, p) = Top
                    \/ m[p].sig = "M" /\ NextMcb(m, p) \in Paras /\ c[NextMcb(m, p)])
        BY <1>2, <2>2, Zenon
      <4>4. c[p]
        BY <2>3, <3>1, <4>1, <4>3, Zenon
      <4> QED
        BY <4>1, <4>2, <4>4
    <3>5. ASSUME NEW q \in C
          PROVE  q >= p <=> q = p \/ q >= NextMcb(m, p)
      <4>1. q \in Nat /\ (p < q => NextMcb(m, p) <= q)
        BY <1>0, <2>2, ParasAre
      <4>2. PICK k \in Nat : k = NextMcb(m, p) /\ k > p /\ p \in Nat
        BY <2>2
      <4> QED
        BY <4>1, <4>2
    <3>6. {p} \cup {q \in C : q >= NextMcb(m, p)} = {q \in C : q >= p}
      BY <2>2, <3>5
    <3> QED
      BY <2>1, <3>4, <3>6
  <2>4. CASE m[p].sig # "M"
    <3>1. m[p].sig = "Z" /\ NextMcb(m, p) = Top
      BY <2>2, <2>4 DEF Tiles, Signatures
    <3>2. w[p] = {p} /\ c[p]
      <4>1. w[p] = {p}
        BY <1>1, <2>2, <2>4
      <4>2. c[p] = (\/ m[p].sig = "Z" /\ NextMcb(m, p) = Top
                    \/ m[p].sig = "M" /\ NextMcb(m, p) \in Paras /\ c[NextMcb(m, p)])
        BY <1>2, <2>2, Zenon
      <4>3. c[p]
        BY <3>1, <4>2, Zenon
      <4> QED
        BY <4>1, <4>3
    <3>3. ASSUME NEW q \in C
          PROVE  q >= p <=> q = p
      <4>1. q \in Nat /\ q < Top /\ (p < q => Top <= q) /\ p \in Nat /\ Top \in Nat
        BY <1>0, <2>2, <3>1, ParasAre
      <4> QED
        BY <4>1
    <3>4. {p} = {q \in C : q >= p}
      BY <2>2, <3>3
    <3> QED
      BY <2>1, <3>2, <3>4
  <2> QED
    BY <2>3, <2>4
<1>4. Fine(FirstMcb)
  BY <1>0, <1>3
<1>5. {q \in C : q >= FirstMcb} = C
  <2>1. \A q \in C : q \in Nat
    BY <1>0, ParasAre
  <2>2. \A q \in C : q >= FirstMcb
    BY <2>1 DEF FirstMcb
  <2> QED
    BY <2>2
<1> QED
  BY <1>0, <1>1, <1>2, <1>4, <1>5 DEF Chain

(* A sound memory.                                                         *)
Good(m) == MemOK(m) /\ Tiles(m, Chain(m))

LEMMA GoodIs ==
    ASSUME NEW m, MemOK(m), NEW C, Tiles(m, C)
    PROVE  Good(m) /\ Chain(m) = C
  BY ChainIs DEF Good

LEMMA ChainOrder ==
    ASSUME NEW m, Good(m), NEW p \in Chain(m)
    PROVE  /\ p \in Paras /\ p \in Nat /\ m[p] \in Headers /\ m[p].size \in Nat
           /\ NextMcb(m, p) \in Nat /\ NextMcb(m, p) > p /\ NextMcb(m, p) <= Top
           /\ NextMcb(m, p) = p + 1 + m[p].size
           /\ \A q \in Chain(m) : q > p => q >= NextMcb(m, p)
           /\ m[p].sig \in Signatures
           /\ m[p].sig = "M" <=> NextMcb(m, p) \in Chain(m)
           /\ m[p].sig = "M" <=> NextMcb(m, p) # Top
           /\ m[p].sig = "Z" <=> NextMcb(m, p) = Top
<1>1. p \in Paras /\ MemOK(m) /\ Chain(m) \subseteq Paras /\ Top \notin Paras
  BY ParasAre, MemoryAssumption DEF Good, Tiles
<1>2. \A q \in Chain(m) : q > p => q >= NextMcb(m, p)
  BY <1>1, NextIs, ParasAre DEF Good, Tiles
<1>3. /\ m[p].sig \in Signatures
      /\ m[p].sig = "M" => NextMcb(m, p) \in Chain(m)
      /\ m[p].sig = "Z" => NextMcb(m, p) = Top
  BY DEF Good, Tiles
<1>4. /\ m[p].sig = "M" <=> NextMcb(m, p) \in Chain(m)
      /\ m[p].sig = "M" <=> NextMcb(m, p) # Top
      /\ m[p].sig = "Z" <=> NextMcb(m, p) = Top
  BY <1>1, <1>3 DEF Signatures
<1> QED
  BY <1>1, <1>2, <1>3, <1>4, NextIs, ParasAre

(* The block before one in the chain.                                      *)
LEMMA BlockBefore ==
    ASSUME NEW m, Good(m), NEW p \in Chain(m), NEW a \in Chain(m), a < p
    PROVE  \E q \in Chain(m) : a <= q /\ q < p /\ NextMcb(m, q) = p /\ m[q].sig = "M"
<1>1. Chain(m) \subseteq Paras /\ p \in Nat /\ a \in Nat
  BY ChainOrder DEF Good, Tiles
<1> DEFINE S == {q \in Chain(m) : q < p}
<1>2. PICK q \in S : \A x \in S : x <= q
  <2>1. S \in SUBSET Paras /\ S # {}
    BY <1>1
  <2> HIDE DEF S
  <2> QED
    BY <2>1, GreatestPara
<1>3. NextMcb(m, q) <= p /\ NextMcb(m, q) \in Nat /\ NextMcb(m, q) > q /\ q \in Nat
  BY <1>2, ChainOrder
<1>4. NextMcb(m, q) # Top
  BY <1>1, <1>3, ParasAre, ChainOrder
<1>5. NextMcb(m, q) \in Chain(m) /\ m[q].sig = "M"
  BY <1>2, <1>4, ChainOrder
<1>6. NextMcb(m, q) = p
  BY <1>1, <1>2, <1>3, <1>5
<1> QED
  BY <1>2, <1>5, <1>6

LEMMA AbsorbsInChain ==
    ASSUME NEW m, Good(m), NEW p \in Chain(m)
    PROVE  Absorbs(m, p) <=> NextMcb(m, p) \in Chain(m) /\ m[NextMcb(m, p)].owner = Free
<1>1. Chain(m) \subseteq Paras
  BY DEF Good, Tiles
<1>2. ASSUME NextMcb(m, p) \in Chain(m)
      PROVE  NextMcb(m, p) \in Paras /\ m[NextMcb(m, p)].sig \in Signatures
  BY <1>1, <1>2, ChainOrder
<1> QED
  BY <1>1, <1>2, ChainOrder DEF Absorbs

(* Where the coalescing loop ends: at the last of the free blocks behind.  *)
Ends(m, l) ==
    \A p \in Paras :
        /\ l[p] \in Paras /\ l[p] >= p
        /\ Coalesced(m, p) = Header(m[l[p]].sig, m[p].owner, NextMcb(m, l[p]) - p - 1)
        /\ p \in Chain(m) =>
              /\ l[p] \in Chain(m) /\ ~ Absorbs(m, l[p])
              /\ \A r \in Chain(m) : p < r /\ r <= l[p] => m[r].owner = Free

LEMMA EndsExist ==
    ASSUME NEW m, MemOK(m), Good(m)
    PROVE  \E l : Ends(m, l)
<1>1. PICK l : \A p \in Paras :
              /\ Coalesced(m, p) = Header(m[l[p]].sig, m[p].owner, NextMcb(m, l[p]) - p - 1)
              /\ l[p] = IF Absorbs(m, p) THEN l[NextMcb(m, p)] ELSE p
  BY MergeIs
<1> DEFINE Fine(p) ==
             /\ l[p] \in Paras /\ l[p] >= p
             /\ p \in Chain(m) =>
                   /\ l[p] \in Chain(m) /\ ~ Absorbs(m, l[p])
                   /\ \A r \in Chain(m) : p < r /\ r <= l[p] => m[r].owner = Free
           Bad == {p \in Paras : ~ Fine(p)}
<1>2. Bad = {}
  <2> SUFFICES ASSUME Bad # {} PROVE FALSE
    OBVIOUS
  <2>1. PICK p \in Bad : \A q \in Bad : q <= p
    <3>1. Bad \in SUBSET Paras
      OBVIOUS
    <3> HIDE DEF Bad
    <3> QED
      BY <3>1, GreatestPara
  <2>2. p \in Paras /\ p \in Nat /\ NextMcb(m, p) \in Nat /\ NextMcb(m, p) > p
        /\ Paras \subseteq Nat /\ Chain(m) \subseteq Paras
    BY <2>1, NextIs, ParasAre DEF Good, Tiles
  <2>3. CASE ~ Absorbs(m, p)
    <3>1. l[p] = p
      BY <1>1, <2>2, <2>3
    <3>2. \A r \in Chain(m) : ~ (p < r /\ r <= l[p])
      <4>1. \A r \in Nat : ~ (p < r /\ r <= p)
        BY <2>2
      <4> QED
        BY <2>2, <3>1, <4>1
    <3> QED
      BY <2>1, <2>2, <2>3, <3>1, <3>2
  <2>4. CASE Absorbs(m, p)
    <3>1. PICK q : q = NextMcb(m, p)
      OBVIOUS
    <3>2. q \in Paras /\ q > p /\ q \in Nat /\ l[p] = l[q]
      BY <1>1, <2>2, <2>4, <3>1 DEF Absorbs
    <3>3. ~ (q \in Bad)
      BY <2>1, <2>2, <3>2
    <3>4. Fine(q)
      BY <3>2, <3>3
    <3>5. ASSUME p \in Chain(m)
          PROVE  /\ l[p] \in Chain(m) /\ ~ Absorbs(m, l[p])
                 /\ \A r \in Chain(m) : p < r /\ r <= l[p] => m[r].owner = Free
      <4>1. q \in Chain(m) /\ m[q].owner = Free
        BY <2>4, <3>1, <3>5, AbsorbsInChain
      <4>2. ASSUME NEW r \in Chain(m), p < r, r <= l[p]
            PROVE  m[r].owner = Free
        <5>1. r >= q /\ r \in Nat
          BY <3>1, <3>5, <4>2, ChainOrder
        <5> QED
          BY <3>2, <3>4, <4>1, <4>2, <5>1
      <4> QED
        BY <3>2, <3>4, <4>1, <4>2
    <3>6. l[p] \in Paras /\ l[p] >= p
      <4>1. l[p] \in Paras /\ l[p] >= q
        BY <3>2, <3>4
      <4>2. l[p] \in Nat
        BY <2>2, <4>1
      <4> QED
        BY <2>2, <3>2, <4>1, <4>2
    <3> QED
      BY <2>1, <3>5, <3>6
  <2> QED
    BY <2>3, <2>4
<1> QED
  BY <1>1, <1>2 DEF Ends

-----------------------------------------------------------------------------
(* The allocated blocks, and memories whose blocks agree but for one.      *)

BlockAt(m, p) == [base |-> p + 1, size |-> m[p].size, owner |-> m[p].owner]

Used(m, p) == p \in Chain(m) /\ m[p].owner # Free

AgreeBut(m, n, a) ==
    \A p \in Paras \ {a} :
        /\ Used(m, p) <=> Used(n, p)
        /\ Used(m, p) => n[p].size = m[p].size /\ n[p].owner = m[p].owner

Agree(m, n) == AgreeBut(m, n, Top)

LEMMA BlocksAre ==
    ASSUME NEW m
    PROVE  \A b : b \in Blocks(m) <=> \E p \in Chain(m) : Used(m, p) /\ b = BlockAt(m, p)
  BY DEF Blocks, BlockAt, Used

LEMMA BlockIs ==
    ASSUME NEW m, Good(m), NEW b \in Blocks(m)
    PROVE  /\ b.base - 1 \in Chain(m) /\ b.base - 1 \in Paras /\ Used(m, b.base - 1)
           /\ b = BlockAt(m, b.base - 1)
           /\ b.base \in FirstMcb + 1 .. Top /\ b.base \in Nat
           /\ b.size \in 0 .. Top /\ b.size \in Nat
           /\ b.owner \in BlockOwners
           /\ b.base + b.size = NextMcb(m, b.base - 1) /\ b.base + b.size <= Top
           /\ b = [base |-> b.base, size |-> b.size, owner |-> b.owner]
           /\ m[b.base - 1].size = b.size /\ m[b.base - 1].owner = b.owner
<1>1. PICK p \in Chain(m) : Used(m, p) /\ b = BlockAt(m, p)
  BY BlocksAre
<1>2. /\ p \in Paras /\ p \in Nat /\ m[p] \in Headers /\ NextMcb(m, p) <= Top
      /\ NextMcb(m, p) = p + 1 + m[p].size
  BY ChainOrder
<1>3. b.base = p + 1 /\ b.size = m[p].size /\ b.owner = m[p].owner
  BY <1>1 DEF BlockAt
<1>4. b.base - 1 = p
  BY <1>2, <1>3
<1>5. b.owner \in BlockOwners /\ b.size \in 0 .. Top
  BY <1>1, <1>2, <1>3 DEF Used, Headers
<1>6. b.base \in FirstMcb + 1 .. Top /\ b.base \in Nat /\ b.size \in Nat
  BY <1>2, <1>3, <1>5, ParasAre, MemoryAssumption DEF FirstMcb
<1>7. b.base + b.size = NextMcb(m, p)
  BY <1>2, <1>3
<1> QED
  BY <1>1, <1>2, <1>3, <1>4, <1>5, <1>6, <1>7 DEF BlockAt

LEMMA BlockAtIs ==
    ASSUME NEW m, NEW p \in Chain(m), m[p].owner # Free
    PROVE  BlockAt(m, p) \in Blocks(m)
  BY BlocksAre DEF Used

(* The block at a base is one.                                             *)
LEMMA OneBlock ==
    ASSUME NEW m, Good(m), NEW b \in Blocks(m), NEW c \in Blocks(m), b.base = c.base
    PROVE  b = c
  BY BlockIs

(* Two blocks have a header between them.                                  *)
LEMMA BlocksApart ==
    ASSUME NEW m, Good(m), NEW b \in Blocks(m), NEW c \in Blocks(m), b # c
    PROVE  b.base + b.size < c.base \/ c.base + c.size < b.base
<1>1. /\ b.base - 1 \in Chain(m) /\ b.base \in Nat /\ b.size \in Nat
      /\ b.base + b.size = NextMcb(m, b.base - 1)
  BY BlockIs
<1>2. /\ c.base - 1 \in Chain(m) /\ c.base \in Nat /\ c.size \in Nat
      /\ c.base + c.size = NextMcb(m, c.base - 1)
  BY BlockIs
<1>3. b.base # c.base
  BY OneBlock
<1>4. CASE b.base < c.base
  <2>1. c.base - 1 >= NextMcb(m, b.base - 1)
    BY <1>1, <1>2, <1>4, ChainOrder
  <2> QED
    BY <1>1, <1>2, <2>1
<1>5. CASE c.base < b.base
  <2>1. b.base - 1 >= NextMcb(m, c.base - 1)
    BY <1>1, <1>2, <1>5, ChainOrder
  <2> QED
    BY <1>1, <1>2, <2>1
<1> QED
  BY <1>1, <1>2, <1>3, <1>4, <1>5

LEMMA BlocksAgree ==
    ASSUME NEW m, Good(m), NEW n, Good(n), Agree(m, n)
    PROVE  Blocks(n) = Blocks(m)
<1>1. /\ Chain(m) \subseteq Paras /\ Chain(n) \subseteq Paras /\ Top \notin Paras
  BY ParasAre, MemoryAssumption DEF Good, Tiles
<1>2. ASSUME NEW b \in Blocks(m)
      PROVE  b \in Blocks(n)
  <2>1. PICK p \in Chain(m) : Used(m, p) /\ b = BlockAt(m, p)
    BY BlocksAre
  <2>2. p \in Paras \ {Top}
    BY <1>1
  <2>3. Used(n, p) /\ BlockAt(n, p) = BlockAt(m, p)
    BY <2>1, <2>2 DEF Agree, AgreeBut, BlockAt
  <2> QED
    BY <2>1, <2>3, BlocksAre DEF Used
<1>3. ASSUME NEW b \in Blocks(n)
      PROVE  b \in Blocks(m)
  <2>1. PICK p \in Chain(n) : Used(n, p) /\ b = BlockAt(n, p)
    BY BlocksAre
  <2>2. p \in Paras \ {Top}
    BY <1>1
  <2>3. Used(m, p) /\ BlockAt(n, p) = BlockAt(m, p)
    BY <2>1, <2>2 DEF Agree, AgreeBut, BlockAt
  <2> QED
    BY <2>1, <2>3, BlocksAre DEF Used
<1> QED
  BY <1>2, <1>3

LEMMA BlocksAgreeBut ==
    ASSUME NEW m, Good(m), NEW n, Good(n), NEW a \in Paras, AgreeBut(m, n, a)
    PROVE  /\ \A b \in Blocks(m) : b.base # a + 1 => b \in Blocks(n)
           /\ \A b \in Blocks(n) : b.base # a + 1 => b \in Blocks(m)
           /\ Used(n, a) => Blocks(n) = {b \in Blocks(m) : b.base # a + 1} \cup {BlockAt(n, a)}
           /\ ~ Used(n, a) => Blocks(n) = {b \in Blocks(m) : b.base # a + 1}
<1>1. /\ Chain(m) \subseteq Paras /\ Chain(n) \subseteq Paras /\ Paras \subseteq Nat
  BY ParasAre DEF Good, Tiles
<1>2. ASSUME NEW b \in Blocks(m), b.base # a + 1
      PROVE  b \in Blocks(n)
  <2>1. PICK p \in Chain(m) : Used(m, p) /\ b = BlockAt(m, p)
    BY BlocksAre
  <2>2. p \in Paras \ {a}
    BY <1>1, <1>2, <2>1 DEF BlockAt
  <2>3. Used(n, p) /\ BlockAt(n, p) = BlockAt(m, p)
    BY <2>1, <2>2 DEF AgreeBut, BlockAt
  <2> QED
    BY <2>1, <2>3, BlocksAre DEF Used
<1>3. ASSUME NEW b \in Blocks(n), b.base # a + 1
      PROVE  b \in Blocks(m)
  <2>1. PICK p \in Chain(n) : Used(n, p) /\ b = BlockAt(n, p)
    BY BlocksAre
  <2>2. p \in Paras \ {a}
    BY <1>1, <1>3, <2>1 DEF BlockAt
  <2>3. Used(m, p) /\ BlockAt(n, p) = BlockAt(m, p)
    BY <2>1, <2>2 DEF AgreeBut, BlockAt
  <2> QED
    BY <2>1, <2>3, BlocksAre DEF Used
<1>4. ASSUME NEW b \in Blocks(n), b.base = a + 1
      PROVE  Used(n, a) /\ b = BlockAt(n, a)
  <2>1. b.base - 1 = a
    BY <1>1, <1>4
  <2> QED
    BY <2>1, BlockIs
<1>5. Used(n, a) => BlockAt(n, a) \in Blocks(n)
  BY BlocksAre DEF Used
<1>6. BlockAt(n, a).base = a + 1
  BY DEF BlockAt
<1> QED
  BY <1>2, <1>3, <1>4, <1>5, <1>6

LEMMA AgreeTwice ==
    ASSUME NEW m, NEW n, NEW o, NEW a, AgreeBut(m, n, a), Agree(n, o) \/ AgreeBut(n, o, a)
    PROVE  AgreeBut(m, o, a)
<1>1. Top \notin Paras
  BY ParasAre, MemoryAssumption
<1> QED
  BY <1>1 DEF Agree, AgreeBut

LEMMA AgreeThen ==
    ASSUME NEW m, NEW n, NEW o, NEW a, Agree(m, n), AgreeBut(n, o, a)
    PROVE  AgreeBut(m, o, a)
<1>1. Top \notin Paras
  BY ParasAre, MemoryAssumption
<1> QED
  BY <1>1 DEF Agree, AgreeBut

-----------------------------------------------------------------------------
(* Steps on the headers.                                                   *)

(* Nothing that makes the chain changes: an owner, or paragraphs elsewhere.*)
LEMMA ChainKept ==
    ASSUME NEW m, Good(m), NEW n, MemOK(n),
           \A p \in Chain(m) : n[p].sig = m[p].sig /\ n[p].size = m[p].size
    PROVE  Good(n) /\ Chain(n) = Chain(m)
<1>1. \A p \in Chain(m) : NextMcb(n, p) = NextMcb(m, p)
  BY DEF NextMcb
<1>2. Tiles(n, Chain(m))
  BY <1>1 DEF Good, Tiles
<1> QED
  BY <1>2, GoodIs

(* Each block of S swallows the blocks up to one behind it.                *)
Swallowed(S, to, q) == \E p \in S : p < q /\ q <= to[p]

Merged(m, S, to) ==
    [q \in Paras |-> IF q \in S THEN Header(m[to[q]].sig, m[q].owner, NextMcb(m, to[q]) - q - 1)
                     ELSE m[q]]

(* None of them is itself swallowed.                                       *)
Mergers(m, S, to) ==
    /\ S \subseteq Chain(m)
    /\ \A p \in S : to[p] \in Chain(m) /\ to[p] >= p /\ ~ Swallowed(S, to, p)

LEMMA MergedIs ==
    ASSUME NEW m, Good(m), NEW S, NEW to, Mergers(m, S, to), NEW n, n = Merged(m, S, to)
    PROVE  /\ Good(n) /\ Chain(n) = {q \in Chain(m) : ~ Swallowed(S, to, q)}
           /\ \A q \in Paras : n[q].owner = m[q].owner
           /\ \A q \in S : NextMcb(n, q) = NextMcb(m, to[q]) /\ n[q].sig = m[to[q]].sig
           /\ \A q \in Paras \ S : n[q] = m[q]
<1> DEFINE D == {q \in Chain(m) : ~ Swallowed(S, to, q)}
<1>0. /\ S \subseteq Chain(m)
      /\ \A p \in S : to[p] \in Chain(m) /\ to[p] >= p /\ ~ Swallowed(S, to, p)
  BY DEF Mergers
<1>1. MemOK(m) /\ Chain(m) \subseteq Paras /\ Paras \subseteq Nat /\ Top \in Nat /\ Top \notin Paras
      /\ FirstMcb \in Chain(m) /\ \A q \in Paras : q >= FirstMcb
  BY ParasAre, MemoryAssumption DEF Good, Tiles, FirstMcb
<1>2. ASSUME NEW q \in S
      PROVE  /\ n[q] = Header(m[to[q]].sig, m[q].owner, NextMcb(m, to[q]) - q - 1)
             /\ n[q] \in Headers /\ NextMcb(n, q) = NextMcb(m, to[q]) /\ n[q].sig = m[to[q]].sig
             /\ n[q].owner = m[q].owner /\ NextMcb(m, to[q]) <= Top
  <2>1. q \in Paras /\ q \in Nat /\ to[q] \in Paras /\ to[q] \in Nat /\ to[q] >= q
    BY <1>0, <1>1
  <2>2. n[q] = Header(m[to[q]].sig, m[q].owner, NextMcb(m, to[q]) - q - 1)
    BY <2>1 DEF Merged
  <2>3. NextMcb(m, to[q]) \in Nat /\ NextMcb(m, to[q]) > to[q] /\ NextMcb(m, to[q]) <= Top
    BY <1>1, <2>1, NextIs
  <2>4. NextMcb(m, to[q]) - q - 1 \in 0 .. Top
    BY <1>1, <2>1, <2>3
  <2>5. m[to[q]] \in Headers /\ m[q] \in Headers
    BY <1>1, <2>1, NextIs
  <2>6. n[q] \in Headers
    BY <2>2, <2>4, <2>5 DEF Header, Headers
  <2>7. n[q].sig = m[to[q]].sig /\ n[q].owner = m[q].owner /\ n[q].size = NextMcb(m, to[q]) - q - 1
    BY <2>2 DEF Header
  <2>8. NextMcb(n, q) = NextMcb(m, to[q])
    <3>1. NextMcb(n, q) = q + 1 + (NextMcb(m, to[q]) - q - 1)
      BY <2>7 DEF NextMcb
    <3> QED
      BY <2>1, <2>3, <3>1
  <2> QED
    BY <2>2, <2>3, <2>6, <2>7, <2>8
<1>3. \A q \in Paras \ S : n[q] = m[q]
  BY DEF Merged
<1>4. \A q \in Paras : n[q] \in Headers /\ NextMcb(n, q) <= Top /\ n[q].owner = m[q].owner
  <2>1. ASSUME NEW q \in Paras \ S
        PROVE  n[q] \in Headers /\ NextMcb(n, q) <= Top /\ n[q].owner = m[q].owner
    <3>1. m[q] \in Headers /\ NextMcb(m, q) <= Top /\ n[q] = m[q]
      BY <1>1, <1>3, NextIs
    <3> QED
      BY <3>1 DEF NextMcb
  <2> QED
    BY <1>2, <2>1
<1>5. MemOK(n)
  <2>1. n = [q \in Paras |-> n[q]]
    BY DEF Merged
  <2>2. n \in [Paras -> Headers]
    <3> HIDE DEF D
    <3> QED
      BY <1>4, <2>1
  <2> QED
    BY <1>4, <2>2 DEF MemOK
<1>6. FirstMcb \in D
  <2>1. ASSUME NEW p \in S, p < FirstMcb
        PROVE  FALSE
    <3>1. p \in Paras /\ p \in Nat
      BY <1>0, <1>1
    <3> QED
      BY <2>1, <3>1 DEF FirstMcb
  <2> QED
    BY <1>1, <2>1 DEF Swallowed
<1>7. S \subseteq D
  BY <1>0
(* Behind what is left of a merge nothing of it is swallowed.              *)
<1>8. ASSUME NEW q \in D, NEW l \in Chain(m), l = IF q \in S THEN to[q] ELSE q,
             NextMcb(m, l) \in Chain(m)
      PROVE  NextMcb(m, l) \in D
  <2> SUFFICES ASSUME NEW p \in S, p < NextMcb(m, l), NextMcb(m, l) <= to[p]
               PROVE  FALSE
    BY <1>8 DEF Swallowed
  <2>1. /\ p \in Nat /\ q \in Nat /\ l \in Nat /\ to[p] \in Nat /\ l >= q
        /\ NextMcb(m, l) \in Nat /\ NextMcb(m, l) > l
    BY <1>0, <1>1, <1>8, ChainOrder
  <2>2. p <= l
    <3>1. p > l => p >= NextMcb(m, l)
      BY <1>0, ChainOrder
    <3> QED
      BY <2>1, <3>1
  <2>3. ~ (p < q /\ q <= to[p])
    BY <1>8 DEF Swallowed
  <2>4. q <= p
    BY <2>1, <2>3
  <2>5. CASE q = p
    BY <1>8, <2>1, <2>5
  <2>6. CASE q < p
    <3>1. q \in S /\ l = to[q]
      BY <1>8, <2>1, <2>2, <2>6
    <3>2. Swallowed(S, to, p)
      BY <2>2, <2>6, <3>1 DEF Swallowed
    <3> QED
      BY <1>0, <3>2
  <2> QED
    BY <2>1, <2>4, <2>5, <2>6
<1>9. ASSUME NEW q \in D
      PROVE  /\ n[q].sig \in Signatures
             /\ n[q].sig = "M" => NextMcb(n, q) \in D
             /\ n[q].sig = "Z" => NextMcb(n, q) = Top
             /\ \A r \in D : q < r => NextMcb(n, q) <= r
  <2>1. PICK l \in Chain(m) : l = IF q \in S THEN to[q] ELSE q
    BY <1>0
  <2>2. n[q].sig = m[l].sig /\ NextMcb(n, q) = NextMcb(m, l)
    <3>1. CASE q \in S
      BY <1>2, <2>1, <3>1
    <3>2. CASE q \notin S
      <4>1. n[q] = m[q]
        BY <1>1, <1>3, <3>2
      <4> QED
        BY <2>1, <3>2, <4>1 DEF NextMcb
    <3> QED
      BY <3>1, <3>2
  <2>3. m[l].sig \in Signatures /\ (m[l].sig = "M" <=> NextMcb(m, l) \in Chain(m))
        /\ (m[l].sig = "Z" <=> NextMcb(m, l) = Top)
    BY ChainOrder
  <2>4. ASSUME NEW r \in D, q < r
        PROVE  NextMcb(n, q) <= r
    <3>1. q \in Nat /\ r \in Nat /\ l \in Nat
      BY <1>1
    <3>2. r > l
      <4>1. CASE q \in S
        <5>1. ~ (q < r /\ r <= to[q])
          BY <4>1 DEF Swallowed
        <5> QED
          BY <2>1, <2>4, <3>1, <4>1, <5>1
      <4>2. CASE q \notin S
        BY <2>1, <2>4, <4>2
      <4> QED
        BY <4>1, <4>2
    <3>3. r >= NextMcb(m, l)
      BY <3>2, ChainOrder
    <3>4. NextMcb(m, l) \in Nat
      BY ChainOrder
    <3> QED
      BY <2>2, <3>1, <3>3, <3>4
  <2> QED
    BY <1>8, <2>1, <2>2, <2>3, <2>4
<1>10. Tiles(n, D)
  <2>1. D \subseteq Paras
    BY <1>1
  <2> HIDE DEF D
  <2> QED
    BY <1>6, <1>9, <2>1 DEF Tiles
<1>11. Good(n) /\ Chain(n) = D
  <2> HIDE DEF D
  <2> QED
    BY <1>5, <1>10, GoodIs
<1> QED
  BY <1>2, <1>3, <1>4, <1>11

(* What Cut writes: the block's header and, if there is more, the tail's.  *)
CutTo(m, p, sig, total, size) ==
    [q \in Paras |->
        IF q = p THEN Header(IF total > size THEN "M" ELSE sig, m[p].owner,
                             IF total > size THEN size ELSE total)
        ELSE IF total > size /\ q = p + 1 + size THEN Header(sig, Free, total - size - 1)
        ELSE m[q]]

LEMMA CutIs ==
    ASSUME NEW m, m \in [Paras -> Headers], NEW p \in Paras, NEW sig, NEW total \in Nat, NEW size \in Nat
    PROVE  Cut(m, p, sig, total, size) = CutTo(m, p, sig, total, size)
<1>1. p \in Nat /\ p + 1 + size # p
  BY ParasAre
<1>2. \A s, z : [m[p] EXCEPT !.sig = s, !.size = z] = Header(s, m[p].owner, z)
  <2>1. m[p] \in Headers
    OBVIOUS
  <2>2. m[p] = [sig |-> m[p].sig, owner |-> m[p].owner, size |-> m[p].size]
    BY <2>1 DEF Headers
  <2>3. ASSUME NEW s, NEW z
        PROVE  [m[p] EXCEPT !.sig = s, !.size = z] = [sig |-> s, owner |-> m[p].owner, size |-> z]
    <3>1. PICK h : h = m[p]
      OBVIOUS
    <3>2. PICK h1 : h1 = [h EXCEPT !.sig = s]
      OBVIOUS
    <3>3. PICK h2 : h2 = [h1 EXCEPT !.size = z]
      OBVIOUS
    <3>4. h \in [sig : {h.sig}, owner : {h.owner}, size : {h.size}]
      BY <2>2, <3>1
    <3>5. h1 \in [sig : {s}, owner : {h.owner}, size : {h.size}]
      BY <3>2, <3>4
    <3>6. h2 \in [sig : {s}, owner : {h.owner}, size : {z}]
      BY <3>3, <3>5
    <3>7. h2 = [sig |-> s, owner |-> h.owner, size |-> z]
      BY <3>6
    <3> QED
      BY <3>1, <3>2, <3>3, <3>7
  <2> QED
    BY <2>3 DEF Header
<1>3. CASE total > size
  <2>1. Cut(m, p, sig, total, size)
          = [m EXCEPT ![p + 1 + size] = Header(sig, Free, total - size - 1),
                      ![p].sig = "M", ![p].size = size]
    BY <1>3 DEF Cut
  <2>2. PICK n : n = [m EXCEPT ![p + 1 + size] = Header(sig, Free, total - size - 1),
                               ![p].sig = "M", ![p].size = size]
    OBVIOUS
  <2>3. n = [q \in Paras |-> n[q]]
    BY <2>2
  <2>4. n[p] = Header("M", m[p].owner, size)
    <3>1. n[p] = [m[p] EXCEPT !.sig = "M", !.size = size]
      BY <1>1, <2>2
    <3> QED
      BY <1>2, <3>1
  <2>5. \A q \in Paras : q # p /\ q = p + 1 + size => n[q] = Header(sig, Free, total - size - 1)
    BY <1>1, <2>2
  <2>6. \A q \in Paras : q # p /\ q # p + 1 + size => n[q] = m[q]
    BY <1>1, <2>2
  <2>7. \A q \in Paras : n[q] = CutTo(m, p, sig, total, size)[q]
    BY <1>3, <2>4, <2>5, <2>6 DEF CutTo
  <2>8. CutTo(m, p, sig, total, size) = [q \in Paras |-> CutTo(m, p, sig, total, size)[q]]
    BY DEF CutTo
  <2> QED
    BY <2>1, <2>2, <2>3, <2>7, <2>8
<1>4. CASE ~ (total > size)
  <2>1. Cut(m, p, sig, total, size) = [m EXCEPT ![p].sig = sig, ![p].size = total]
    BY <1>4 DEF Cut
  <2>2. PICK n : n = [m EXCEPT ![p].sig = sig, ![p].size = total]
    OBVIOUS
  <2>3. n = [q \in Paras |-> n[q]]
    BY <2>2
  <2>4. n[p] = Header(sig, m[p].owner, total)
    <3>1. n[p] = [m[p] EXCEPT !.sig = sig, !.size = total]
      BY <2>2
    <3> QED
      BY <1>2, <3>1
  <2>5. \A q \in Paras : q # p => n[q] = m[q]
    BY <2>2
  <2>6. \A q \in Paras : n[q] = CutTo(m, p, sig, total, size)[q]
    BY <1>4, <2>4, <2>5 DEF CutTo
  <2>7. CutTo(m, p, sig, total, size) = [q \in Paras |-> CutTo(m, p, sig, total, size)[q]]
    BY DEF CutTo
  <2> QED
    BY <2>1, <2>2, <2>3, <2>6, <2>7
<1> QED
  BY <1>3, <1>4

(* A block cut down to size or left as it is.                              *)
LEMMA SplitIs ==
    ASSUME NEW m, Good(m), NEW p \in Chain(m), NEW size \in Nat, size <= m[p].size,
           NEW n, n = CutTo(m, p, m[p].sig, m[p].size, size)
    PROVE  /\ Good(n) /\ p \in Chain(n) /\ AgreeBut(m, n, p)
           /\ n[p].size = size /\ n[p].owner = m[p].owner
           /\ size < m[p].size =>
                 /\ p + 1 + size \in Chain(n)
                 /\ n[p + 1 + size] = Header(m[p].sig, Free, m[p].size - size - 1)
<1>1. /\ p \in Paras /\ p \in Nat /\ m[p] \in Headers /\ m[p].size \in Nat
      /\ NextMcb(m, p) \in Nat /\ NextMcb(m, p) > p /\ NextMcb(m, p) <= Top
      /\ NextMcb(m, p) = p + 1 + m[p].size
      /\ m[p].sig \in Signatures /\ m[p].sig \in Signatures \cup {"-"}
      /\ m[p].owner \in BlockOwners \cup {Free} /\ Free \in BlockOwners \cup {Free}
  BY ChainOrder DEF Headers
<1>2. /\ m \in [Paras -> Headers] /\ MemOK(m) /\ Chain(m) \subseteq Paras /\ Paras \subseteq Nat
      /\ Top \in Nat /\ Top \notin Paras
      /\ \A q \in Nat : q \in Paras <=> q < Top
  BY ParasAre, MemoryAssumption DEF Good, Tiles, MemOK
<1>3. CASE size = m[p].size
  <2>1. n[p] = Header(m[p].sig, m[p].owner, m[p].size)
    BY <1>1, <1>3 DEF CutTo
  <2>2. m[p] = Header(m[p].sig, m[p].owner, m[p].size)
    BY <1>1 DEF Headers, Header
  <2>3. \A q \in Paras : q # p => n[q] = m[q]
    BY <1>1, <1>3 DEF CutTo
  <2>4. n = [q \in Paras |-> n[q]] /\ m = [q \in Paras |-> m[q]]
    BY <1>2 DEF CutTo
  <2>5. n = m
    BY <2>1, <2>2, <2>3, <2>4
  <2>6. ~ (size < m[p].size)
    BY <1>1, <1>3
  <2> QED
    BY <1>3, <2>5, <2>6 DEF AgreeBut
<1>4. CASE size < m[p].size
  <2>1. PICK x : x = p + 1 + size
    OBVIOUS
  <2>2. x \in Nat /\ x > p /\ x < NextMcb(m, p) /\ x \in Paras /\ x # p
    BY <1>1, <1>2, <1>4, <2>1
  <2>3. n[p] = Header("M", m[p].owner, size)
    BY <1>1, <1>4 DEF CutTo
  <2>4. n[x] = Header(m[p].sig, Free, m[p].size - size - 1)
    BY <1>1, <1>4, <2>1, <2>2 DEF CutTo
  <2>5. \A q \in Paras : q # p /\ q # x => n[q] = m[q]
    BY <1>4, <2>1 DEF CutTo
  <2>6. NextMcb(n, p) = x
    BY <2>1, <2>3 DEF NextMcb, Header
  <2>7. NextMcb(n, x) = NextMcb(m, p)
    BY <1>1, <1>4, <2>1, <2>2, <2>4 DEF NextMcb, Header
  <2>8. x \notin Chain(m)
    <3>1. x \in Chain(m) => x >= NextMcb(m, p)
      BY <2>2, ChainOrder
    <3> QED
      BY <1>1, <2>2, <3>1
  <2>9. MemOK(n)
    <3>1. n[p] \in Headers
      BY <1>1, <1>2, <1>4, <2>3 DEF Header, Headers, Signatures
    <3>2. n[x] \in Headers
      <4>1. m[p].size - size - 1 \in 0 .. Top
        BY <1>1, <1>2, <1>4
      <4> QED
        BY <1>1, <2>4, <4>1 DEF Header, Headers
    <3>3. \A q \in Paras : n[q] \in Headers
      BY <1>2, <2>5, <3>1, <3>2
    <3>4. n = [q \in Paras |-> n[q]]
      BY DEF CutTo
    <3>5. n \in [Paras -> Headers]
      BY <3>3, <3>4
    <3>6. ASSUME NEW q \in Paras
          PROVE  NextMcb(n, q) <= Top
      <4>1. CASE q = p
        BY <1>1, <1>2, <2>2, <2>6, <4>1
      <4>2. CASE q = x
        BY <1>1, <2>7, <4>2
      <4>3. CASE q # p /\ q # x
        <5>1. n[q] = m[q]
          BY <2>5, <4>3
        <5> QED
          BY <1>2, <5>1 DEF MemOK, NextMcb
      <4> QED
        BY <4>1, <4>2, <4>3
    <3> QED
      BY <3>5, <3>6 DEF MemOK
  <2>10. ASSUME NEW q \in Chain(m), q # p
         PROVE  n[q] = m[q] /\ NextMcb(n, q) = NextMcb(m, q) /\ q \in Nat /\ q # x
    <3>1. n[q] = m[q] /\ q # x
      BY <1>2, <2>5, <2>8, <2>10
    <3> QED
      BY <1>2, <3>1 DEF NextMcb
  <2>11. PICK D : D = Chain(m) \cup {x}
    OBVIOUS
  <2>12. D \subseteq Paras /\ FirstMcb \in D
    BY <1>2, <2>2, <2>11 DEF Good, Tiles
  <2>13. ASSUME NEW q \in D
         PROVE  /\ n[q].sig \in Signatures
                /\ n[q].sig = "M" => NextMcb(n, q) \in D
                /\ n[q].sig = "Z" => NextMcb(n, q) = Top
    <3>1. CASE q = p
      BY <2>3, <2>6, <2>11, <3>1 DEF Header, Signatures
    <3>2. CASE q = x
      <4>1. n[q].sig = m[p].sig /\ NextMcb(n, q) = NextMcb(m, p)
        BY <2>4, <2>7, <3>2 DEF Header
      <4> QED
        BY <2>11, <4>1, ChainOrder
    <3>3. CASE q # p /\ q # x
      <4>1. q \in Chain(m)
        BY <2>11, <3>3
      <4>2. n[q].sig = m[q].sig /\ NextMcb(n, q) = NextMcb(m, q)
        BY <2>10, <3>3, <4>1
      <4> QED
        BY <2>11, <4>1, <4>2, ChainOrder
    <3> QED
      BY <3>1, <3>2, <3>3
  <2>14. ASSUME NEW q \in D, NEW r \in D, q < r
         PROVE  NextMcb(n, q) <= r
    <3>1. CASE q = p
      <4>1. CASE r = x
        BY <2>2, <2>6, <3>1, <4>1
      <4>2. CASE r # x
        <5>1. r \in Chain(m) /\ r \in Nat
          BY <1>2, <2>11, <4>2
        <5>2. r >= NextMcb(m, p)
          BY <2>14, <3>1, <5>1, ChainOrder
        <5> QED
          BY <1>1, <2>2, <2>6, <3>1, <5>1, <5>2
      <4> QED
        BY <4>1, <4>2
    <3>2. CASE q = x
      <4>1. r \in Chain(m) /\ r \in Nat
        BY <1>2, <2>2, <2>11, <2>14, <3>2
      <4>2. r > p
        BY <1>1, <2>2, <2>14, <3>2, <4>1
      <4>3. r >= NextMcb(m, p)
        BY <4>1, <4>2, ChainOrder
      <4> QED
        BY <1>1, <2>7, <3>2, <4>1, <4>3
    <3>3. CASE q # p /\ q # x
      <4>1. q \in Chain(m) /\ q \in Nat /\ NextMcb(n, q) = NextMcb(m, q)
            /\ NextMcb(m, q) \in Nat
        BY <1>2, <2>10, <2>11, <3>3, ChainOrder
      <4>2. CASE r = x
        <5>1. q < p
          <6>1. q > p => q >= NextMcb(m, p)
            BY <4>1, ChainOrder
          <6> QED
            BY <1>1, <2>2, <2>14, <3>3, <4>1, <4>2, <6>1
        <5>2. NextMcb(m, q) <= p
          BY <1>1, <4>1, <5>1, ChainOrder
        <5> QED
          BY <1>1, <2>2, <4>1, <4>2, <5>2
      <4>3. CASE r # x
        <5>1. r \in Chain(m) /\ r \in Nat
          BY <1>2, <2>11, <4>3
        <5>2. r >= NextMcb(m, q)
          BY <2>14, <4>1, <5>1, ChainOrder
        <5> QED
          BY <4>1, <5>1, <5>2
      <4> QED
        BY <4>2, <4>3
    <3> QED
      BY <3>1, <3>2, <3>3
  <2>15. Tiles(n, D)
    BY <2>12, <2>13, <2>14 DEF Tiles
  <2>16. Good(n) /\ Chain(n) = D
    BY <2>9, <2>15, GoodIs
  <2>17. AgreeBut(m, n, p)
    <3> SUFFICES ASSUME NEW q \in Paras, q # p
                 PROVE  /\ Used(m, q) <=> Used(n, q)
                        /\ Used(m, q) => n[q].size = m[q].size /\ n[q].owner = m[q].owner
      BY DEF AgreeBut
    <3>1. CASE q = x
      <4>1. n[q].owner = Free
        BY <2>4, <3>1 DEF Header
      <4> QED
        BY <2>8, <3>1, <4>1 DEF Used
    <3>2. CASE q # x
      <4>1. n[q] = m[q] /\ (q \in Chain(n) <=> q \in Chain(m))
        BY <2>5, <2>11, <2>16, <3>2
      <4> QED
        BY <4>1 DEF Used
    <3> QED
      BY <3>1, <3>2
  <2>18. n[p].size = size /\ n[p].owner = m[p].owner
    BY <2>3 DEF Header
  <2> QED
    BY <2>1, <2>4, <2>11, <2>16, <2>17, <2>18
<1> QED
  BY <1>1, <1>3, <1>4

(* A header's owner written.                                               *)
Given(m, p, owner) == [m EXCEPT ![p].owner = owner]

LEMMA OwnerIs ==
    ASSUME NEW m, Good(m), NEW p \in Paras, NEW owner \in BlockOwners \cup {Free},
           NEW n, n = Given(m, p, owner)
    PROVE  /\ Good(n) /\ Chain(n) = Chain(m) /\ AgreeBut(m, n, p)
           /\ n[p] = Header(m[p].sig, owner, m[p].size)
           /\ \A q \in Paras : q # p => n[q] = m[q]
           /\ \A q \in Paras : NextMcb(n, q) = NextMcb(m, q) /\ n[q].sig = m[q].sig /\ n[q].size = m[q].size
<1>1. m \in [Paras -> Headers] /\ m[p] \in Headers /\ Chain(m) \subseteq Paras
      /\ n = [m EXCEPT ![p].owner = owner]
  BY DEF Good, MemOK, Tiles, Given
<1>2. \A q \in Paras : q # p => n[q] = m[q]
  BY <1>1
<1>3. n[p] = [m[p] EXCEPT !.owner = owner]
  BY <1>1
<1>4. n[p] \in Headers /\ n[p].owner = owner /\ n[p].sig = m[p].sig /\ n[p].size = m[p].size
  BY <1>1, <1>3 DEF Headers
<1>5. n[p] = Header(m[p].sig, owner, m[p].size)
  BY <1>4 DEF Headers, Header
<1>6. \A q \in Paras : n[q] \in Headers /\ NextMcb(n, q) = NextMcb(m, q)
                       /\ n[q].sig = m[q].sig /\ n[q].size = m[q].size
  BY <1>1, <1>2, <1>4 DEF NextMcb
<1>7. MemOK(n)
  <2>1. n = [q \in Paras |-> n[q]]
    BY <1>1
  <2>2. n \in [Paras -> Headers]
    BY <1>6, <2>1
  <2> QED
    BY <1>6, <2>2 DEF Good, MemOK
<1>8. Good(n) /\ Chain(n) = Chain(m)
  BY <1>1, <1>6, <1>7, ChainKept
<1> QED
  BY <1>2, <1>5, <1>6, <1>8 DEF AgreeBut, Used

(* An allocated block given to another owner.                              *)
LEMMA GivenIs ==
    ASSUME NEW m, Good(m), NEW b \in Blocks(m), NEW owner \in BlockOwners,
           NEW n, n = Given(m, b.base - 1, owner)
    PROVE  /\ Good(n) /\ Chain(n) = Chain(m)
           /\ Blocks(n) = {c \in Blocks(m) : c.base # b.base}
                          \cup {[base |-> b.base, size |-> b.size, owner |-> owner]}
<1>1. PICK p \in Paras : p = b.base - 1
  BY BlockIs
<1>2. p \in Chain(m) /\ b.base = p + 1 /\ m[p].size = b.size
  BY <1>1, BlockIs
<1>3. /\ Good(n) /\ Chain(n) = Chain(m) /\ AgreeBut(m, n, p)
      /\ n[p] = Header(m[p].sig, owner, m[p].size)
  <2>1. n = Given(m, p, owner)
    BY <1>1
  <2>2. owner \in BlockOwners \cup {Free}
    OBVIOUS
  <2> QED
    BY <1>1, <2>1, <2>2, OwnerIs
<1>4. n[p].owner = owner /\ n[p].size = b.size
  BY <1>2, <1>3 DEF Header
<1>5. Used(n, p)
  BY <1>2, <1>3, <1>4, MemoryAssumption DEF Used, BlockOwners, Free, FirstMcb
<1>6. Blocks(n) = {c \in Blocks(m) : c.base # p + 1} \cup {BlockAt(n, p)}
  BY <1>3, <1>5, BlocksAgreeBut
<1>7. BlockAt(n, p) = [base |-> b.base, size |-> b.size, owner |-> owner]
  BY <1>2, <1>4 DEF BlockAt
<1> QED
  BY <1>2, <1>3, <1>6, <1>7

(* Data written over paragraphs of a block leaves the chain alone.         *)
LEMMA OverwriteIs ==
    ASSUME NEW m, Good(m), NEW b \in Blocks(m), NEW ps,
           \A p \in Paras : p \in ps => b.base <= p /\ p < b.base + b.size,
           NEW n, n = Overwrite(m, ps)
    PROVE  Good(n) /\ Chain(n) = Chain(m) /\ Blocks(n) = Blocks(m)
<1>1. m \in [Paras -> Headers] /\ Chain(m) \subseteq Paras /\ Top \in Nat /\ MemOK(m)
      /\ Paras \subseteq Nat /\ \A p \in Nat : p \in Paras <=> p < Top
  BY ParasAre, MemoryAssumption DEF Good, MemOK, Tiles
<1>2. /\ b.base - 1 \in Chain(m) /\ b.base \in Nat /\ b.size \in Nat
      /\ b.base + b.size = NextMcb(m, b.base - 1)
  BY BlockIs
<1>3. ASSUME NEW q \in Chain(m)
      PROVE  n[q] = m[q]
  <2>1. q \in Paras /\ q \in Nat
    BY <1>1
  <2>2. q > b.base - 1 => q >= b.base + b.size
    BY <1>2, ChainOrder
  <2>3. q \notin ps
    BY <1>2, <2>1, <2>2
  <2> QED
    BY <2>1, <2>3 DEF Overwrite
<1>4. Data \in Headers /\ Data.size = 0
  BY <1>1 DEF Data, Header, Headers
<1>5. ASSUME NEW q \in Paras
      PROVE  n[q] \in Headers /\ NextMcb(n, q) <= Top
  <2>1. CASE q \in ps
    <3>1. n[q] = Data
      BY <2>1 DEF Overwrite
    <3>2. NextMcb(n, q) = q + 1 + 0
      BY <1>4, <3>1 DEF NextMcb
    <3> QED
      BY <1>1, <1>4, <3>1, <3>2
  <2>2. CASE q \notin ps
    <3>1. n[q] = m[q]
      BY <2>2 DEF Overwrite
    <3> QED
      BY <1>1, <3>1 DEF MemOK, NextMcb
  <2> QED
    BY <2>1, <2>2
<1>6. MemOK(n)
  <2>1. n = [q \in Paras |-> n[q]]
    BY DEF Overwrite
  <2>2. n \in [Paras -> Headers]
    BY <1>5, <2>1
  <2> QED
    BY <1>5, <2>2 DEF MemOK
<1>7. Good(n) /\ Chain(n) = Chain(m)
  BY <1>3, <1>6, ChainKept
<1>8. Agree(m, n)
  BY <1>3, <1>7 DEF Agree, AgreeBut, Used
<1> QED
  BY <1>7, <1>8, BlocksAgree

(* A block made to reach to the end of one behind it, all between free.    *)
Reaching(m, p, l) ==
    [q \in Paras |-> IF q = p THEN Header(m[l].sig, m[p].owner, NextMcb(m, l) - p - 1) ELSE m[q]]

LEMMA ReachingIs ==
    ASSUME NEW m, Good(m), NEW p \in Chain(m), NEW l \in Chain(m), p <= l,
           \A r \in Chain(m) : p < r /\ r <= l => m[r].owner = Free,
           NEW n, n = Reaching(m, p, l)
    PROVE  /\ Good(n) /\ p \in Chain(n) /\ AgreeBut(m, n, p)
           /\ n[p] = Header(m[l].sig, m[p].owner, NextMcb(m, l) - p - 1)
<1> DEFINE to == [q \in {p} |-> l]
<1>1. Chain(m) \subseteq Paras /\ Paras \subseteq Nat
  BY ParasAre DEF Good, Tiles
<1>2. to[p] = l
  OBVIOUS
<1>3. n = Merged(m, {p}, to)
  BY DEF Reaching, Merged
<1> HIDE DEF to
<1>4. \A q : Swallowed({p}, to, q) <=> p < q /\ q <= l
  BY <1>2 DEF Swallowed
<1>5. ~ Swallowed({p}, to, p)
  <2>1. p \in Nat
    BY <1>1
  <2>2. ~ (p < p)
    BY <2>1
  <2> QED
    BY <1>4, <2>2
<1>6. {p} \in SUBSET Chain(m)
  OBVIOUS
<1>7. /\ \A q \in {p} : to[q] \in Chain(m) /\ to[q] >= q
      /\ \A q \in {p} : ~ Swallowed({p}, to, q)
  BY <1>1, <1>2, <1>5
<1>8. PICK S : S = {p}
  OBVIOUS
<1>9. /\ Good(n) /\ Chain(n) = {q \in Chain(m) : ~ Swallowed({p}, to, q)}
      /\ \A q \in Paras \ {p} : n[q] = m[q]
  <2>1. /\ Good(n) /\ Chain(n) = {q \in Chain(m) : ~ Swallowed(S, to, q)}
        /\ \A q \in Paras \ S : n[q] = m[q]
    <3>1. Mergers(m, S, to) /\ n = Merged(m, S, to)
      BY <1>3, <1>6, <1>7, <1>8 DEF Mergers
    <3> QED
      BY <3>1, MergedIs
  <2> QED
    BY <1>8, <2>1
<1>10. p \in Chain(n)
  BY <1>5, <1>9
<1>11. AgreeBut(m, n, p)
  <2> SUFFICES ASSUME NEW q \in Paras, q # p
               PROVE  /\ Used(m, q) <=> Used(n, q)
                      /\ Used(m, q) => n[q].size = m[q].size /\ n[q].owner = m[q].owner
    BY DEF AgreeBut
  <2>1. n[q] = m[q]
    BY <1>9
  <2>2. q \in Chain(n) <=> q \in Chain(m) /\ ~ (p < q /\ q <= l)
    BY <1>4, <1>9
  <2> QED
    BY <2>1, <2>2 DEF Used
<1>12. n[p] = Header(m[l].sig, m[p].owner, NextMcb(m, l) - p - 1)
  BY <1>1 DEF Reaching
<1> QED
  BY <1>9, <1>10, <1>11, <1>12

-----------------------------------------------------------------------------
(* The calls, as what they do to the allocated blocks.                     *)

(* AH=49h, on a block or on a stale header: no other block is touched.     *)
LEMMA FreeIs ==
    ASSUME NEW m, Good(m), NEW segment \in Int, segment - 1 \in Paras,
           NEW n, n = DosMcbFree(m, segment)
    PROVE  Good(n) /\ Blocks(n) = {b \in Blocks(m) : b.base # segment}
<1>1. PICK p \in Paras : p = segment - 1
  OBVIOUS
<1>2. /\ Chain(m) \subseteq Paras /\ Paras \subseteq Nat /\ MemOK(m) /\ p \in Nat /\ segment = p + 1
      /\ Top \in Nat /\ Top \notin Paras
  BY <1>1, ParasAre, MemoryAssumption DEF Good, Tiles
<1>3. PICK f : f = Given(m, p, Free)
  OBVIOUS
<1>4. Free \in BlockOwners \cup {Free}
  OBVIOUS
<1>5. /\ Good(f) /\ Chain(f) = Chain(m) /\ AgreeBut(m, f, p)
      /\ f[p] = Header(m[p].sig, Free, m[p].size)
      /\ \A q \in Paras : q # p => f[q] = m[q]
  BY <1>3, <1>4, OwnerIs
<1>6. n = IF m[p].sig \in Signatures THEN [f EXCEPT ![p] = Coalesced(f, p)] ELSE m
  BY <1>1, <1>3 DEF DosMcbFree, Given
<1>7. PICK l : Ends(f, l)
  BY <1>5, EndsExist DEF Good
<1>8. PICK z : z = l[p]
  OBVIOUS
<1>9. /\ z \in Paras /\ z >= p /\ z \in Nat
      /\ Coalesced(f, p) = Header(f[z].sig, f[p].owner, NextMcb(f, z) - p - 1)
      /\ p \in Chain(f) => /\ z \in Chain(f)
                           /\ \A r \in Chain(f) : p < r /\ r <= z => f[r].owner = Free
  BY <1>2, <1>7, <1>8 DEF Ends
<1>10. f[p].owner = Free
  BY <1>5 DEF Header
<1>11. f \in [Paras -> Headers] /\ MemOK(f)
  BY <1>5 DEF Good, MemOK
<1>12. CASE m[p].sig \notin Signatures
  <2>1. n = m /\ p \notin Chain(m)
    BY <1>6, <1>12, ChainOrder
  <2>2. \A b \in Blocks(m) : b.base # segment
    BY <1>1, <2>1, BlockIs
  <2> QED
    BY <2>1, <2>2
<1>13. CASE m[p].sig \in Signatures /\ p \in Chain(m)
  <2>1. n = Reaching(f, p, z)
    BY <1>6, <1>9, <1>11, <1>13 DEF Reaching
  <2>2. \A r \in Chain(f) : p < r /\ r <= z => f[r].owner = Free
    BY <1>5, <1>9, <1>13
  <2>3. p \in Chain(f) /\ z \in Chain(f) /\ p <= z
    BY <1>2, <1>5, <1>9, <1>13
  <2>4. /\ Good(n) /\ p \in Chain(n) /\ AgreeBut(f, n, p)
        /\ n[p] = Header(f[z].sig, f[p].owner, NextMcb(f, z) - p - 1)
    BY <1>5, <2>1, <2>2, <2>3, ReachingIs
  <2>5. AgreeBut(m, n, p)
    BY <1>5, <2>4, AgreeTwice
  <2>6. ~ Used(n, p)
    BY <1>10, <2>4 DEF Header, Used
  <2> QED
    BY <1>2, <2>4, <2>5, <2>6, BlocksAgreeBut
<1>14. CASE m[p].sig \in Signatures /\ p \notin Chain(m)
  <2>1. n = [f EXCEPT ![p] = Coalesced(f, p)]
    BY <1>6, <1>14
  <2>2. PICK h : h = Coalesced(f, p)
    OBVIOUS
  <2>3. /\ NextMcb(f, z) \in Nat /\ NextMcb(f, z) > z /\ NextMcb(f, z) <= Top /\ f[z] \in Headers
    BY <1>9, <1>11, NextIs
  <2>4. NextMcb(f, z) - p - 1 \in 0 .. Top
    BY <1>2, <1>9, <2>3
  <2>5. h \in Headers /\ h.size = NextMcb(f, z) - p - 1
    BY <1>9, <1>10, <2>2, <2>3, <2>4 DEF Header, Headers
  <2>6. n[p] = h /\ (\A q \in Paras : q # p => n[q] = f[q]) /\ n = [q \in Paras |-> n[q]]
    BY <1>11, <2>1, <2>2
  <2>7. NextMcb(n, p) <= Top
    <3>1. NextMcb(n, p) = p + 1 + (NextMcb(f, z) - p - 1)
      BY <2>5, <2>6 DEF NextMcb
    <3> QED
      BY <1>2, <2>3, <3>1
  <2>8. \A q \in Paras : n[q] \in Headers /\ NextMcb(n, q) <= Top
    BY <1>11, <2>5, <2>6, <2>7 DEF MemOK, NextMcb
  <2>9. MemOK(n)
    <3>1. n \in [Paras -> Headers]
      BY <2>6, <2>8
    <3> QED
      BY <2>8, <3>1 DEF MemOK
  <2>10. \A q \in Chain(f) : n[q] = f[q]
    BY <1>2, <1>5, <1>14, <2>6
  <2>11. Good(n) /\ Chain(n) = Chain(f)
    BY <1>5, <2>9, <2>10, ChainKept
  <2>12. Agree(f, n)
    BY <2>10, <2>11 DEF Agree, AgreeBut, Used
  <2>13. Blocks(n) = Blocks(f)
    BY <1>5, <2>11, <2>12, BlocksAgree
  <2>14. ~ Used(f, p)
    BY <1>5, <1>14 DEF Used
  <2> QED
    BY <1>2, <1>5, <2>11, <2>13, <2>14, BlocksAgreeBut
<1> QED
  BY <1>12, <1>13, <1>14

Resized(b, size) == [base |-> b.base, size |-> size, owner |-> b.owner]

(* AH=4Ah.                                                                 *)
LEMMA ResizeIs ==
    ASSUME NEW m, Good(m), NEW b \in Blocks(m), NEW size \in Nat,
           NEW n, n = DosMcbResize(m, b.base, size).mem
    PROVE  /\ Good(n)
           /\ \/ Blocks(n) = Blocks(m)
              \/ Blocks(n) = {c \in Blocks(m) : c.base # b.base} \cup {Resized(b, size)}
<1>1. PICK p \in Chain(m) : p = b.base - 1
  BY BlockIs
<1>2. /\ p \in Paras /\ p \in Nat /\ m[p].size \in Nat /\ b.base = p + 1
      /\ NextMcb(m, p) = p + 1 + m[p].size /\ NextMcb(m, p) \in Nat
      /\ m[p].owner = b.owner /\ m[p].owner # Free
      /\ m \in [Paras -> Headers] /\ m[p].sig \in Signatures
  BY <1>1, ChainOrder, BlockIs DEF Used, Good, MemOK
(* Cut down, after reaching to the end of the block l if it is to grow.    *)
<1>3. ASSUME NEW l \in Chain(m), p <= l,
             \A r \in Chain(m) : p < r /\ r <= l => m[r].owner = Free,
             size <= NextMcb(m, l) - p - 1,
             n = Cut(m, p, m[l].sig, NextMcb(m, l) - p - 1, size)
      PROVE  Good(n) /\ Blocks(n) = {c \in Blocks(m) : c.base # b.base} \cup {Resized(b, size)}
  <2>1. PICK g : g = Reaching(m, p, l)
    OBVIOUS
  <2>2. /\ Good(g) /\ p \in Chain(g) /\ AgreeBut(m, g, p)
        /\ g[p] = Header(m[l].sig, m[p].owner, NextMcb(m, l) - p - 1)
    BY <1>2, <1>3, <2>1, ReachingIs
  <2>3. /\ g[p].sig = m[l].sig /\ g[p].owner = m[p].owner /\ g[p].size = NextMcb(m, l) - p - 1
    BY <2>2 DEF Header
  <2>4. PICK total : total = NextMcb(m, l) - p - 1
    OBVIOUS
  <2>5. total \in Nat
    BY <1>2, <1>3, <2>4, ChainOrder
  <2>6. n = CutTo(m, p, m[l].sig, total, size)
    BY <1>2, <1>3, <2>4, <2>5, CutIs
  <2>7. \A q \in Paras : q # p => g[q] = m[q]
    BY <2>1 DEF Reaching
  <2>8. n = CutTo(g, p, g[p].sig, g[p].size, size)
    BY <2>3, <2>4, <2>6, <2>7 DEF CutTo
  <2>9. /\ Good(n) /\ p \in Chain(n) /\ AgreeBut(g, n, p)
        /\ n[p].size = size /\ n[p].owner = g[p].owner
    BY <1>3, <2>2, <2>3, <2>8, SplitIs
  <2>10. AgreeBut(m, n, p)
    BY <2>2, <2>9, AgreeTwice
  <2>11. Used(n, p)
    BY <1>2, <2>3, <2>9 DEF Used
  <2>12. Blocks(n) = {c \in Blocks(m) : c.base # p + 1} \cup {BlockAt(n, p)}
    BY <1>2, <2>9, <2>10, <2>11, BlocksAgreeBut
  <2>13. BlockAt(n, p) = Resized(b, size)
    BY <1>2, <2>3, <2>9 DEF BlockAt, Resized
  <2> QED
    BY <1>2, <2>9, <2>12, <2>13
<1>4. CASE size <= m[p].size
  <2>1. n = Cut(m, p, m[p].sig, m[p].size, size)
    <3>1. ~ (size > m[p].size)
      BY <1>2, <1>4
    <3> QED
      BY <1>1, <1>4, <3>1 DEF DosMcbResize
  <2>2. NextMcb(m, p) - p - 1 = m[p].size
    BY <1>2
  <2>3. \A r \in Chain(m) : ~ (p < r /\ r <= p)
    <3>1. \A r \in Nat : ~ (p < r /\ r <= p)
      BY <1>2
    <3> QED
      BY <3>1, ChainOrder
  <2>4. p <= p
    BY <1>2
  <2> QED
    BY <1>3, <1>4, <2>1, <2>2, <2>3, <2>4
<1>5. CASE size > m[p].size /\ size <= Available(m, p)
  <2>1. n = Cut(m, p, m[NextMcb(m, p)].sig, Available(m, p), size)
    <3>1. ~ (size <= m[p].size)
      BY <1>2, <1>5
    <3> QED
      BY <1>1, <1>5, <3>1 DEF DosMcbResize
  <2>2. m[p].sig = "M" /\ m[NextMcb(m, p)].owner = Free
    BY <1>2, <1>5 DEF Available
  <2>3. PICK l \in Chain(m) : l = NextMcb(m, p)
    BY <2>2, ChainOrder
  <2>4. l \in Nat /\ p <= l /\ m[l].size \in Nat /\ NextMcb(m, l) = l + 1 + m[l].size
    BY <1>2, <2>3, ChainOrder
  <2>5. Available(m, p) = NextMcb(m, l) - p - 1
    <3>1. Available(m, p) = m[p].size + 1 + m[l].size
      BY <2>2, <2>3 DEF Available
    <3> QED
      BY <1>2, <2>3, <2>4, <3>1
  <2>6. ASSUME NEW r \in Chain(m), p < r, r <= l
        PROVE  m[r].owner = Free
    <3>1. r \in Nat /\ r >= NextMcb(m, p)
      BY <2>6, ChainOrder
    <3>2. r = l
      BY <2>3, <2>4, <2>6, <3>1
    <3> QED
      BY <2>2, <2>3, <3>2
  <2> QED
    BY <1>3, <1>5, <2>1, <2>3, <2>4, <2>5, <2>6
<1>6. CASE ~ (size <= m[p].size) /\ ~ (size <= Available(m, p))
  <2>1. n = m
    BY <1>1, <1>6 DEF DosMcbResize
  <2> QED
    BY <2>1
<1>7. size <= m[p].size \/ size > m[p].size
  BY <1>2
<1> QED
  BY <1>4, <1>5, <1>6, <1>7

(* The blocks a program leaves, freed one after the other.                 *)
HeldBy(m, owner) == {p \in Chain(m) : m[p].owner = owner}

FreeOne(m, owner) ==
    IF HeldBy(m, owner) = {} THEN m ELSE DosMcbFree(m, Min(HeldBy(m, owner)) + 1)

FreePasses(f, k, m, owner) == f = [i \in 0 .. k |-> IF i = 0 THEN m ELSE FreeOne(f[i - 1], owner)]

LEMMA FreePassesExist ==
    ASSUME NEW m, NEW owner, NEW n \in Nat
    PROVE  \E f : FreePasses(f, n, m, owner)
<1> DEFINE Fits(k, f) == FreePasses(f, k, m, owner)
           Bad == {k \in Nat : ~ \E f : Fits(k, f)}
<1>1. \E f : Fits(0, f)
  <2> DEFINE f == [i \in 0 .. 0 |-> m]
  <2>1. Fits(0, f)
    BY DEF FreePasses
  <2> QED
    BY <2>1
<1>2. ASSUME NEW k \in Nat, \E f : Fits(k, f)
      PROVE  \E f : Fits(k + 1, f)
  <2>1. PICK f : f = [i \in 0 .. k |-> IF i = 0 THEN m ELSE FreeOne(f[i - 1], owner)]
    BY <1>2 DEF FreePasses
  <2> DEFINE g == [i \in 0 .. k + 1 |-> IF i = k + 1 THEN FreeOne(f[k], owner) ELSE f[i]]
  <2>2. ASSUME NEW i \in 0 .. k + 1
        PROVE  g[i] = IF i = 0 THEN m ELSE FreeOne(g[i - 1], owner)
    <3>1. CASE i = k + 1
      <4>1. i # 0 /\ i - 1 = k /\ g[k] = f[k]
        BY <3>1
      <4> QED
        BY <3>1, <4>1
    <3>2. CASE i # k + 1 /\ i # 0
      <4>1. i \in 0 .. k /\ i - 1 \in 0 .. k /\ g[i] = f[i] /\ g[i - 1] = f[i - 1]
        BY <3>2
      <4> QED
        BY <2>1, <3>2, <4>1
    <3>3. CASE i = 0
      BY <2>1, <3>3
    <3> QED
      BY <3>1, <3>2, <3>3
  <2>3. Fits(k + 1, g)
    <3> HIDE DEF g
    <3>1. g = [i \in 0 .. k + 1 |-> g[i]]
      BY DEF g
    <3> QED
      BY <2>2, <3>1 DEF FreePasses
  <2> QED
    BY <2>3
<1> HIDE DEF Fits
<1>3. Bad = {}
  <2> SUFFICES ASSUME Bad # {} PROVE FALSE
    OBVIOUS
  <2>1. PICK k \in Bad : \A i \in Bad : k <= i
    BY LeastNatural
  <2>2. k \in Nat /\ k # 0
    BY <1>1, <2>1
  <2>3. k - 1 \in Nat /\ ~ (k - 1 \in Bad)
    BY <2>1, <2>2
  <2>4. \E f : Fits(k - 1 + 1, f)
    BY <1>2, <2>3
  <2> QED
    BY <2>1, <2>2, <2>4
<1> QED
  BY <1>3 DEF Fits

LEMMA FreeOwnedAre ==
    ASSUME NEW m, NEW owner
    PROVE  \E c : /\ c[0] = m /\ FreeOwned(m, owner) = c[Top]
                  /\ \A i \in 1 .. Top : c[i] = FreeOne(c[i - 1], owner)
<1>1. Top \in Nat
  BY MemoryAssumption
<1>2. PICK f : FreePasses(f, Top, m, owner)
  BY <1>1, FreePassesExist
<1>3. f = [i \in 0 .. Top |->
             IF i = 0 THEN m
             ELSE IF {p \in Chain(f[i - 1]) : f[i - 1][p].owner = owner} = {} THEN f[i - 1]
                  ELSE DosMcbFree(f[i - 1], Min({p \in Chain(f[i - 1]) : f[i - 1][p].owner = owner}) + 1)]
  BY <1>2 DEF FreePasses, FreeOne, HeldBy
<1>4. PICK c : /\ c = [i \in 0 .. Top |->
                         IF i = 0 THEN m
                         ELSE IF {p \in Chain(c[i - 1]) : c[i - 1][p].owner = owner} = {} THEN c[i - 1]
                              ELSE DosMcbFree(c[i - 1], Min({p \in Chain(c[i - 1]) : c[i - 1][p].owner = owner}) + 1)]
               /\ FreeOwned(m, owner) = c[Top]
  BY <1>3 DEF FreeOwned
<1>5. c = [i \in 0 .. Top |-> IF i = 0 THEN m ELSE FreeOne(c[i - 1], owner)]
  BY <1>4 DEF FreeOne, HeldBy
<1>6. ASSUME NEW i \in 1 .. Top
      PROVE  c[i] = FreeOne(c[i - 1], owner)
  <2>1. i \in 0 .. Top /\ i # 0
    BY <1>1
  <2> QED
    BY <1>5, <2>1, Zenon
<1>7. c[0] = m
  BY <1>1, <1>5
<1> QED
  BY <1>4, <1>6, <1>7

(* After i of them, what is left of the owner's lies at i or above.        *)
Passed(m, n, owner, i) ==
    /\ Good(n)
    /\ Blocks(n) \subseteq Blocks(m)
    /\ \A b \in Blocks(m) : b.owner # owner => b \in Blocks(n)
    /\ \A b \in Blocks(n) : b.owner = owner => b.base > i

LEMMA PassIs ==
    ASSUME NEW m, NEW owner \in BlockOwners, NEW i \in Nat, NEW k, Passed(m, k, owner, i)
    PROVE  Passed(m, FreeOne(k, owner), owner, i + 1)
<1>1. PICK n : n = FreeOne(k, owner)
  OBVIOUS
<1>2. Good(k) /\ Chain(k) \subseteq Paras /\ Paras \subseteq Nat /\ owner # Free
  BY ParasAre, MemoryAssumption DEF Passed, Good, Tiles, BlockOwners, Free, FirstMcb
<1>3. CASE HeldBy(k, owner) = {}
  <2>1. n = k
    BY <1>1, <1>3 DEF FreeOne
  <2>2. \A b \in Blocks(k) : b.owner # owner
    BY <1>2, <1>3, BlockIs DEF HeldBy
  <2> QED
    BY <1>1, <2>1, <2>2 DEF Passed
<1>4. CASE HeldBy(k, owner) # {}
  <2>1. PICK S : S = HeldBy(k, owner)
    OBVIOUS
  <2>2. S \subseteq Nat /\ S \subseteq Chain(k)
    BY <1>2, <2>1 DEF HeldBy
  <2>3. PICK p \in S : p = Min(S) /\ \A q \in S : p <= q
    <3>1. \E x \in S : \A y \in S : x <= y
      BY <1>4, <2>1, <2>2, LeastNatural
    <3> QED
      BY <3>1 DEF Min
  <2>4. n = DosMcbFree(k, p + 1)
    BY <1>1, <1>4, <2>1, <2>3 DEF FreeOne
  <2>5. p \in Nat /\ p \in Paras /\ p \in Chain(k) /\ k[p].owner = owner
    BY <1>2, <2>1, <2>2, <2>3 DEF HeldBy
  <2>6. PICK segment \in Int : segment = p + 1 /\ segment - 1 = p
    BY <2>5
  <2>7. Good(n) /\ Blocks(n) = {b \in Blocks(k) : b.base # p + 1}
    BY <1>2, <2>4, <2>5, <2>6, FreeIs
  <2>8. BlockAt(k, p) \in Blocks(k) /\ BlockAt(k, p).base = p + 1 /\ BlockAt(k, p).owner = owner
    BY <1>2, <2>5, BlockAtIs DEF BlockAt
  <2>9. p + 1 > i
    BY <2>8 DEF Passed
  <2>10. ASSUME NEW b \in Blocks(n), b.owner = owner
         PROVE  b.base > i + 1
    <3>1. b \in Blocks(k) /\ b.base # p + 1
      BY <2>7
    <3>2. b.base - 1 \in S /\ b.base \in Nat
      BY <1>2, <2>1, <2>10, <3>1, BlockIs DEF HeldBy
    <3>3. p <= b.base - 1
      BY <2>3, <3>2
    <3> QED
      BY <2>5, <2>9, <3>1, <3>2, <3>3
  <2>11. ASSUME NEW b \in Blocks(m), b.owner # owner
         PROVE  b \in Blocks(n)
    <3>1. b \in Blocks(k)
      BY <2>11 DEF Passed
    <3>2. b.base # p + 1
      BY <1>2, <2>8, <2>11, <3>1, OneBlock
    <3> QED
      BY <2>7, <3>1, <3>2
  <2>12. Blocks(n) \subseteq Blocks(m)
    BY <2>7 DEF Passed
  <2> QED
    BY <1>1, <2>7, <2>10, <2>11, <2>12 DEF Passed
<1> QED
  BY <1>3, <1>4

LEMMA FreeOwnedIs ==
    ASSUME NEW m, Good(m), NEW owner \in BlockOwners, NEW n, n = FreeOwned(m, owner)
    PROVE  Good(n) /\ Blocks(n) = {b \in Blocks(m) : b.owner # owner}
<1>1. PICK c : /\ c[0] = m /\ n = c[Top]
               /\ \A i \in 1 .. Top : c[i] = FreeOne(c[i - 1], owner)
  BY FreeOwnedAre
<1>2. Top \in Nat
  BY MemoryAssumption
<1> DEFINE Bad == {i \in 0 .. Top : ~ Passed(m, c[i], owner, i)}
<1>3. Passed(m, c[0], owner, 0)
  <2>1. \A b \in Blocks(m) : b.base > 0
    BY BlockIs DEF FirstMcb
  <2> QED
    BY <1>1, <2>1 DEF Passed
<1>4. Bad = {}
  <2> SUFFICES ASSUME Bad # {} PROVE FALSE
    OBVIOUS
  <2>1. PICK i \in Bad : \A j \in Bad : i <= j
    <3>1. Bad \subseteq Nat
      OBVIOUS
    <3> HIDE DEF Bad
    <3> QED
      BY <3>1, LeastNatural
  <2>2. i \in 1 .. Top /\ i - 1 \in 0 .. Top /\ i - 1 \in Nat /\ i - 1 + 1 = i
    BY <1>2, <1>3, <2>1
  <2>3. ~ (i - 1 \in Bad)
    BY <2>1, <2>2
  <2>4. Passed(m, c[i - 1], owner, i - 1)
    BY <2>2, <2>3
  <2>5. Passed(m, FreeOne(c[i - 1], owner), owner, i - 1 + 1)
    BY <2>2, <2>4, PassIs
  <2> QED
    BY <1>1, <2>1, <2>2, <2>5
<1>5. Passed(m, n, owner, Top)
  BY <1>1, <1>2, <1>4
<1>6. ASSUME NEW b \in Blocks(n)
      PROVE  b.owner # owner
  <2>1. b.base <= Top /\ b.base \in Nat
    BY <1>2, <1>5, BlockIs DEF Passed, FirstMcb
  <2> QED
    BY <1>2, <1>5, <2>1 DEF Passed
<1> QED
  BY <1>5, <1>6 DEF Passed

(* AH=48h, taken apart.                                                    *)
Room(m, p) == Coalesced(m, p).size

Fitting(m, size) == {p \in FreeHeads(m) : Room(m, p) >= size}

Visited(m, size) == {p \in FreeHeads(m) : \A f \in Fitting(m, size) : p <= f}

Swept(m, S) == [p \in Paras |-> IF p \in S THEN Coalesced(m, p) ELSE m[p]]

LEMMA AllocateAs ==
    ASSUME NEW m, NEW size, NEW owner, NEW a, a = DosMcbAllocate(m, size, owner),
           NEW n, n = Swept(m, Visited(m, size)), NEW hit, hit = Min(Fitting(m, size))
    PROVE  /\ Fitting(m, size) = {} =>
                /\ a.mem = n /\ ~ a.ok
                /\ a.largest = Max({Room(m, p) : p \in Visited(m, size)} \cup {0})
           /\ Fitting(m, size) # {} =>
                /\ a.mem = Given(Cut(n, hit, n[hit].sig, n[hit].size, size), hit, owner)
                /\ a.ok /\ a.segment = hit + 1
  BY DEF DosMcbAllocate, Given, Swept, Visited, Fitting, Room

LEMMA HeadsAre ==
    ASSUME NEW m, Good(m), NEW h \in FreeHeads(m)
    PROVE  /\ h \in Chain(m) /\ h \in Paras /\ h \in Nat /\ m[h].owner = Free
           /\ \A q \in Chain(m) : m[q].owner = Free => NextMcb(m, q) # h
<1>1. /\ h \in Chain(m) /\ m[h].owner = Free
      /\ \A q \in Chain(m) : m[q].owner = Free /\ Absorbs(m, q) => NextMcb(m, q) # h
  BY DEF FreeHeads
<1>2. \A q \in Chain(m) : NextMcb(m, q) = h => Absorbs(m, q)
  BY <1>1, AbsorbsInChain
<1> QED
  BY <1>1, <1>2, ChainOrder

(* The blocks a free head absorbs are free blocks, and no other head.      *)
LEMMA HeadsMerge ==
    ASSUME NEW m, Good(m), NEW S \in SUBSET FreeHeads(m), NEW l, Ends(m, l)
    PROVE  Mergers(m, S, l)
<1>1. ASSUME NEW h \in S
      PROVE  h \in Chain(m) /\ l[h] \in Chain(m) /\ l[h] >= h
  BY HeadsAre DEF Ends
<1>2. ASSUME NEW h \in S, NEW g \in S, g < h, h <= l[g]
      PROVE  FALSE
  <2>1. h \in Chain(m) /\ g \in Chain(m) /\ g \in Nat /\ h \in Nat /\ g \in Paras /\ m[g].owner = Free
    BY HeadsAre
  <2>2. PICK q \in Chain(m) : g <= q /\ q < h /\ NextMcb(m, q) = h
    BY <1>2, <2>1, BlockBefore
  <2>3. q \in Nat /\ l[g] \in Nat
    BY <1>1, <2>2, ChainOrder
  <2>4. m[q].owner = Free
    <3>1. CASE q = g
      BY <2>1, <3>1
    <3>2. CASE q # g
      <4>1. g < q /\ q <= l[g]
        BY <1>2, <2>1, <2>2, <2>3, <3>2
      <4> QED
        BY <2>1, <4>1 DEF Ends
    <3> QED
      BY <3>1, <3>2
  <2> QED
    BY <2>2, <2>4, HeadsAre
<1> QED
  BY <1>1, <1>2 DEF Mergers, Swallowed

(* A walk that coalesces what it comes to takes no block.                  *)
LEMMA SweptIs ==
    ASSUME NEW m, Good(m), NEW S \in SUBSET FreeHeads(m), NEW n, n = Swept(m, S)
    PROVE  /\ Good(n) /\ Agree(m, n) /\ S \subseteq Chain(n)
           /\ \A h \in S : n[h] = Coalesced(m, h) /\ n[h].owner = Free
<1>1. PICK l : Ends(m, l)
  BY EndsExist DEF Good
<1>2. Mergers(m, S, l)
  BY <1>1, HeadsMerge
<1>3. \A h \in S : h \in Paras /\ h \in Nat /\ m[h].owner = Free /\ h \in Chain(m) /\ l[h] \in Chain(m)
  BY <1>2, HeadsAre DEF Mergers
<1>4. \A h \in S : Coalesced(m, h) = Header(m[l[h]].sig, m[h].owner, NextMcb(m, l[h]) - h - 1)
  BY <1>1, <1>3 DEF Ends
<1>5. n = Merged(m, S, l)
  <2>1. \A q \in Paras : Swept(m, S)[q] = Merged(m, S, l)[q]
    BY <1>4 DEF Swept, Merged
  <2>2. /\ Swept(m, S) = [q \in Paras |-> Swept(m, S)[q]]
        /\ Merged(m, S, l) = [q \in Paras |-> Merged(m, S, l)[q]]
    BY DEF Swept, Merged
  <2> QED
    BY <2>1, <2>2
<1>6. /\ Good(n) /\ Chain(n) = {q \in Chain(m) : ~ Swallowed(S, l, q)}
      /\ \A q \in Paras : n[q].owner = m[q].owner
      /\ \A q \in Paras \ S : n[q] = m[q]
  BY <1>2, <1>5, MergedIs
<1>7. S \subseteq Chain(n)
  BY <1>2, <1>6 DEF Mergers
<1>8. ASSUME NEW q \in Chain(m), Swallowed(S, l, q)
      PROVE  m[q].owner = Free
  <2>1. PICK h \in S : h < q /\ q <= l[h]
    BY <1>8 DEF Swallowed
  <2> QED
    BY <1>1, <1>3, <2>1 DEF Ends
<1>9. Agree(m, n)
  <2> SUFFICES ASSUME NEW q \in Paras
               PROVE  /\ Used(m, q) <=> Used(n, q)
                      /\ Used(m, q) => n[q].size = m[q].size /\ n[q].owner = m[q].owner
    BY DEF Agree, AgreeBut
  <2>1. CASE q \in S
    BY <1>3, <1>6, <2>1 DEF Used
  <2>2. CASE q \notin S
    <3>1. n[q] = m[q]
      BY <1>6, <2>2
    <3> QED
      BY <1>6, <1>8, <3>1 DEF Used
  <2> QED
    BY <2>1, <2>2
<1>10. \A h \in S : n[h] = Coalesced(m, h) /\ n[h].owner = Free
  BY <1>3, <1>6 DEF Swept
<1> QED
  BY <1>6, <1>7, <1>9, <1>10

NewBlock(segment, size, owner) == [base |-> segment, size |-> size, owner |-> owner]

(* AH=48h: one new block where there was none, or none.                    *)
Gives(m, size, owner, a) ==
    /\ Good(a.mem)
    /\ ~ a.ok => Blocks(a.mem) = Blocks(m)
    /\ a.ok => /\ a.segment - 1 \in Paras /\ a.segment \in Nat
               /\ \A b \in Blocks(m) : b.base # a.segment
               /\ Blocks(a.mem) = Blocks(m) \cup {NewBlock(a.segment, size, owner)}

LEMMA AllocIs ==
    ASSUME NEW m, Good(m), NEW size \in Nat, NEW owner \in BlockOwners,
           NEW a, a = DosMcbAllocate(m, size, owner)
    PROVE  Gives(m, size, owner, a)
<1>1. PICK n : n = Swept(m, Visited(m, size))
  OBVIOUS
<1>2. Visited(m, size) \in SUBSET FreeHeads(m) /\ Fitting(m, size) \subseteq FreeHeads(m)
  BY DEF Visited, Fitting
<1>3. /\ Good(n) /\ Agree(m, n) /\ Visited(m, size) \subseteq Chain(n)
      /\ \A h \in Visited(m, size) : n[h] = Coalesced(m, h) /\ n[h].owner = Free
  BY <1>1, <1>2, SweptIs
<1>4. PICK hit : hit = Min(Fitting(m, size))
  OBVIOUS
<1>5. CASE Fitting(m, size) = {}
  <2>1. a.mem = n /\ ~ a.ok
    BY <1>1, <1>5, AllocateAs
  <2> QED
    BY <1>3, <2>1, BlocksAgree DEF Gives
<1>6. CASE Fitting(m, size) # {}
  <2>1. /\ a.mem = Given(Cut(n, hit, n[hit].sig, n[hit].size, size), hit, owner)
        /\ a.ok /\ a.segment = hit + 1
    BY <1>1, <1>4, <1>6, AllocateAs, Zenon
  <2>2. hit \in Fitting(m, size) /\ \A f \in Fitting(m, size) : hit <= f
    <3>1. PICK S : S = Fitting(m, size)
      OBVIOUS
    <3>2. S \in SUBSET Nat /\ S # {}
      BY <1>2, <1>6, <3>1, HeadsAre
    <3>3. \E x \in S : \A y \in S : x <= y
      BY <3>2, LeastNatural
    <3>4. Min(S) \in S /\ \A f \in S : Min(S) <= f
      BY <3>3 DEF Min
    <3> QED
      BY <1>4, <3>1, <3>4
  <2>3. hit \in Visited(m, size) /\ hit \in Paras /\ hit \in Nat /\ Room(m, hit) >= size
        /\ hit \in Chain(m) /\ m[hit].owner = Free
    BY <1>2, <2>2, HeadsAre DEF Visited, Fitting
  <2>4. hit \in Chain(n) /\ n[hit].owner = Free /\ n[hit].size >= size /\ n[hit].size \in Nat
    BY <1>3, <2>3, ChainOrder DEF Room
  <2>5. PICK c : c = CutTo(n, hit, n[hit].sig, n[hit].size, size)
    OBVIOUS
  <2>6. Cut(n, hit, n[hit].sig, n[hit].size, size) = c
    BY <1>3, <2>3, <2>4, <2>5, CutIs DEF Good, MemOK
  <2>7. /\ Good(c) /\ hit \in Chain(c) /\ AgreeBut(n, c, hit) /\ c[hit].size = size
    BY <1>3, <2>4, <2>5, SplitIs
  <2>8. a.mem = Given(c, hit, owner)
    BY <2>1, <2>6
  <2>9. PICK o : o = a.mem
    OBVIOUS
  <2>10. owner \in BlockOwners \cup {Free} /\ owner # Free
    BY MemoryAssumption DEF BlockOwners, Free, FirstMcb
  <2>11. /\ Good(o) /\ Chain(o) = Chain(c) /\ AgreeBut(c, o, hit)
         /\ o[hit] = Header(c[hit].sig, owner, c[hit].size)
    BY <2>3, <2>7, <2>8, <2>9, <2>10, OwnerIs
  <2>12. AgreeBut(m, o, hit)
    <3>1. AgreeBut(n, o, hit)
      BY <2>7, <2>11, AgreeTwice
    <3> QED
      BY <1>3, <3>1, AgreeThen
  <2>13. o[hit].owner = owner /\ o[hit].size = size
    BY <2>7, <2>11 DEF Header
  <2>14. Used(o, hit) /\ BlockAt(o, hit) = NewBlock(hit + 1, size, owner)
    BY <2>7, <2>10, <2>11, <2>13 DEF Used, BlockAt, NewBlock
  <2>15. \A b \in Blocks(m) : b.base # hit + 1
    <3>1. ASSUME NEW b \in Blocks(m), b.base = hit + 1
          PROVE  FALSE
      <4>1. b.base - 1 = hit
        BY <2>3, <3>1
      <4> QED
        BY <2>3, <4>1, BlockIs DEF Used
    <3> QED
      BY <3>1
  <2>16. Blocks(o) = {b \in Blocks(m) : b.base # hit + 1} \cup {BlockAt(o, hit)}
    BY <2>3, <2>11, <2>12, <2>14, BlocksAgreeBut
  <2>17. {b \in Blocks(m) : b.base # hit + 1} = Blocks(m)
    BY <2>15
  <2>18. a.segment - 1 \in Paras /\ a.segment \in Nat
    BY <2>1, <2>3
  <2> QED
    BY <2>1, <2>9, <2>11, <2>14, <2>15, <2>16, <2>17, <2>18 DEF Gives
<1> QED
  BY <1>5, <1>6

-----------------------------------------------------------------------------
(* The room an allocation finds is the room between the blocks.            *)
GapAt(m, s, e) ==
    /\ s = FirstMcb \/ \E b \in Blocks(m) : s = b.base + b.size
    /\ e = Top \/ \E b \in Blocks(m) : e = b.base - 1
    /\ s < e
    /\ \A b \in Blocks(m) : b.base + b.size <= s \/ e <= b.base - 1

LEMMA GapsAre ==
    ASSUME NEW m
    PROVE  \A g : g \in Gaps(m) <=> \E s, e : g = <<s, e>> /\ GapAt(m, s, e)
<1> DEFINE used == Blocks(m)
           starts == {b.base - 1 : b \in used} \cup {Top}
           ends == {b.base + b.size : b \in used} \cup {FirstMcb}
           Between(g) == /\ g[1] < g[2]
                         /\ \A b \in used : b.base + b.size <= g[1] \/ g[2] <= b.base - 1
<1>1. Gaps(m) = {g \in ends \X starts : Between(g)}
  BY DEF Gaps
<1>2. \A e : e \in starts <=> e = Top \/ \E b \in Blocks(m) : e = b.base - 1
  OBVIOUS
<1>3. \A s : s \in ends <=> s = FirstMcb \/ \E b \in Blocks(m) : s = b.base + b.size
  OBVIOUS
<1> HIDE DEF starts, ends
<1>4. ASSUME NEW g \in Gaps(m)
      PROVE  \E s, e : g = <<s, e>> /\ GapAt(m, s, e)
  <2>1. PICK s \in ends, e \in starts : g = <<s, e>> /\ Between(g)
    BY <1>1
  <2>2. s < e /\ \A b \in used : b.base + b.size <= s \/ e <= b.base - 1
    BY <2>1
  <2>3. GapAt(m, s, e)
    BY <1>2, <1>3, <2>2 DEF GapAt
  <2> QED
    BY <2>1, <2>3
<1>5. ASSUME NEW s, NEW e, GapAt(m, s, e)
      PROVE  <<s, e>> \in Gaps(m)
  <2>1. s \in ends /\ e \in starts
    BY <1>2, <1>3, <1>5 DEF GapAt
  <2>2. s < e /\ \A b \in used : b.base + b.size <= s \/ e <= b.base - 1
    BY <1>5 DEF GapAt
  <2>3. PICK g : g = <<s, e>>
    OBVIOUS
  <2>4. g \in ends \X starts /\ g[1] = s /\ g[2] = e
    BY <2>1, <2>3
  <2> QED
    BY <1>1, <2>2, <2>3, <2>4
<1> QED
  BY <1>4, <1>5

LEMMA RoomIs ==
    ASSUME NEW m, Good(m), NEW h \in FreeHeads(m)
    PROVE  \E z \in Chain(m) :
              /\ h <= z /\ Room(m, h) = NextMcb(m, z) - h - 1
              /\ ~ (NextMcb(m, z) \in Chain(m) /\ m[NextMcb(m, z)].owner = Free)
              /\ \A r \in Chain(m) : h <= r /\ r <= z => m[r].owner = Free
<1>1. PICK l : Ends(m, l)
  BY EndsExist DEF Good
<1>2. h \in Chain(m) /\ h \in Paras /\ h \in Nat /\ m[h].owner = Free
  BY HeadsAre
<1>3. PICK z : z = l[h]
  OBVIOUS
<1>4. /\ z \in Chain(m) /\ h <= z /\ ~ Absorbs(m, z)
      /\ Coalesced(m, h) = Header(m[z].sig, m[h].owner, NextMcb(m, z) - h - 1)
      /\ \A r \in Chain(m) : h < r /\ r <= z => m[r].owner = Free
  <2>1. l[h] >= h /\ l[h] \in Nat
    BY <1>1, <1>2, ChainOrder DEF Ends
  <2> QED
    BY <1>1, <1>2, <1>3, <2>1 DEF Ends
<1>5. ASSUME NEW r \in Chain(m), h <= r, r <= z
      PROVE  m[r].owner = Free
  <2>1. r \in Nat
    BY ChainOrder
  <2>2. r = h \/ h < r
    BY <1>2, <1>5, <2>1
  <2> QED
    BY <1>2, <1>4, <1>5, <2>2
<1>6. Room(m, h) = NextMcb(m, z) - h - 1
  BY <1>4 DEF Room, Header
<1> QED
  BY <1>4, <1>5, <1>6, AbsorbsInChain

LEMMA RoomsAreGaps ==
    ASSUME NEW m, Good(m), NEW h \in FreeHeads(m)
    PROVE  Room(m, h) \in Nat /\ \E s, e \in Nat : GapAt(m, s, e) /\ Room(m, h) = e - s - 1
<1>1. h \in Chain(m) /\ h \in Paras /\ h \in Nat /\ m[h].owner = Free
      /\ \A q \in Chain(m) : m[q].owner = Free => NextMcb(m, q) # h
  BY HeadsAre
<1>2. PICK z \in Chain(m) :
        /\ h <= z /\ Room(m, h) = NextMcb(m, z) - h - 1
        /\ ~ (NextMcb(m, z) \in Chain(m) /\ m[NextMcb(m, z)].owner = Free)
        /\ \A r \in Chain(m) : h <= r /\ r <= z => m[r].owner = Free
  BY RoomIs
<1>3. PICK e : e = NextMcb(m, z)
  OBVIOUS
<1>4. z \in Nat /\ e \in Nat /\ e > z /\ e > h /\ e <= Top
      /\ (e # Top => e \in Chain(m) /\ m[e].owner # Free)
      /\ FirstMcb \in Chain(m) /\ FirstMcb = 0 /\ Top \in Nat
  <2>1. z \in Nat /\ e \in Nat /\ e > z /\ e <= Top /\ (e # Top => e \in Chain(m))
    BY <1>3, ChainOrder
  <2> QED
    BY <1>1, <1>2, <1>3, <2>1, MemoryAssumption DEF Good, Tiles, FirstMcb
<1>5. h = FirstMcb \/ \E b \in Blocks(m) : h = b.base + b.size
  <2> SUFFICES ASSUME h # FirstMcb
               PROVE  \E b \in Blocks(m) : h = b.base + b.size
    OBVIOUS
  <2>1. PICK q \in Chain(m) : NextMcb(m, q) = h
    BY <1>1, <1>4, BlockBefore
  <2>2. m[q].owner # Free
    BY <1>1, <2>1
  <2>3. BlockAt(m, q) \in Blocks(m)
    BY <2>2, BlockAtIs
  <2>4. BlockAt(m, q).base + BlockAt(m, q).size = h
    BY <2>1 DEF BlockAt, NextMcb
  <2> QED
    BY <2>3, <2>4
<1>6. e = Top \/ \E b \in Blocks(m) : e = b.base - 1
  <2> SUFFICES ASSUME e # Top
               PROVE  \E b \in Blocks(m) : e = b.base - 1
    OBVIOUS
  <2>1. BlockAt(m, e) \in Blocks(m)
    BY <1>4, BlockAtIs
  <2>2. BlockAt(m, e).base - 1 = e
    BY <1>4 DEF BlockAt
  <2> QED
    BY <2>1, <2>2
<1>7. ASSUME NEW b \in Blocks(m)
      PROVE  b.base + b.size <= h \/ e <= b.base - 1
  <2>1. PICK q \in Chain(m) : q = b.base - 1
    BY BlockIs
  <2>2. /\ q \in Nat /\ b.base + b.size = NextMcb(m, q) /\ NextMcb(m, q) \in Nat /\ m[q].owner # Free
    BY <2>1, BlockIs, ChainOrder DEF Used
  <2>3. CASE q < h
    <3>1. h >= NextMcb(m, q)
      BY <1>1, <2>3, ChainOrder
    <3> QED
      BY <1>1, <2>2, <3>1
  <2>4. CASE q >= h
    <3>1. ~ (h <= q /\ q <= z)
      BY <1>2, <2>2
    <3>2. q > z
      BY <1>1, <1>4, <2>2, <2>4, <3>1
    <3>3. q >= e
      BY <1>3, <3>2, ChainOrder
    <3> QED
      BY <1>4, <2>1, <2>2, <3>3
  <2> QED
    BY <1>1, <2>2, <2>3, <2>4
<1>8. GapAt(m, h, e)
  BY <1>1, <1>4, <1>5, <1>6, <1>7 DEF GapAt
<1>9. Room(m, h) = e - h - 1 /\ Room(m, h) \in Nat
  BY <1>1, <1>2, <1>3, <1>4
<1> QED
  BY <1>1, <1>4, <1>8, <1>9

LEMMA GapsAreRooms ==
    ASSUME NEW m, Good(m), NEW s, NEW e, GapAt(m, s, e)
    PROVE  s \in FreeHeads(m) /\ Room(m, s) = e - s - 1
<1>1. FirstMcb \in Chain(m) /\ FirstMcb = 0 /\ Top \in Nat /\ Paras \subseteq Nat
      /\ Chain(m) \subseteq Paras /\ Top \notin Paras
  BY ParasAre, MemoryAssumption DEF Good, Tiles, FirstMcb
<1>2. /\ s = FirstMcb \/ \E b \in Blocks(m) : s = b.base + b.size
      /\ e = Top \/ \E b \in Blocks(m) : e = b.base - 1
      /\ s < e
      /\ \A b \in Blocks(m) : b.base + b.size <= s \/ e <= b.base - 1
  BY DEF GapAt
<1>3. e \in Nat /\ e <= Top /\ (e # Top => e \in Chain(m) /\ m[e].owner # Free)
  <2>1. CASE e = Top
    BY <1>1, <2>1
  <2>2. ASSUME NEW b \in Blocks(m), e = b.base - 1
        PROVE  e \in Chain(m) /\ m[e].owner # Free /\ e \in Nat /\ e <= Top
    <3>1. e \in Chain(m) /\ m[e].owner # Free
      BY <2>2, BlockIs DEF Used
    <3>2. e \in Nat /\ e <= Top
      BY <1>1, <3>1, ParasAre
    <3> QED
      BY <3>1, <3>2
  <2> QED
    BY <1>2, <2>1, <2>2
(* The gap begins at the first header or where a block's data end.         *)
<1>4. s \in Chain(m) /\ s \in Nat
      /\ (s = FirstMcb \/ \E q \in Chain(m) : NextMcb(m, q) = s /\ m[q].owner # Free)
  <2>1. CASE s = FirstMcb
    BY <1>1, <2>1
  <2>2. ASSUME NEW b \in Blocks(m), s = b.base + b.size
        PROVE  s \in Chain(m) /\ s \in Nat
               /\ \E q \in Chain(m) : NextMcb(m, q) = s /\ m[q].owner # Free
    <3>1. PICK q \in Chain(m) : q = b.base - 1
      BY BlockIs
    <3>2. NextMcb(m, q) = s /\ m[q].owner # Free /\ s \in Nat
      BY <2>2, <3>1, BlockIs, ChainOrder DEF Used
    <3>3. s # Top
      BY <1>1, <1>2, <1>3, <3>2
    <3> QED
      BY <3>2, <3>3, ChainOrder
  <2> QED
    BY <1>2, <2>1, <2>2
<1>5. m[s].owner = Free
  <2> SUFFICES ASSUME m[s].owner # Free
               PROVE  FALSE
    OBVIOUS
  <2>1. BlockAt(m, s) \in Blocks(m)
    BY <1>4, BlockAtIs
  <2>2. BlockAt(m, s).base + BlockAt(m, s).size = NextMcb(m, s) /\ BlockAt(m, s).base - 1 = s
    BY <1>4 DEF BlockAt, NextMcb
  <2>3. NextMcb(m, s) <= s \/ e <= s
    BY <1>2, <2>1, <2>2
  <2> QED
    BY <1>2, <1>3, <1>4, <2>3, ChainOrder
<1>6. s \in FreeHeads(m)
  <2>1. ASSUME NEW q \in Chain(m), m[q].owner = Free, NextMcb(m, q) = s
        PROVE  FALSE
    <3>1. q \in Nat /\ NextMcb(m, q) > q
      BY ChainOrder
    <3>2. PICK p \in Chain(m) : NextMcb(m, p) = s /\ m[p].owner # Free
      BY <1>1, <1>4, <2>1, <3>1
    <3>3. p \in Nat /\ p # q
      BY <2>1, <3>2, ChainOrder
    <3>4. p < q => q >= s
      BY <3>2, ChainOrder
    <3>5. q < p => p >= s
      BY <2>1, ChainOrder
    <3>6. NextMcb(m, p) > p
      BY ChainOrder
    <3> QED
      BY <1>4, <2>1, <3>1, <3>2, <3>3, <3>4, <3>5, <3>6
  <2> QED
    BY <1>4, <1>5, <2>1 DEF FreeHeads
<1>7. PICK z \in Chain(m) :
        /\ s <= z /\ Room(m, s) = NextMcb(m, z) - s - 1
        /\ ~ (NextMcb(m, z) \in Chain(m) /\ m[NextMcb(m, z)].owner = Free)
        /\ \A r \in Chain(m) : s <= r /\ r <= z => m[r].owner = Free
  BY <1>6, RoomIs
<1>8. PICK x : x = NextMcb(m, z)
  OBVIOUS
<1>9. z \in Nat /\ x \in Nat /\ x > z /\ x <= Top /\ z < Top
      /\ (x # Top => x \in Chain(m) /\ m[x].owner # Free)
  <2>1. z \in Nat /\ x \in Nat /\ x > z /\ x <= Top /\ (x # Top => x \in Chain(m))
    BY <1>8, ChainOrder
  <2> QED
    BY <1>1, <1>7, <1>8, <2>1
<1>10. z < e
  <2>1. CASE e = Top
    BY <1>9, <2>1
  <2>2. CASE e # Top
    <3>1. ~ (s <= e /\ e <= z)
      BY <1>3, <1>7, <2>2
    <3> QED
      BY <1>2, <1>3, <1>4, <1>9, <3>1
  <2> QED
    BY <2>1, <2>2
<1>11. x <= e
  <2>1. CASE e = Top
    BY <1>9, <2>1
  <2>2. CASE e # Top
    <3>1. e >= NextMcb(m, z)
      BY <1>3, <1>10, <2>2, ChainOrder
    <3> QED
      BY <1>3, <1>8, <1>9, <3>1
  <2> QED
    BY <2>1, <2>2
<1>12. x = e
  <2> SUFFICES ASSUME x < e
               PROVE  FALSE
    BY <1>3, <1>9, <1>11
  <2>1. x \in Chain(m) /\ m[x].owner # Free
    BY <1>1, <1>3, <1>9
  <2>2. BlockAt(m, x) \in Blocks(m)
    BY <2>1, BlockAtIs
  <2>3. BlockAt(m, x).base + BlockAt(m, x).size = NextMcb(m, x) /\ BlockAt(m, x).base - 1 = x
    BY <1>9 DEF BlockAt, NextMcb
  <2>4. NextMcb(m, x) <= s \/ e <= x
    BY <1>2, <2>2, <2>3
  <2>5. NextMcb(m, x) > x /\ NextMcb(m, x) \in Nat
    BY <2>1, ChainOrder
  <2> QED
    BY <1>3, <1>4, <1>7, <1>9, <2>4, <2>5
<1> QED
  BY <1>6, <1>7, <1>8, <1>12

GapRooms(m) == {g[2] - g[1] - 1 : g \in Gaps(m)}

LEMMA GapRoomsAre ==
    ASSUME NEW m, Good(m)
    PROVE  GapRooms(m) = {Room(m, h) : h \in FreeHeads(m)} /\ GapRooms(m) \subseteq 0 .. Top
<1>1. ASSUME NEW h \in FreeHeads(m)
      PROVE  Room(m, h) \in GapRooms(m)
  <2>1. PICK s, e \in Nat : GapAt(m, s, e) /\ Room(m, h) = e - s - 1
    BY RoomsAreGaps
  <2>2. PICK g \in Gaps(m) : g = <<s, e>>
    BY <2>1, GapsAre
  <2>3. g[2] - g[1] - 1 = Room(m, h)
    BY <2>1, <2>2
  <2> QED
    BY <2>3 DEF GapRooms
<1>2. ASSUME NEW r \in GapRooms(m)
      PROVE  \E h \in FreeHeads(m) : r = Room(m, h)
  <2>1. PICK g \in Gaps(m) : r = g[2] - g[1] - 1
    BY DEF GapRooms
  <2>2. PICK s, e : g = <<s, e>> /\ GapAt(m, s, e)
    BY <2>1, GapsAre
  <2>3. s \in FreeHeads(m) /\ Room(m, s) = e - s - 1
    BY <2>2, GapsAreRooms
  <2> QED
    BY <2>1, <2>2, <2>3
<1>3. ASSUME NEW h \in FreeHeads(m)
      PROVE  Room(m, h) \in 0 .. Top
  <2>1. PICK z \in Chain(m) : h <= z /\ Room(m, h) = NextMcb(m, z) - h - 1
    BY RoomIs
  <2>2. h \in Nat /\ z \in Nat /\ NextMcb(m, z) \in Nat /\ NextMcb(m, z) > z /\ NextMcb(m, z) <= Top
    BY HeadsAre, ChainOrder
  <2> QED
    BY <2>1, <2>2, MemoryAssumption
<1> QED
  BY <1>1, <1>2, <1>3

(* AH=48h fails only when no gap is large enough, and says what would fit. *)
LEMMA AllocFinds ==
    ASSUME NEW m, Good(m), NEW size \in Nat, NEW owner,
           NEW a, a = DosMcbAllocate(m, size, owner)
    PROVE  /\ a.ok <=> \E r \in GapRooms(m) : r >= size
           /\ ~ a.ok => a.largest = Max(GapRooms(m) \cup {0})
<1>1. GapRooms(m) = {Room(m, h) : h \in FreeHeads(m)}
  BY GapRoomsAre
<1>2. (\E r \in GapRooms(m) : r >= size) <=> Fitting(m, size) # {}
  BY <1>1 DEF Fitting
<1>3. Fitting(m, size) = {} => Visited(m, size) = FreeHeads(m)
  BY DEF Visited
<1>4. /\ Fitting(m, size) = {} =>
          ~ a.ok /\ a.largest = Max({Room(m, p) : p \in Visited(m, size)} \cup {0})
      /\ Fitting(m, size) # {} => a.ok
  <2>1. PICK n, hit : n = Swept(m, Visited(m, size)) /\ hit = Min(Fitting(m, size))
    OBVIOUS
  <2> QED
    BY <2>1, AllocateAs
<1> QED
  BY <1>1, <1>2, <1>3, <1>4

-----------------------------------------------------------------------------
(* Memory at start-up.                                                     *)

StartBlocks ==
    {NewBlock(FirstMcb + 1, EnvParas, PspSeg), NewBlock(ResidentMcb + 1, ResidentParas, DosOwner),
     NewBlock(PspSeg, Top - PspSeg, PspSeg)}

LEMMA InitialIs ==
    ASSUME NEW m, m = DosMcbInitializeWithTop
    PROVE  /\ Good(m) /\ Blocks(m) = StartBlocks /\ PspSeg - 1 \in Chain(m)
           /\ m[PspSeg - 1] = Header("Z", PspSeg, Top - PspSeg)
           /\ PspSeg \in FirstMcb + 1 .. Top - 1 /\ DosOwner # PspSeg
           /\ PspSeg \in BlockOwners /\ DosOwner \in BlockOwners
           /\ \A p \in Chain(m) : m[p].sig = "Z" => p = PspSeg - 1
<1> DEFINE q == ResidentMcb
           r == PspSeg - 1
           C == {FirstMcb, q, r}
<1>1. /\ Top \in Nat /\ EnvParas \in Nat \ {0} /\ ResidentParas \in Nat /\ PspSeg < Top
      /\ FirstMcb = 0 /\ q = 1 + EnvParas /\ r = q + 1 + ResidentParas
      /\ DosOwner \in Int \ (0 .. Top) /\ DosOwner # Free /\ Free = -1
  BY MemoryAssumption DEF PspSeg, ResidentMcb, FirstMcb, Free
<1>2. q \in Nat /\ r \in Nat /\ q > 0 /\ r > q /\ r + 1 = PspSeg /\ r < Top /\ q < Top /\ PspSeg \in Nat
  BY <1>1 DEF PspSeg
<1>3. C \subseteq Paras /\ \A p \in Paras : p \in Nat
  BY <1>1, <1>2, ParasAre
<1>4. /\ PspSeg \in FirstMcb + 1 .. Top - 1 /\ DosOwner # PspSeg
      /\ PspSeg \in BlockOwners /\ DosOwner \in BlockOwners /\ PspSeg # Free
  BY <1>1, <1>2 DEF BlockOwners
<1>5. /\ m[FirstMcb] = Header("M", PspSeg, EnvParas)
      /\ m[q] = Header("M", DosOwner, ResidentParas)
      /\ m[r] = Header("Z", PspSeg, Top - PspSeg)
      /\ \A p \in Paras : p \notin C => m[p] = Data
  BY <1>1, <1>2, <1>3 DEF DosMcbInitializeWithTop
<1>6. NextMcb(m, FirstMcb) = q /\ NextMcb(m, q) = r /\ NextMcb(m, r) = Top
  BY <1>1, <1>2, <1>5 DEF NextMcb, Header
<1>7. ASSUME NEW p \in Paras
      PROVE  m[p] \in Headers /\ NextMcb(m, p) <= Top
  <2>1. CASE p \notin C
    <3>1. m[p] = Data
      BY <1>5, <2>1
    <3>2. m[p] \in Headers /\ m[p].size = 0
      BY <1>1, <3>1 DEF Data, Header, Headers
    <3> QED
      BY <1>1, <1>3, <3>2, ParasAre DEF NextMcb
  <2>2. CASE p = FirstMcb
    BY <1>1, <1>2, <1>4, <1>5, <1>6, <2>2 DEF Header, Headers, Signatures
  <2>3. CASE p = q
    BY <1>1, <1>2, <1>4, <1>5, <1>6, <2>3 DEF Header, Headers, Signatures
  <2>4. CASE p = r
    BY <1>1, <1>2, <1>4, <1>5, <1>6, <2>4 DEF Header, Headers, Signatures
  <2> QED
    BY <2>1, <2>2, <2>3, <2>4
<1>8. MemOK(m)
  <2>1. m = [p \in Paras |-> m[p]]
    BY DEF DosMcbInitializeWithTop
  <2>2. m \in [Paras -> Headers]
    BY <1>7, <2>1
  <2> QED
    BY <1>7, <2>2 DEF MemOK
<1>9. m[FirstMcb].sig = "M" /\ m[q].sig = "M" /\ m[r].sig = "Z"
  BY <1>5 DEF Header
<1>10. Tiles(m, C)
  <2>1. ASSUME NEW p \in C
        PROVE  /\ m[p].sig \in Signatures
               /\ m[p].sig = "M" => NextMcb(m, p) \in C
               /\ m[p].sig = "Z" => NextMcb(m, p) = Top
    BY <1>6, <1>9 DEF Signatures
  <2>2. ASSUME NEW p \in C, NEW x \in C, p < x
        PROVE  NextMcb(m, p) <= x
    <3>1. CASE p = FirstMcb
      BY <1>1, <1>2, <1>6, <2>2, <3>1
    <3>2. CASE p = q
      BY <1>1, <1>2, <1>6, <2>2, <3>2
    <3>3. CASE p = r
      BY <1>1, <1>2, <1>6, <2>2, <3>3
    <3> QED
      BY <3>1, <3>2, <3>3
  <2>3. FirstMcb \in C
    OBVIOUS
  <2> HIDE DEF C
  <2> QED
    BY <1>3, <2>1, <2>2, <2>3 DEF Tiles
<1>11. Good(m) /\ Chain(m) = C
  <2> HIDE DEF C
  <2> QED
    BY <1>8, <1>10, GoodIs
<1>12. /\ BlockAt(m, FirstMcb) = NewBlock(FirstMcb + 1, EnvParas, PspSeg)
       /\ BlockAt(m, q) = NewBlock(q + 1, ResidentParas, DosOwner)
       /\ BlockAt(m, r) = NewBlock(PspSeg, Top - PspSeg, PspSeg)
  BY <1>2, <1>5 DEF BlockAt, NewBlock, Header
<1>13. Used(m, FirstMcb) /\ Used(m, q) /\ Used(m, r)
  BY <1>1, <1>4, <1>5, <1>11 DEF Used, Header
<1>14. \A b : b \in Blocks(m) <=> b \in {BlockAt(m, FirstMcb), BlockAt(m, q), BlockAt(m, r)}
  BY <1>11, <1>13, BlocksAre
<1>15. Blocks(m) = StartBlocks
  BY <1>12, <1>14 DEF StartBlocks
<1> QED
  BY <1>4, <1>5, <1>9, <1>11, <1>15

(* DosMcbReserveTop, then: nothing, or the end of the first program's      *)
(* block for DOS.                                                          *)
LEMMA ReserveIs ==
    ASSUME NEW m, m = DosMcbInitializeWithTop, NEW size \in Nat,
           NEW n, n = DosMcbReserveTop(m, size), n # m
    PROVE  /\ Good(n)
           /\ \E z, a \in Nat :
                 /\ 0 < z /\ z < Top - PspSeg
                 /\ \A b \in Blocks(m) : b.base # a
                 /\ Blocks(n) = {b \in Blocks(m) : b.base # PspSeg}
                                \cup {NewBlock(PspSeg, z, PspSeg), NewBlock(a, size, DosOwner)}
<1>1. /\ Good(m) /\ Blocks(m) = StartBlocks /\ PspSeg - 1 \in Chain(m)
      /\ m[PspSeg - 1] = Header("Z", PspSeg, Top - PspSeg)
      /\ PspSeg \in FirstMcb + 1 .. Top - 1 /\ DosOwner # PspSeg
      /\ PspSeg \in BlockOwners /\ DosOwner \in BlockOwners
      /\ \A p \in Chain(m) : m[p].sig = "Z" => p = PspSeg - 1
  BY InitialIs
<1>2. PICK p \in Chain(m) : p = PspSeg - 1
  BY <1>1
<1>3. /\ p \in Nat /\ Top \in Nat /\ PspSeg \in Nat /\ PspSeg = p + 1 /\ p \in Paras
      /\ m[p].sig = "Z" /\ m[p].owner = PspSeg /\ m[p].size = Top - PspSeg
      /\ NextMcb(m, p) = Top /\ m \in [Paras -> Headers] /\ Chain(m) \subseteq Paras /\ PspSeg # Free
  BY <1>1, <1>2, ParasAre, MemoryAssumption DEF Header, NextMcb, Good, MemOK, Tiles, FirstMcb, Free
<1>4. LastMcb(m) = p
  BY <1>1, <1>2, <1>3 DEF LastMcb
<1>5. PICK at : at = Top - size - 1
  OBVIOUS
<1>6. n = IF m[p].size < size + 2 THEN m
          ELSE [m EXCEPT ![p].size = at - p - 1, ![p].sig = "M", ![at] = Header("Z", DosOwner, size)]
  BY <1>1, <1>3, <1>4, <1>5 DEF DosMcbReserveTop
<1>7. ~ (m[p].size < size + 2)
  BY <1>6
<1>8. PICK z : z = at - p - 1
  OBVIOUS
<1>9. /\ at \in Nat /\ at \in Paras /\ at > PspSeg /\ at # p /\ z \in Nat /\ 0 < z /\ z < Top - PspSeg
      /\ p + 1 + z = at /\ Top - PspSeg - z - 1 = size /\ z < m[p].size
  BY <1>3, <1>5, <1>7, <1>8, ParasAre
<1>10. PICK c : c = CutTo(m, p, m[p].sig, m[p].size, z)
  OBVIOUS
<1>11. /\ Good(c) /\ p \in Chain(c) /\ AgreeBut(m, c, p)
       /\ c[p].size = z /\ c[p].owner = m[p].owner
       /\ at \in Chain(c) /\ c[at] = Header("Z", Free, size)
  <2>1. z <= m[p].size /\ m[p].size - z - 1 = size
    BY <1>3, <1>9
  <2>2. /\ Good(c) /\ p \in Chain(c) /\ AgreeBut(m, c, p)
        /\ c[p].size = z /\ c[p].owner = m[p].owner
        /\ p + 1 + z \in Chain(c)
        /\ c[p + 1 + z] = Header(m[p].sig, Free, m[p].size - z - 1)
    BY <1>1, <1>9, <1>10, <2>1, SplitIs
  <2> QED
    BY <1>3, <1>9, <2>1, <2>2
<1>12. PICK o : o = Given(c, at, DosOwner)
  OBVIOUS
<1>13. DosOwner \in BlockOwners \cup {Free} /\ DosOwner # Free
  BY <1>1, MemoryAssumption
<1>14. /\ Good(o) /\ Chain(o) = Chain(c) /\ AgreeBut(c, o, at)
       /\ o[at] = Header(c[at].sig, DosOwner, c[at].size)
       /\ \A x \in Paras : x # at => o[x] = c[x]
       /\ o \in [Paras -> Headers]
  BY <1>9, <1>11, <1>12, <1>13, OwnerIs DEF Good, MemOK
<1>15. n = o
  <2>1. n = [m EXCEPT ![p].size = z, ![p].sig = "M", ![at] = Header("Z", DosOwner, size)]
    BY <1>6, <1>7, <1>8
  <2>2. n = [x \in Paras |-> n[x]] /\ o = [x \in Paras |-> o[x]]
    BY <1>3, <1>14, <2>1
  <2>3. n[at] = Header("Z", DosOwner, size) /\ o[at] = Header("Z", DosOwner, size)
    BY <1>3, <1>9, <1>11, <1>14, <2>1 DEF Header
  <2>4. o[p] = Header("M", m[p].owner, z)
    BY <1>3, <1>9, <1>10, <1>14 DEF CutTo
  <2>5. n[p] = [m[p] EXCEPT !.size = z, !.sig = "M"]
    BY <1>3, <1>9, <2>1
  <2>6. n[p] = Header("M", m[p].owner, z)
    <3>1. PICK h : h = m[p]
      OBVIOUS
    <3>2. PICK h1 : h1 = [h EXCEPT !.size = z]
      OBVIOUS
    <3>3. PICK h2 : h2 = [h1 EXCEPT !.sig = "M"]
      OBVIOUS
    <3>4. h = [sig |-> h.sig, owner |-> h.owner, size |-> h.size]
      <4>1. h \in Headers
        BY <1>3, <3>1
      <4> QED
        BY <4>1 DEF Headers
    <3>5. h \in [sig : {h.sig}, owner : {h.owner}, size : {h.size}]
      BY <3>4
    <3>6. h1 \in [sig : {h.sig}, owner : {h.owner}, size : {z}]
      BY <3>2, <3>5
    <3>7. h2 \in [sig : {"M"}, owner : {h.owner}, size : {z}]
      BY <3>3, <3>6
    <3>8. h2 = Header("M", h.owner, z)
      BY <3>7 DEF Header
    <3> QED
      BY <2>5, <3>1, <3>2, <3>3, <3>8
  <2>7. \A x \in Paras : x # p /\ x # at => n[x] = m[x]
    BY <1>3, <2>1
  <2>8. \A x \in Paras : x # p /\ x # at => o[x] = m[x]
    BY <1>9, <1>10, <1>14 DEF CutTo
  <2>9. \A x \in Paras : n[x] = o[x]
    BY <2>3, <2>4, <2>6, <2>7, <2>8
  <2> QED
    BY <2>2, <2>9
<1>16. Used(c, p) /\ BlockAt(c, p) = NewBlock(PspSeg, z, PspSeg)
  BY <1>3, <1>11 DEF Used, BlockAt, NewBlock
<1>17. Blocks(c) = {b \in Blocks(m) : b.base # PspSeg} \cup {NewBlock(PspSeg, z, PspSeg)}
  <2>1. Blocks(c) = {b \in Blocks(m) : b.base # p + 1} \cup {BlockAt(c, p)}
    BY <1>1, <1>3, <1>11, <1>16, BlocksAgreeBut
  <2> QED
    BY <1>3, <1>16, <2>1
<1>18. o[at].owner = DosOwner /\ o[at].size = size
  BY <1>11, <1>14 DEF Header
<1>19. Used(o, at) /\ BlockAt(o, at) = NewBlock(at + 1, size, DosOwner)
  BY <1>11, <1>13, <1>14, <1>18 DEF Used, BlockAt, NewBlock
<1>20. Blocks(o) = {b \in Blocks(c) : b.base # at + 1} \cup {NewBlock(at + 1, size, DosOwner)}
  BY <1>9, <1>11, <1>14, <1>19, BlocksAgreeBut
<1>21. \A b \in Blocks(c) : b.base # at + 1
  <2>1. ASSUME NEW b \in Blocks(c), b.base = at + 1
        PROVE  FALSE
    <3>1. b.base - 1 = at
      BY <1>9, <2>1
    <3>2. c[at].owner # Free
      BY <1>11, <3>1, BlockIs DEF Used
    <3> QED
      BY <1>11, <3>2 DEF Header
  <2> QED
    BY <2>1
<1>22. \A b \in Blocks(m) : b.base # at + 1
  <2>1. PspSeg # at + 1
    BY <1>3, <1>9
  <2> QED
    BY <1>17, <1>21, <2>1
<1>23. Blocks(n) = {b \in Blocks(m) : b.base # PspSeg}
                   \cup {NewBlock(PspSeg, z, PspSeg), NewBlock(at + 1, size, DosOwner)}
  <2>1. {b \in Blocks(c) : b.base # at + 1} = Blocks(c)
    BY <1>21
  <2> QED
    BY <1>15, <1>17, <1>20, <2>1
<1> QED
  BY <1>9, <1>14, <1>15, <1>22, <1>23

-----------------------------------------------------------------------------
(* The invariants.                                                         *)

(* The sessions in which every program has an MZ header, so that it is     *)
(* loaded only where it fits, and those in which no program can free the   *)
(* environment of one that stays resident.                                 *)
LoadsFit == \A p \in session.programs : p.isMz

KeepsOrFrees == ~ (session.freesEnvironment /\ session.staysResident)

(* The i-th of the running programs, the parents and then the current one. *)
Running(fr, cur, i) == IF i = Len(fr) + 1 THEN cur ELSE fr[i].psp

Occupies(B, exe) == \E b \in B : b.base = exe /\ b.owner = exe /\ b.size > 0

(* Each running program has the block it runs in, and none of them runs    *)
(* where one above it has its environment.                                 *)
Placed(B, fr, cur) ==
    /\ \A i \in 1 .. Len(fr) + 1 : Occupies(B, Running(fr, cur, i))
    /\ \A i, j \in 1 .. Len(fr) + 1 : i # j => Running(fr, cur, i) # Running(fr, cur, j)
    /\ \A i \in 1 .. Len(fr) : fr[i].child = Running(fr, cur, i + 1)
    /\ \A i \in 1 .. Len(fr) : \A j \in 1 .. i : fr[i].env # Running(fr, cur, j)

Frames == [psp : Paras, child : Paras, env : FirstMcb + 1 .. Top - 1, before : SUBSET Allocated]

Untouched ==
    ~ started => mem = DosMcbInitializeWithTop /\ psp = PspSeg /\ frames = <<>> /\ resident = {}

ChainInv ==
    /\ session \in Sessions /\ LoadsFit
    /\ started \in BOOLEAN
    /\ frames \in Seq(Frames)
    /\ resident \in SUBSET Allocated
    /\ Good(mem)
    /\ Placed(Blocks(mem), frames, psp)
    /\ Untouched

(* One of the programs that run above the i-th frame's parent.             *)
Above(fr, cur, i, owner) == \E j \in i + 1 .. Len(fr) + 1 : owner = Running(fr, cur, j)

(* Whose each block is: of a program that has its own block, or DOS's.     *)
Owned(B) == \A b \in B : b.owner = DosOwner \/ \E c \in B : c.base = b.owner /\ c.owner = b.owner

(* What stayed resident is there and no running program's.                 *)
Left(B, fr, cur, res) ==
    /\ res \subseteq B
    /\ \A b \in res : \A i \in 1 .. Len(fr) + 1 : b.owner # Running(fr, cur, i)

(* What a frame's parent had is there, no later program's, and everything  *)
(* else is a later program's or resident; the environment EXEC made is     *)
(* none of it.                                                             *)
Saved(B, fr, cur, res) ==
    \A i \in 1 .. Len(fr) :
        /\ fr[i].before \subseteq B
        /\ \A b \in fr[i].before : ~ Above(fr, cur, i, b.owner) /\ b.base # fr[i].env
        /\ \A b \in B : b \in fr[i].before \/ b \in res \/ Above(fr, cur, i, b.owner)

(* A program's environment is its own.                                     *)
Environments(B, fr, cur) ==
    \A i \in 1 .. Len(fr) :
        \E b \in B : b.base = fr[i].env /\ b.owner = Running(fr, cur, i + 1)

Tidy(B, fr, cur, res) == Owned(B) /\ Left(B, fr, cur, res) /\ Saved(B, fr, cur, res)

TidyInv ==
    /\ KeepsOrFrees
    /\ Tidy(Blocks(mem), frames, psp, resident)
    /\ session.freesEnvironment => resident = {}
    /\ ~ session.freesEnvironment => Environments(Blocks(mem), frames, psp)

Bounded(S) == S \subseteq 0 .. Top /\ S # {}

LEMMA MaxIs ==
    ASSUME NEW S, Bounded(S)
    PROVE  Max(S) \in S /\ \A y \in S : Max(S) >= y
<1>1. Top \in Nat /\ S \subseteq Nat /\ S # {} /\ \A x \in S : x <= Top
  BY MemoryAssumption DEF Bounded
<1> DEFINE D == {Top - x : x \in S}
<1>2. D \in SUBSET Nat /\ D # {}
  <2>1. \A x \in S : Top - x \in Nat
    BY <1>1
  <2> QED
    BY <1>1, <2>1
<1>3. PICK d \in D : \A y \in D : d <= y
  <2> HIDE DEF D
  <2> QED
    BY <1>2, LeastNatural
<1>4. PICK x \in S : d = Top - x
  BY <1>3
<1>5. ASSUME NEW y \in S
      PROVE  x >= y
  <2>1. Top - y \in D
    OBVIOUS
  <2>2. Top - x <= Top - y
    BY <1>3, <1>4, <2>1
  <2> QED
    BY <1>1, <2>2
<1>6. \E w \in S : \A y \in S : w >= y
  BY <1>5
<1> QED
  BY <1>6 DEF Max

LEMMA PairIs ==
    ASSUME NEW a \in Nat, NEW b \in Nat
    PROVE  /\ Max({a, b}) \in Nat /\ Max({a, b}) >= a /\ Max({a, b}) >= b
           /\ Min({a, b}) \in Nat /\ Min({a, b}) <= a /\ Min({a, b}) <= b
           /\ Min({a, b}) = a \/ Min({a, b}) = b
<1>1. PICK S : S = {a, b}
  OBVIOUS
<1>2. (\E x \in S : \A y \in S : x >= y) /\ \E x \in S : \A y \in S : x <= y
  <2>1. CASE a <= b
    <3>1. b >= a /\ b >= b /\ a <= a /\ a \in S /\ b \in S
      BY <1>1, <2>1
    <3> QED
      BY <1>1, <2>1, <3>1
  <2>2. CASE b <= a
    <3>1. a >= b /\ b <= b /\ a >= a /\ a \in S /\ b \in S
      BY <1>1, <2>2
    <3> QED
      BY <1>1, <2>2, <3>1
  <2> QED
    BY <2>1, <2>2
<1>3. /\ Max(S) \in S /\ \A y \in S : Max(S) >= y
      /\ Min(S) \in S /\ \A y \in S : Min(S) <= y
  BY <1>2 DEF Max, Min
<1> QED
  BY <1>1, <1>3

(* A program file with a header is given no more than the largest block,   *)
(* and no less than its PSP and its image take.                            *)
LEMMA ExecSizeIs ==
    ASSUME NEW exe \in Program, exe.isMz, NEW largest \in Nat,
           NEW want, want = DosExecSize(exe, largest), want # 0
    PROVE  want \in Nat /\ want <= largest /\ PspParas + exe.image <= want /\ want > 0
<1>1. /\ exe.image \in Nat /\ exe.min \in Nat /\ exe.max \in Nat
      /\ PspParas \in Nat \ {0}
  BY MemoryAssumption DEF Program
<1>2. PICK needed \in Nat : needed = PspParas + exe.image + exe.min
  BY <1>1
<1>3. PICK asked \in Nat : asked = PspParas + exe.image + exe.max
  BY <1>1
<1>4. PICK wanted \in Nat : wanted = Max({asked, needed}) /\ wanted >= needed
  BY PairIs
<1>5. PICK given \in Nat :
        given = Min({wanted, largest}) /\ given <= largest /\ (given = wanted \/ given = largest)
  BY PairIs
<1>6. needed <= largest
  <2> SUFFICES ASSUME ~ (needed <= largest)
               PROVE  FALSE
    OBVIOUS
  <2>1. needed > largest
    OBVIOUS
  <2>2. want = 0
    BY <1>2, <2>1 DEF DosExecSize
  <2> QED
    BY <2>2
<1>7. ~ (needed > largest)
  BY <1>6
<1>8. CASE exe.min = 0 /\ exe.max = 0
  <2>1. want = largest
    BY <1>2, <1>6, <1>7, <1>8 DEF DosExecSize
  <2> QED
    BY <1>1, <1>2, <1>6, <1>8, <2>1
<1>9. CASE ~ (exe.min = 0 /\ exe.max = 0)
  <2>1. want = given
    BY <1>2, <1>3, <1>4, <1>5, <1>7, <1>9 DEF DosExecSize
  <2> QED
    BY <1>1, <1>2, <1>4, <1>5, <1>6, <2>1
<1> QED
  BY <1>8, <1>9

LEMMA WrittenIs ==
    ASSUME NEW exe \in Program, NEW child \in Nat, NEW want \in Nat,
           PspParas + exe.image <= want
    PROVE  \A p \in Paras : p \in Written(exe, child, want) => child <= p /\ p < child + want
<1>1. /\ exe.image \in Nat /\ PspParas \in Nat \ {0} /\ Paras \subseteq Nat
  BY ParasAre, MemoryAssumption DEF Program
<1>2. PICK at : at = IF exe.isMz /\ exe.min = 0 /\ exe.max = 0
                     THEN child + want - exe.image ELSE child + PspParas
  OBVIOUS
<1>3. Written(exe, child, want)
        = (child .. child + PspParas - 1) \cup (at .. at + exe.image - 1)
  BY <1>2 DEF Written
<1>4. at \in Nat /\ child <= at /\ at + exe.image <= child + want
  <2>1. at = child + want - exe.image \/ at = child + PspParas
    BY <1>2
  <2> QED
    BY <1>1, <2>1
<1> QED
  BY <1>1, <1>3, <1>4

(* The rooms depend on the blocks alone.                                   *)
LEMMA SameRooms ==
    ASSUME NEW m, NEW n, Blocks(m) = Blocks(n)
    PROVE  GapRooms(m) = GapRooms(n)
<1>1. Gaps(m) = Gaps(n)
  BY DEF Gaps
<1> QED
  BY <1>1 DEF GapRooms

(* The three allocations of EXEC and what it writes: nothing taken, or an  *)
(* environment and a program block, both the child's.                      *)
Loaded(m, n, e, p, size) ==
    /\ e \in Nat /\ p \in Nat /\ size \in Nat /\ size > 0 /\ e # p
    /\ e - 1 \in Paras /\ p - 1 \in Paras
    /\ \A b \in Blocks(m) : b.base # e /\ b.base # p
    /\ Blocks(n) = Blocks(m) \cup {NewBlock(e, EnvParas, p), NewBlock(p, size, p)}

NewIs(b, segment, size, owner) ==
    b = NewBlock(segment, size, owner) /\ b.base = segment /\ b.size = size /\ b.owner = owner

EnvFor(m) == DosMcbAllocate(m, EnvParas, PspSeg)

ProbeWith(env) ==
    DosMcbAllocate(Overwrite(env.mem, env.segment .. env.segment + EnvParas - 1),
                   LargestRequest, PspSeg)

WantFrom(probe, exe) == IF probe.largest = 0 THEN 0 ELSE DosExecSize(exe, probe.largest)

LoadedImage(env, exe, want, child) ==
    Overwrite([child.mem EXCEPT ![env.segment - 1].owner = child.segment,
                                ![child.segment - 1].owner = child.segment],
              Written(exe, child.segment, want))

LEMMA ProbeIs ==
    ASSUME NEW m, Good(m), NEW env, env = EnvFor(m), env.ok, NEW probe, probe = ProbeWith(env)
    PROVE  /\ Good(probe.mem)
           /\ env.segment - 1 \in Paras /\ env.segment \in Nat
           /\ \A b \in Blocks(m) : b.base # env.segment
           /\ Blocks(probe.mem) = Blocks(m) \cup {NewBlock(env.segment, EnvParas, PspSeg)}
           /\ probe.largest \in Nat
           /\ probe.largest # 0 => probe.largest \in GapRooms(probe.mem)
<1>1. EnvParas \in Nat /\ PspSeg \in BlockOwners /\ Top \in Nat /\ LargestRequest \in Nat
      /\ LargestRequest = Top + 1
  BY InitialIs, MemoryAssumption DEF LargestRequest
<1>2. PICK e : e = env.segment
  OBVIOUS
<1>3. /\ Good(env.mem) /\ e - 1 \in Paras /\ e \in Nat /\ \A b \in Blocks(m) : b.base # e
      /\ Blocks(env.mem) = Blocks(m) \cup {NewBlock(e, EnvParas, PspSeg)}
  <2>1. PICK size \in Nat, owner \in BlockOwners : size = EnvParas /\ owner = PspSeg
    BY <1>1
  <2>2. env = DosMcbAllocate(m, size, owner)
    BY <2>1 DEF EnvFor
  <2>3. Gives(m, size, owner, env)
    BY <2>2, AllocIs
  <2> QED
    BY <1>2, <2>1, <2>3 DEF Gives
<1>4. PICK x : x = Overwrite(env.mem, e .. e + EnvParas - 1)
  OBVIOUS
<1>5. Good(x) /\ Blocks(x) = Blocks(env.mem)
  <2>1. PICK b \in Blocks(env.mem) : b = NewBlock(e, EnvParas, PspSeg)
    BY <1>3
  <2>2. b.base = e /\ b.size = EnvParas
    BY <2>1 DEF NewBlock
  <2>3. PICK ps : ps = e .. e + EnvParas - 1
    OBVIOUS
  <2>4. \A p \in Paras : p \in ps => b.base <= p /\ p < b.base + b.size
    BY <1>1, <1>3, <2>2, <2>3, ParasAre
  <2>5. x = Overwrite(env.mem, ps)
    BY <1>4, <2>3
  <2> QED
    BY <1>3, <2>4, <2>5, OverwriteIs
<1>6. probe = DosMcbAllocate(x, LargestRequest, PspSeg)
  BY <1>2, <1>4 DEF ProbeWith
<1>7. GapRooms(x) \subseteq 0 .. Top
  BY <1>5, GapRoomsAre
<1>8. ~ probe.ok /\ probe.largest = Max(GapRooms(x) \cup {0})
  <2>1. ~ \E r \in GapRooms(x) : r >= LargestRequest
    BY <1>1, <1>7
  <2> QED
    BY <1>1, <1>5, <1>6, <2>1, AllocFinds
<1>9. Good(probe.mem) /\ Blocks(probe.mem) = Blocks(x)
  <2>1. Gives(x, LargestRequest, PspSeg, probe)
    BY <1>1, <1>5, <1>6, AllocIs
  <2> QED
    BY <1>8, <2>1 DEF Gives
<1>10. Bounded(GapRooms(x) \cup {0})
  BY <1>1, <1>7 DEF Bounded
<1>11. probe.largest \in GapRooms(x) \cup {0}
  BY <1>8, <1>10, MaxIs
<1>12. GapRooms(probe.mem) = GapRooms(x)
  BY <1>9, SameRooms
<1> QED
  BY <1>1, <1>2, <1>3, <1>5, <1>7, <1>9, <1>11, <1>12

LEMMA ChildIs ==
    ASSUME NEW m, Good(m), NEW env, env = EnvFor(m), env.ok, NEW probe, probe = ProbeWith(env),
           NEW exe \in Program, exe.isMz,
           NEW want, want = WantFrom(probe, exe), want # 0,
           NEW child, child = DosMcbAllocate(probe.mem, want, PspSeg),
           NEW n, n = LoadedImage(env, exe, want, child)
    PROVE  Good(n) /\ Loaded(m, n, env.segment, child.segment, want)
<1>1. PICK e, p : e = env.segment /\ p = child.segment
  OBVIOUS
<1>2. /\ Good(probe.mem) /\ e - 1 \in Paras /\ e \in Nat
      /\ \A b \in Blocks(m) : b.base # e
      /\ Blocks(probe.mem) = Blocks(m) \cup {NewBlock(e, EnvParas, PspSeg)}
      /\ probe.largest \in Nat
      /\ probe.largest # 0 => probe.largest \in GapRooms(probe.mem)
  BY <1>1, ProbeIs
<1>3. PICK largest \in Nat : largest = probe.largest
  BY <1>2
<1>4. /\ want \in Nat /\ want <= largest /\ PspParas + exe.image <= want /\ want > 0
      /\ largest \in GapRooms(probe.mem)
  <2>1. largest # 0 /\ want = DosExecSize(exe, largest)
    BY <1>3 DEF WantFrom
  <2> QED
    BY <1>2, <1>3, <2>1, ExecSizeIs
<1>5. PspSeg \in BlockOwners /\ EnvParas \in Nat \ {0} /\ Top \in Nat
  BY InitialIs, MemoryAssumption
<1>6. child.ok
  <2>1. \E r \in GapRooms(probe.mem) : r >= want
    BY <1>3, <1>4
  <2> QED
    BY <1>2, <1>4, <2>1, AllocFinds
<1>7. /\ Good(child.mem) /\ p - 1 \in Paras /\ p \in Nat
      /\ \A b \in Blocks(probe.mem) : b.base # p
      /\ Blocks(child.mem) = Blocks(probe.mem) \cup {NewBlock(p, want, PspSeg)}
  <2>1. Gives(probe.mem, want, PspSeg, child)
    BY <1>2, <1>4, <1>5, AllocIs
  <2> QED
    BY <1>1, <1>6, <2>1 DEF Gives
<1>8. PICK E0, C0 : /\ NewIs(E0, e, EnvParas, PspSeg)
                    /\ NewIs(C0, p, want, PspSeg)
  <2>1. \A s, z, o : NewIs(NewBlock(s, z, o), s, z, o)
    BY DEF NewIs, NewBlock
  <2> QED
    BY <2>1
<1>9. E0 \in Blocks(probe.mem) /\ E0 \in Blocks(child.mem) /\ C0 \in Blocks(child.mem)
  BY <1>2, <1>7, <1>8 DEF NewIs
<1>10. e # p
  BY <1>7, <1>8, <1>9 DEF NewIs
<1>11. p \in BlockOwners
  <2>1. p + want <= Top
    BY <1>7, <1>8, <1>9, BlockIs DEF NewIs
  <2>2. p > 0
    BY <1>7, ParasAre
  <2> QED
    BY <1>4, <1>5, <1>7, <2>1, <2>2 DEF BlockOwners, FirstMcb
<1>12. PICK g : g = Given(child.mem, e - 1, p)
  OBVIOUS
<1>13. /\ Good(g) /\ Blocks(g) = {c \in Blocks(child.mem) : c.base # e} \cup {NewBlock(e, EnvParas, p)}
  <2>1. g = Given(child.mem, E0.base - 1, p)
    BY <1>8, <1>12 DEF NewIs
  <2>2. /\ Good(g)
        /\ Blocks(g) = {c \in Blocks(child.mem) : c.base # E0.base}
                       \cup {[base |-> E0.base, size |-> E0.size, owner |-> p]}
    BY <1>7, <1>9, <1>11, <2>1, GivenIs
  <2> QED
    BY <1>8, <2>2 DEF NewIs, NewBlock
<1>14. C0 \in Blocks(g)
  BY <1>8, <1>9, <1>10, <1>13 DEF NewIs
<1>15. PICK h : h = Given(g, p - 1, p)
  OBVIOUS
<1>16. /\ Good(h) /\ Blocks(h) = {c \in Blocks(g) : c.base # p} \cup {NewBlock(p, want, p)}
  <2>1. h = Given(g, C0.base - 1, p)
    BY <1>8, <1>15 DEF NewIs
  <2>2. /\ Good(h)
        /\ Blocks(h) = {c \in Blocks(g) : c.base # C0.base}
                       \cup {[base |-> C0.base, size |-> C0.size, owner |-> p]}
    BY <1>11, <1>13, <1>14, <2>1, GivenIs
  <2> QED
    BY <1>8, <2>2 DEF NewIs, NewBlock
<1>17. h = [child.mem EXCEPT ![e - 1].owner = p, ![p - 1].owner = p]
  BY <1>12, <1>15 DEF Given
<1>18. PICK C1 \in Blocks(h) : NewIs(C1, p, want, p)
  <2>1. NewBlock(p, want, p) \in Blocks(h)
    BY <1>16
  <2> QED
    BY <2>1 DEF NewIs, NewBlock
<1>19. Good(n) /\ Blocks(n) = Blocks(h)
  <2>1. PICK ps : ps = Written(exe, p, want)
    OBVIOUS
  <2>2. n = Overwrite(h, ps)
    BY <1>1, <1>17, <2>1 DEF LoadedImage
  <2>3. \A q \in Paras : q \in ps => C1.base <= q /\ q < C1.base + C1.size
    BY <1>4, <1>7, <1>18, <2>1, WrittenIs DEF NewIs
  <2> QED
    BY <1>16, <1>18, <2>2, <2>3, OverwriteIs
<1>20. \A b \in Blocks(m) : b.base # p /\ b.base # e
  BY <1>2, <1>7
<1>21. Blocks(n) = Blocks(m) \cup {NewBlock(e, EnvParas, p), NewBlock(p, want, p)}
  <2>1. NewBlock(e, EnvParas, p).base = e /\ NewBlock(e, EnvParas, PspSeg).base = e
        /\ NewBlock(p, want, PspSeg).base = p
    BY DEF NewBlock
  <2>2. \A b : b \in Blocks(g) <=> b \in Blocks(m) \/ b = NewBlock(p, want, PspSeg) \/ b = NewBlock(e, EnvParas, p)
    BY <1>2, <1>7, <1>10, <1>13, <1>20, <2>1
  <2>3. \A b : b \in Blocks(h) <=> b \in Blocks(m) \/ b = NewBlock(e, EnvParas, p) \/ b = NewBlock(p, want, p)
    BY <1>10, <1>16, <1>20, <2>1, <2>2
  <2> QED
    BY <1>19, <2>3
<1> QED
  BY <1>1, <1>2, <1>4, <1>7, <1>10, <1>19, <1>20, <1>21 DEF Loaded

SavedFrame(m, cur, p, e) == [psp |-> cur, child |-> p, env |-> e, before |-> Blocks(m)]

LEMMA SessionIs ==
    ASSUME session \in Sessions
    PROVE  session.requests \subseteq Nat /\ session.programs \subseteq Program
<1>1. session \in Session
  BY MemoryAssumption
<1> QED
  BY <1>1 DEF Session

LEMMA ExecIs ==
    ASSUME ChainInv, ExecBegin
    PROVE  /\ Good(mem')
           /\ \/ Blocks(mem') = Blocks(mem) /\ psp' = psp /\ frames' = frames
              \/ \E e, p, size : /\ Loaded(mem, mem', e, p, size)
                                 /\ psp' = p
                                 /\ frames' = Append(frames, SavedFrame(mem, psp, p, e))
<1>1. PICK exe \in session.programs :
      \E env   \in {EnvFor(mem)} :
      \E probe \in {ProbeWith(env)} :
      \E want  \in {WantFrom(probe, exe)} :
      \E child \in {DosMcbAllocate(probe.mem, want, PspSeg)} :
          CASE ~ env.ok ->
                 mem' = env.mem /\ UNCHANGED <<psp, frames>>
            [] env.ok /\ want = 0 ->
                 mem' = DosMcbFree(probe.mem, env.segment) /\ UNCHANGED <<psp, frames>>
            [] OTHER ->
                 /\ mem' = LoadedImage(env, exe, want, child)
                 /\ psp' = child.segment
                 /\ frames' = Append(frames, SavedFrame(mem, psp, child.segment, env.segment))
  BY DEF ExecBegin, EnvFor, ProbeWith, WantFrom, LoadedImage, SavedFrame
<1>2. PICK env : env = EnvFor(mem)
  OBVIOUS
<1>3. PICK probe : probe = ProbeWith(env)
  OBVIOUS
<1>4. PICK want : want = WantFrom(probe, exe)
  OBVIOUS
<1>5. PICK child : child = DosMcbAllocate(probe.mem, want, PspSeg)
  OBVIOUS
<1>6. PICK n : n = LoadedImage(env, exe, want, child)
  OBVIOUS
<1>7. /\ ~ env.ok => mem' = env.mem /\ UNCHANGED <<psp, frames>>
      /\ env.ok /\ want = 0 => mem' = DosMcbFree(probe.mem, env.segment) /\ UNCHANGED <<psp, frames>>
      /\ env.ok /\ want # 0 =>
            /\ mem' = n /\ psp' = child.segment
            /\ frames' = Append(frames, SavedFrame(mem, psp, child.segment, env.segment))
  BY <1>1, <1>2, <1>3, <1>4, <1>5, <1>6
<1>8. Good(mem) /\ exe \in Program /\ exe.isMz
  BY SessionIs DEF ChainInv, LoadsFit
<1>9. EnvParas \in Nat /\ PspSeg \in BlockOwners
  BY InitialIs, MemoryAssumption
<1>10. CASE ~ env.ok
  <2>1. Gives(mem, EnvParas, PspSeg, env)
    BY <1>2, <1>8, <1>9, AllocIs DEF EnvFor
  <2> QED
    BY <1>7, <1>10, <2>1 DEF Gives
<1>11. CASE env.ok /\ want = 0
  <2>1. /\ Good(probe.mem)
        /\ env.segment - 1 \in Paras /\ env.segment \in Nat
        /\ \A b \in Blocks(mem) : b.base # env.segment
        /\ Blocks(probe.mem) = Blocks(mem) \cup {NewBlock(env.segment, EnvParas, PspSeg)}
    BY <1>2, <1>3, <1>8, <1>11, ProbeIs
  <2>2. Good(mem') /\ Blocks(mem') = {b \in Blocks(probe.mem) : b.base # env.segment}
    BY <1>7, <1>11, <2>1, FreeIs
  <2>3. NewBlock(env.segment, EnvParas, PspSeg).base = env.segment
    BY DEF NewBlock
  <2>4. Blocks(mem') = Blocks(mem)
    BY <2>1, <2>2, <2>3
  <2> QED
    BY <1>7, <1>11, <2>2, <2>4
<1>12. CASE env.ok /\ want # 0
  <2>1. Good(n) /\ Loaded(mem, n, env.segment, child.segment, want)
    BY <1>2, <1>3, <1>4, <1>5, <1>6, <1>8, <1>12, ChildIs
  <2> QED
    BY <1>7, <1>12, <2>1
<1> QED
  BY <1>10, <1>11, <1>12

-----------------------------------------------------------------------------
(* The steps, as what they do to the blocks.                               *)
LEMMA RunningIs ==
    ASSUME ChainInv, NEW i \in 1 .. Len(frames) + 1
    PROVE  /\ Running(frames, psp, i) \in BlockOwners /\ Running(frames, psp, i) # DosOwner
           /\ \E b \in Blocks(mem) : b.base = Running(frames, psp, i) /\ b.owner = b.base /\ b.size > 0
<1>1. PICK b \in Blocks(mem) :
        b.base = Running(frames, psp, i) /\ b.owner = Running(frames, psp, i) /\ b.size > 0
  BY DEF ChainInv, Placed, Occupies
<1>2. b.base \in 1 .. Top /\ b.base + b.size <= Top /\ b.size \in Nat /\ Top \in Nat
      /\ DosOwner \in Int \ (0 .. Top)
  BY BlockIs, MemoryAssumption DEF ChainInv, FirstMcb
<1>3. b.base \in 1 .. Top - 1 /\ b.base # DosOwner
  BY <1>1, <1>2
<1> QED
  BY <1>1, <1>3 DEF BlockOwners, FirstMcb

LEMMA CurrentIs ==
    ASSUME ChainInv
    PROVE  /\ Len(frames) \in Nat /\ psp \in BlockOwners /\ psp # DosOwner /\ psp \in Nat
           /\ \E b \in Blocks(mem) : b.base = psp /\ b.owner = psp /\ b.size > 0
           /\ frames # <<>> => /\ Len(frames) > 0 /\ frames[Len(frames)] \in Frames
                               /\ frames[Len(frames)].child = psp
<1>1. Len(frames) \in Nat
  BY DEF ChainInv
<1>2. Len(frames) + 1 \in 1 .. Len(frames) + 1 /\ Running(frames, psp, Len(frames) + 1) = psp
  BY <1>1 DEF Running
<1>3. psp \in BlockOwners /\ psp # DosOwner
  BY <1>2, RunningIs
<1>4. \E b \in Blocks(mem) : b.base = psp /\ b.owner = psp /\ b.size > 0
  BY <1>2, RunningIs
<1>5. psp \in Nat
  BY <1>3 DEF BlockOwners, FirstMcb
<1>6. ASSUME frames # <<>>
      PROVE  /\ Len(frames) > 0 /\ frames[Len(frames)] \in Frames
             /\ frames[Len(frames)].child = psp
  <2>1. Len(frames) > 0 /\ frames[Len(frames)] \in Frames
    BY <1>6, FrontOfStack DEF ChainInv
  <2>2. Len(frames) \in 1 .. Len(frames)
    BY <1>1, <2>1
  <2> QED
    BY <1>2, <2>1, <2>2 DEF ChainInv, Placed
<1> QED
  BY <1>1, <1>3, <1>4, <1>5, <1>6

LEMMA AllocateStep ==
    ASSUME ChainInv, Int21Allocate
    PROVE  /\ Good(mem')
           /\ \/ Blocks(mem') = Blocks(mem)
              \/ \E s \in Nat, z \in Nat :
                    /\ \A b \in Blocks(mem) : b.base # s
                    /\ Blocks(mem') = Blocks(mem) \cup {NewBlock(s, z, psp)}
<1>1. PICK z \in session.requests \cup {LargestRequest} : mem' = DosMcbAllocate(mem, z, psp).mem
  BY DEF Int21Allocate
<1>2. z \in Nat
  BY <1>1, SessionIs, MemoryAssumption DEF ChainInv, LargestRequest
<1>3. PICK a : a = DosMcbAllocate(mem, z, psp) /\ mem' = a.mem
  BY <1>1
<1>4. Gives(mem, z, psp, a)
  BY <1>2, <1>3, CurrentIs, AllocIs DEF ChainInv
<1> QED
  BY <1>2, <1>3, <1>4 DEF Gives

LEMMA FreeStep ==
    ASSUME ChainInv, Int21Free
    PROVE  /\ Good(mem')
           /\ \E b \in Blocks(mem) :
                 /\ b.owner = psp /\ b.base # psp
                 /\ IsEnvironment(b.base) => session.freesEnvironment
                 /\ Blocks(mem') = {c \in Blocks(mem) : c.base # b.base}
<1>1. PICK b \in OwnBlocks : /\ b.base # psp
                             /\ IsEnvironment(b.base) => session.freesEnvironment
                             /\ mem' = DosMcbFree(mem, b.base)
  BY DEF Int21Free
<1>2. b \in Blocks(mem) /\ b.owner = psp
  BY <1>1 DEF OwnBlocks
<1>3. b.base \in Int /\ b.base - 1 \in Paras
  BY <1>2, BlockIs DEF ChainInv
<1>4. Good(mem') /\ Blocks(mem') = {c \in Blocks(mem) : c.base # b.base}
  BY <1>1, <1>3, FreeIs DEF ChainInv
<1> QED
  BY <1>1, <1>2, <1>4

(* A block resized in place, or left as it was.                            *)
ResizedTo(B, C, b, z) ==
    C = B \/ C = {c \in B : c.base # b.base} \cup {Resized(b, z)}

LEMMA ResizeStep ==
    ASSUME ChainInv, Int21Resize
    PROVE  /\ Good(mem')
           /\ \E b \in Blocks(mem), z \in Nat :
                 /\ b.owner = psp /\ (b.base = psp => z > 0)
                 /\ ResizedTo(Blocks(mem), Blocks(mem'), b, z)
<1>1. PICK b \in OwnBlocks, z \in session.requests :
        /\ b.base = psp => z >= PspParas
        /\ mem' = DosMcbResize(mem, b.base, z).mem
  BY DEF Int21Resize
<1>2. b \in Blocks(mem) /\ b.owner = psp /\ z \in Nat /\ PspParas \in Nat \ {0}
  BY <1>1, SessionIs, MemoryAssumption DEF OwnBlocks, ChainInv
<1>3. Good(mem') /\ ResizedTo(Blocks(mem), Blocks(mem'), b, z)
  BY <1>1, <1>2, ResizeIs DEF ChainInv, ResizedTo
<1> QED
  BY <1>1, <1>2, <1>3

LEMMA EndStep ==
    ASSUME ChainInv, Terminate
    PROVE  /\ Good(mem') /\ frames # <<>>
           /\ Blocks(mem') = {b \in Blocks(mem) :
                                 b.base # psp /\ b.owner # psp /\ b.base # Frame.env}
<1>1. /\ frames # <<>>
      /\ mem' = DosMcbFree(FreeOwned(DosMcbFree(mem, Frame.child), Frame.child), Frame.env)
  BY DEF Terminate
<1>2. /\ Frame.child = psp /\ Frame.env \in FirstMcb + 1 .. Top - 1 /\ psp \in BlockOwners
      /\ psp # DosOwner /\ psp \in Nat
  BY <1>1, CurrentIs DEF Frame, Frames
<1>3. psp - 1 \in Paras /\ Frame.env - 1 \in Paras /\ psp \in Int /\ Frame.env \in Int
  <2>1. psp \in 1 .. Top - 1 /\ Frame.env \in 1 .. Top - 1 /\ Top \in Nat
    BY <1>2, MemoryAssumption DEF BlockOwners, FirstMcb
  <2> QED
    BY <2>1 DEF Paras, FirstMcb
<1>4. PICK n : n = DosMcbFree(mem, psp)
  OBVIOUS
<1>5. Good(n) /\ Blocks(n) = {b \in Blocks(mem) : b.base # psp}
  BY <1>3, <1>4, FreeIs DEF ChainInv
<1>6. PICK o : o = FreeOwned(n, psp)
  OBVIOUS
<1>7. Good(o) /\ Blocks(o) = {b \in Blocks(n) : b.owner # psp}
  BY <1>2, <1>5, <1>6, FreeOwnedIs
<1>8. PICK e \in Int : e = Frame.env /\ e - 1 \in Paras
  BY <1>3
<1>9. mem' = DosMcbFree(o, e)
  BY <1>1, <1>2, <1>4, <1>6, <1>8
<1>10. Good(mem') /\ Blocks(mem') = {b \in Blocks(o) : b.base # e}
  BY <1>7, <1>8, <1>9, FreeIs
<1> QED
  BY <1>1, <1>5, <1>7, <1>8, <1>10

LEMMA StayStep ==
    ASSUME ChainInv, StayResident
    PROVE  /\ Good(mem') /\ frames # <<>> /\ session.staysResident
           /\ \E b \in Blocks(mem), z \in Nat :
                 /\ b.owner = psp /\ b.base = psp /\ z > 0
                 /\ ResizedTo(Blocks(mem), Blocks(mem'), b, z)
<1>1. /\ frames # <<>> /\ session.staysResident
      /\ \E size \in session.requests :
            mem' = DosMcbResize(mem, Frame.child, Max({size, PspParas})).mem
  BY DEF StayResident
<1>2. PICK size \in session.requests :
        mem' = DosMcbResize(mem, Frame.child, Max({size, PspParas})).mem
  BY <1>1
<1>3. size \in Nat /\ PspParas \in Nat \ {0}
  BY SessionIs, MemoryAssumption DEF ChainInv
<1>4. PICK z \in Nat : z = Max({size, PspParas}) /\ z > 0
  BY <1>3, PairIs
<1>5. Frame.child = psp
  BY <1>1, CurrentIs DEF Frame
<1>6. PICK b \in Blocks(mem) : b.base = psp /\ b.owner = psp /\ b.size > 0
  BY CurrentIs
<1>7. mem' = DosMcbResize(mem, b.base, z).mem
  BY <1>2, <1>4, <1>5, <1>6
<1>8. Good(mem') /\ ResizedTo(Blocks(mem), Blocks(mem'), b, z)
  BY <1>7, ResizeIs DEF ChainInv, ResizedTo
<1> QED
  BY <1>1, <1>4, <1>6, <1>8

LEMMA WriteStep ==
    ASSUME ChainInv, GuestWrites
    PROVE  Good(mem') /\ Blocks(mem') = Blocks(mem)
<1>1. PICK b \in OwnBlocks : mem' = Overwrite(mem, b.base .. b.base + b.size - 1)
  BY DEF GuestWrites
<1>2. b \in Blocks(mem)
  BY DEF OwnBlocks
<1>3. b.base \in Nat /\ b.size \in Nat
  BY <1>2, BlockIs DEF ChainInv
<1>4. PICK ps : ps = b.base .. b.base + b.size - 1
  OBVIOUS
<1>5. \A p \in Paras : p \in ps => b.base <= p /\ p < b.base + b.size
  BY <1>3, <1>4, ParasAre
<1>6. mem' = Overwrite(mem, ps)
  BY <1>1, <1>4
<1> QED
  BY <1>2, <1>5, <1>6, OverwriteIs DEF ChainInv

LEMMA StartStep ==
    ASSUME ChainInv, StartupBuildMemoryChain
    PROVE  /\ Good(mem') /\ psp = PspSeg /\ frames = <<>> /\ resident = {}
           /\ mem = DosMcbInitializeWithTop
           /\ \/ Blocks(mem') = Blocks(mem)
              \/ \E z, a, size \in Nat :
                    /\ 0 < z /\ z < Top - PspSeg
                    /\ \A b \in Blocks(mem) : b.base # a
                    /\ Blocks(mem') = {b \in Blocks(mem) : b.base # PspSeg}
                                      \cup {NewBlock(PspSeg, z, PspSeg), NewBlock(a, size, DosOwner)}
<1>1. mem = DosMcbInitializeWithTop /\ psp = PspSeg /\ frames = <<>> /\ resident = {}
  BY DEF StartupBuildMemoryChain, ChainInv, Untouched
<1>2. PICK size \in Nat : mem' = mem \/ mem' = DosMcbReserveTop(mem, size)
  <2>1. CdsParas \in Nat /\ CdsParas + SftParas \in Nat
    BY MemoryAssumption
  <2>2. mem' = DosMcbReserveTop(mem, CdsParas + SftParas) \/ mem' = DosMcbReserveTop(mem, CdsParas)
    BY DEF StartupBuildMemoryChain
  <2> QED
    BY <2>1, <2>2
<1>3. CASE mem' = mem
  BY <1>1, <1>3 DEF ChainInv
<1>4. CASE mem' # mem
  <2>1. mem' = DosMcbReserveTop(mem, size)
    BY <1>2, <1>4
  <2> QED
    BY <1>1, <1>4, <2>1, ReserveIs
<1> QED
  BY <1>3, <1>4

-----------------------------------------------------------------------------
(* The chain's invariant is inductive.                                     *)

(* A program's own block stays, whatever becomes of its size.              *)
KeepsPrograms(B, C) ==
    \A b \in B : b.base = b.owner /\ b.size > 0
                   => \E c \in C : c.base = b.base /\ c.owner = b.base /\ c.size > 0

LEMMA PlacedKept ==
    ASSUME NEW B, NEW C, NEW fr, NEW cur, Placed(B, fr, cur), KeepsPrograms(B, C)
    PROVE  Placed(C, fr, cur)
<1>1. \A i \in 1 .. Len(fr) + 1 : Occupies(C, Running(fr, cur, i))
  BY DEF Placed, Occupies, KeepsPrograms
<1> QED
  BY <1>1 DEF Placed

Pushed(f, fr, cur, r, top) ==
    /\ f \in Seq(Frames) /\ Len(f) = Len(fr) + 1 /\ Len(fr) \in Nat
    /\ \A i \in 1 .. Len(fr) : f[i] = fr[i]
    /\ f[Len(fr) + 1] = r
    /\ \A i \in 1 .. Len(fr) + 1 : Running(f, top, i) = Running(fr, cur, i)
    /\ Running(f, top, Len(fr) + 2) = top

LEMMA PushIs ==
    ASSUME NEW fr \in Seq(Frames), NEW cur, NEW r \in Frames, r.psp = cur, NEW top,
           NEW f, f = Append(fr, r)
    PROVE  Pushed(f, fr, cur, r, top)
<1>1. /\ f \in Seq(Frames) /\ Len(f) = Len(fr) + 1 /\ Len(fr) \in Nat
      /\ \A i \in 1 .. Len(fr) : f[i] = fr[i]
      /\ f[Len(fr) + 1] = r
  BY AppendProperties
<1>2. ASSUME NEW i \in 1 .. Len(fr) + 1
      PROVE  Running(f, top, i) = Running(fr, cur, i)
  BY <1>1 DEF Running
<1>3. Running(f, top, Len(fr) + 2) = top
  BY <1>1 DEF Running
<1> QED
  BY <1>1, <1>2, <1>3 DEF Pushed

Popped(f, fr, cur, top) ==
    /\ f \in Seq(Frames) /\ Len(fr) \in Nat \ {0} /\ Len(f) = Len(fr) - 1
    /\ \A i \in 1 .. Len(f) : f[i] = fr[i]
    /\ \A i \in 1 .. Len(fr) : Running(f, top, i) = Running(fr, cur, i)

LEMMA PopIs ==
    ASSUME NEW fr \in Seq(Frames), fr # <<>>, NEW cur,
           NEW f, f = SubSeq(fr, 1, Len(fr) - 1), NEW top, top = fr[Len(fr)].psp
    PROVE  Popped(f, fr, cur, top)
<1>1. /\ f \in Seq(Frames) /\ Len(fr) \in Nat \ {0} /\ Len(f) = Len(fr) - 1
      /\ \A i \in 1 .. Len(f) : f[i] = fr[i]
  BY FrontOfStack
<1>2. ASSUME NEW i \in 1 .. Len(fr)
      PROVE  Running(f, top, i) = Running(fr, cur, i)
  BY <1>1 DEF Running
<1> QED
  BY <1>1, <1>2 DEF Popped

ParentsOccupy(C, fr, cur) == \A i \in 1 .. Len(fr) : Occupies(C, Running(fr, cur, i))

LEMMA PlacedPopped ==
    ASSUME NEW B, NEW C, NEW fr, NEW cur, Placed(B, fr, cur),
           NEW f, NEW top, Popped(f, fr, cur, top), ParentsOccupy(C, fr, cur)
    PROVE  Placed(C, f, top)
<1>1. /\ Len(fr) \in Nat \ {0} /\ Len(f) = Len(fr) - 1
      /\ \A i \in 1 .. Len(f) : f[i] = fr[i]
      /\ \A i \in 1 .. Len(fr) : Running(f, top, i) = Running(fr, cur, i)
  BY DEF Popped
<1>2. /\ \A i, j \in 1 .. Len(fr) + 1 : i # j => Running(fr, cur, i) # Running(fr, cur, j)
      /\ \A i \in 1 .. Len(fr) : fr[i].child = Running(fr, cur, i + 1)
      /\ \A i \in 1 .. Len(fr) : \A j \in 1 .. i : fr[i].env # Running(fr, cur, j)
  BY DEF Placed
<1>3. Len(f) + 1 = Len(fr) /\ Len(f) \in Nat
  BY <1>1
<1>4. \A i \in 1 .. Len(f) + 1 : Occupies(C, Running(f, top, i))
  BY <1>1, <1>3 DEF ParentsOccupy
<1>5. ASSUME NEW i \in 1 .. Len(f) + 1, NEW j \in 1 .. Len(f) + 1, i # j
      PROVE  Running(f, top, i) # Running(f, top, j)
  BY <1>1, <1>2, <1>3, <1>5
<1>6. ASSUME NEW i \in 1 .. Len(f)
      PROVE  /\ f[i].child = Running(f, top, i + 1)
             /\ \A j \in 1 .. i : f[i].env # Running(f, top, j)
  <2>1. i \in 1 .. Len(fr) /\ i + 1 \in 1 .. Len(fr) /\ f[i] = fr[i]
    BY <1>1, <1>3
  <2>2. \A j \in 1 .. i : j \in 1 .. Len(fr)
    BY <1>3
  <2> QED
    BY <1>1, <1>2, <2>1, <2>2
<1> QED
  BY <1>4, <1>5, <1>6 DEF Placed

LEMMA PlacedPushed ==
    ASSUME NEW B, NEW C, NEW fr \in Seq(Frames), NEW cur, Placed(B, fr, cur), B \subseteq C,
           NEW r \in Frames, r.psp = cur, NEW f, f = Append(fr, r), NEW top, r.child = top,
           Occupies(C, top), \A b \in B : b.base # top /\ b.base # r.env, r.env # top
    PROVE  Placed(C, f, top)
<1>1. /\ Len(f) = Len(fr) + 1 /\ Len(fr) \in Nat
      /\ \A i \in 1 .. Len(fr) : f[i] = fr[i]
      /\ f[Len(fr) + 1] = r
      /\ \A i \in 1 .. Len(fr) + 1 : Running(f, top, i) = Running(fr, cur, i)
      /\ Running(f, top, Len(fr) + 2) = top
  <2>1. Pushed(f, fr, cur, r, top)
    BY PushIs
  <2> QED
    BY <2>1 DEF Pushed
<1>2. /\ \A i, j \in 1 .. Len(fr) + 1 : i # j => Running(fr, cur, i) # Running(fr, cur, j)
      /\ \A i \in 1 .. Len(fr) : fr[i].child = Running(fr, cur, i + 1)
      /\ \A i \in 1 .. Len(fr) : \A j \in 1 .. i : fr[i].env # Running(fr, cur, j)
      /\ \A i \in 1 .. Len(fr) + 1 : Occupies(B, Running(fr, cur, i))
  BY DEF Placed
<1>3. ASSUME NEW i \in 1 .. Len(fr) + 1
      PROVE  /\ Occupies(C, Running(f, top, i)) /\ Running(f, top, i) # top
             /\ Running(f, top, i) # r.env
  BY <1>1, <1>2 DEF Occupies
<1>4. \A i \in 1 .. Len(f) + 1 : i \in 1 .. Len(fr) + 1 \/ i = Len(fr) + 2
  BY <1>1
<1>5. \A i \in 1 .. Len(f) + 1 : Occupies(C, Running(f, top, i))
  BY <1>1, <1>3, <1>4
<1>6. ASSUME NEW i \in 1 .. Len(f) + 1, NEW j \in 1 .. Len(f) + 1, i # j
      PROVE  Running(f, top, i) # Running(f, top, j)
  BY <1>1, <1>2, <1>3, <1>4, <1>6
<1>7. ASSUME NEW i \in 1 .. Len(f)
      PROVE  /\ f[i].child = Running(f, top, i + 1)
             /\ \A j \in 1 .. i : f[i].env # Running(f, top, j)
  <2>1. CASE i = Len(fr) + 1
    <3>1. f[i] = r /\ i + 1 = Len(fr) + 2
      BY <1>1, <2>1
    <3>2. \A j \in 1 .. i : j \in 1 .. Len(fr) + 1
      BY <1>1, <2>1
    <3> QED
      BY <1>1, <1>3, <3>1, <3>2
  <2>2. CASE i # Len(fr) + 1
    <3>1. i \in 1 .. Len(fr) /\ i + 1 \in 1 .. Len(fr) + 1 /\ f[i] = fr[i]
      BY <1>1, <2>2
    <3>2. \A j \in 1 .. i : j \in 1 .. Len(fr) + 1
      BY <1>1, <3>1
    <3> QED
      BY <1>1, <1>2, <3>1, <3>2
  <2> QED
    BY <2>1, <2>2
<1> QED
  BY <1>5, <1>6, <1>7 DEF Placed

LEMMA BlocksAllocated ==
    ASSUME NEW m, Good(m)
    PROVE  Blocks(m) \in SUBSET Allocated
<1>1. ASSUME NEW b \in Blocks(m)
      PROVE  b \in Allocated
  <2>1. /\ b = [base |-> b.base, size |-> b.size, owner |-> b.owner]
        /\ b.base \in FirstMcb + 1 .. Top /\ b.size \in 0 .. Top /\ b.owner \in BlockOwners
    BY BlockIs
  <2>2. b.owner \in Paras \cup {DosOwner}
    BY <2>1, MemoryAssumption DEF BlockOwners, Paras, FirstMcb
  <2> QED
    BY <2>1, <2>2 DEF Allocated
<1> QED
  BY <1>1

LEMMA ChainInit == Init /\ LoadsFit => ChainInv
<1> SUFFICES ASSUME Init, LoadsFit PROVE ChainInv
  OBVIOUS
<1>1. /\ session \in Sessions /\ mem = DosMcbInitializeWithTop /\ psp = PspSeg /\ frames = <<>>
      /\ started = FALSE /\ resident = {}
  BY DEF Init
<1>2. Good(mem) /\ Blocks(mem) = StartBlocks /\ PspSeg \in 1 .. Top - 1
  BY <1>1, InitialIs DEF FirstMcb
<1>3. Len(frames) = 0 /\ frames \in Seq(Frames)
  BY <1>1
<1>4. Occupies(Blocks(mem), psp)
  <2>1. NewBlock(PspSeg, Top - PspSeg, PspSeg) \in Blocks(mem)
    BY <1>2 DEF StartBlocks
  <2>2. Top - PspSeg > 0
    BY <1>2, MemoryAssumption
  <2>3. PICK b \in Blocks(mem) : b.base = PspSeg /\ b.owner = PspSeg /\ b.size = Top - PspSeg
    BY <2>1 DEF NewBlock
  <2> QED
    BY <1>1, <2>2, <2>3 DEF Occupies
<1>5. \A i \in 1 .. Len(frames) + 1 : i = 1 /\ Running(frames, psp, i) = psp
  BY <1>3 DEF Running
<1>6. Placed(Blocks(mem), frames, psp)
  BY <1>3, <1>4, <1>5 DEF Placed
<1> QED
  BY <1>1, <1>2, <1>3, <1>6 DEF ChainInv, Untouched

(* What a step has to leave.                                               *)
After(B, fr, cur, res) ==
    /\ fr \in Seq(Frames) /\ Placed(B, fr, cur) /\ res \in SUBSET Allocated

LEMMA ChainFrom ==
    ASSUME ChainInv, UNCHANGED session, started' = TRUE, Good(mem'),
           After(Blocks(mem'), frames', psp', resident')
    PROVE  ChainInv'
  BY DEF ChainInv, LoadsFit, Untouched, After

LEMMA KeptBy ==
    ASSUME ChainInv, KeepsPrograms(Blocks(mem), Blocks(mem')), UNCHANGED <<frames, psp, resident>>
    PROVE  After(Blocks(mem'), frames', psp', resident')
<1>1. Placed(Blocks(mem'), frames, psp)
  BY PlacedKept DEF ChainInv
<1> QED
  BY <1>1 DEF After, ChainInv

LEMMA ResizeKeeps ==
    ASSUME NEW B, NEW C, NEW b \in B, NEW z \in Nat, b.base = b.owner => z > 0,
           \A c \in B : c.base = b.base => c = b, ResizedTo(B, C, b, z)
    PROVE  /\ KeepsPrograms(B, C)
           /\ \A c \in B : c.base # b.base => c \in C
<1>1. Resized(b, z).base = b.base /\ Resized(b, z).owner = b.owner /\ Resized(b, z).size = z
  BY DEF Resized
<1>2. CASE C = B
  BY <1>2 DEF KeepsPrograms
<1>3. CASE C = {c \in B : c.base # b.base} \cup {Resized(b, z)}
  <2>1. ASSUME NEW c \in B, c.base = c.owner, c.size > 0
        PROVE  \E d \in C : d.base = c.base /\ d.owner = c.base /\ d.size > 0
    <3>1. CASE c.base # b.base
      <4>1. c \in C
        BY <1>3, <3>1
      <4> QED
        BY <2>1, <4>1
    <3>2. CASE c.base = b.base
      <4>1. Resized(b, z) \in C /\ c = b
        BY <1>3, <3>2
      <4> QED
        BY <1>1, <2>1, <3>2, <4>1
    <3> QED
      BY <3>1, <3>2
  <2> QED
    BY <1>3, <2>1 DEF KeepsPrograms
<1> QED
  BY <1>2, <1>3 DEF ResizedTo

LEMMA ChainStep == ChainInv /\ [Next]_vars => ChainInv'
<1> SUFFICES ASSUME ChainInv, [Next]_vars PROVE ChainInv'
  OBVIOUS
<1>0. /\ Good(mem) /\ frames \in Seq(Frames) /\ Placed(Blocks(mem), frames, psp)
      /\ resident \in SUBSET Allocated /\ Len(frames) \in Nat /\ psp \in BlockOwners /\ psp \in Nat
      /\ psp # DosOwner /\ \A b, c \in Blocks(mem) : b.base = c.base => b = c
  BY CurrentIs, OneBlock DEF ChainInv
<1>1. CASE StartupBuildMemoryChain
  <2>1. UNCHANGED <<session, psp, frames, resident>> /\ started' = TRUE
    BY <1>1 DEF StartupBuildMemoryChain
  <2>2. /\ Good(mem') /\ psp = PspSeg /\ frames = <<>>
        /\ \/ Blocks(mem') = Blocks(mem)
           \/ \E z, a, size \in Nat :
                 /\ 0 < z /\ z < Top - PspSeg
                 /\ \A b \in Blocks(mem) : b.base # a
                 /\ Blocks(mem') = {b \in Blocks(mem) : b.base # PspSeg}
                                   \cup {NewBlock(PspSeg, z, PspSeg), NewBlock(a, size, DosOwner)}
    BY <1>1, StartStep
  <2>3. CASE Blocks(mem') = Blocks(mem)
    <3>1. KeepsPrograms(Blocks(mem), Blocks(mem'))
      BY <2>3 DEF KeepsPrograms
    <3> QED
      BY <2>1, <2>2, <3>1, ChainFrom, KeptBy
  <2>4. ASSUME NEW z \in Nat, NEW a, NEW size, 0 < z,
               Blocks(mem') = {b \in Blocks(mem) : b.base # PspSeg}
                              \cup {NewBlock(PspSeg, z, PspSeg), NewBlock(a, size, DosOwner)}
        PROVE  ChainInv'
    <3>1. PICK d \in Blocks(mem') : d.base = PspSeg /\ d.owner = PspSeg /\ d.size = z
      <4>1. NewBlock(PspSeg, z, PspSeg) \in Blocks(mem')
        BY <2>4
      <4> QED
        BY <4>1 DEF NewBlock
    <3>2. \A b \in Blocks(mem) : b.base # PspSeg => b \in Blocks(mem')
      BY <2>4
    <3>3. KeepsPrograms(Blocks(mem), Blocks(mem'))
      BY <2>4, <3>1, <3>2 DEF KeepsPrograms
    <3> QED
      BY <2>1, <2>2, <3>3, ChainFrom, KeptBy
  <2> QED
    BY <2>2, <2>3, <2>4
<1>2. CASE Int21Allocate
  <2>1. UNCHANGED <<session, psp, frames, started, resident>> /\ started
    BY <1>2 DEF Int21Allocate
  <2>2. Good(mem') /\ Blocks(mem) \subseteq Blocks(mem')
    BY <1>2, AllocateStep
  <2>3. KeepsPrograms(Blocks(mem), Blocks(mem'))
    BY <2>2 DEF KeepsPrograms
  <2>4. started' = TRUE
    BY <2>1 DEF ChainInv
  <2> QED
    BY <2>1, <2>2, <2>3, <2>4, ChainFrom, KeptBy
<1>3. CASE Int21Free
  <2>1. UNCHANGED <<session, psp, frames, started, resident>> /\ started
    BY <1>3 DEF Int21Free
  <2>2. PICK b \in Blocks(mem) : /\ b.owner = psp /\ b.base # psp
                                 /\ Blocks(mem') = {c \in Blocks(mem) : c.base # b.base}
    BY <1>3, FreeStep
  <2>3. KeepsPrograms(Blocks(mem), Blocks(mem'))
    <3>1. ASSUME NEW c \in Blocks(mem), c.base = c.owner, c.size > 0
          PROVE  c \in Blocks(mem')
      <4>1. c # b
        BY <2>2, <3>1
      <4> QED
        BY <1>0, <2>2, <4>1
    <3> QED
      BY <3>1 DEF KeepsPrograms
  <2>4. started' = TRUE
    BY <2>1 DEF ChainInv
  <2> QED
    BY <1>3, <2>1, <2>3, <2>4, FreeStep, ChainFrom, KeptBy
<1>4. CASE Int21Resize
  <2>1. UNCHANGED <<session, psp, frames, started, resident>> /\ started
    BY <1>4 DEF Int21Resize
  <2>2. PICK b \in Blocks(mem), z \in Nat :
          /\ b.owner = psp /\ (b.base = psp => z > 0)
          /\ ResizedTo(Blocks(mem), Blocks(mem'), b, z)
    BY <1>4, ResizeStep
  <2>3. KeepsPrograms(Blocks(mem), Blocks(mem'))
    <3>1. (b.base = b.owner => z > 0) /\ \A c \in Blocks(mem) : c.base = b.base => c = b
      BY <1>0, <2>2
    <3> QED
      BY <2>2, <3>1, ResizeKeeps
  <2>4. started' = TRUE
    BY <2>1 DEF ChainInv
  <2> QED
    BY <1>4, <2>1, <2>3, <2>4, ResizeStep, ChainFrom, KeptBy
<1>5. CASE ExecBegin
  <2>1. UNCHANGED <<session, started, resident>> /\ started
    BY <1>5 DEF ExecBegin
  <2>2. started' = TRUE
    BY <2>1 DEF ChainInv
  <2>3. Good(mem')
    BY <1>5, ExecIs
  <2>4. CASE Blocks(mem') = Blocks(mem) /\ psp' = psp /\ frames' = frames
    <3>1. KeepsPrograms(Blocks(mem), Blocks(mem'))
      BY <2>4 DEF KeepsPrograms
    <3> QED
      BY <2>1, <2>2, <2>3, <2>4, <3>1, ChainFrom, KeptBy
  <2>5. ASSUME NEW e, NEW p, NEW size, Loaded(mem, mem', e, p, size), psp' = p,
               frames' = Append(frames, SavedFrame(mem, psp, p, e))
        PROVE  ChainInv'
    <3>1. /\ e \in Nat /\ p \in Nat /\ size \in Nat /\ size > 0 /\ e # p
          /\ e - 1 \in Paras /\ p - 1 \in Paras
          /\ \A b \in Blocks(mem) : b.base # e /\ b.base # p
          /\ Blocks(mem') = Blocks(mem) \cup {NewBlock(e, EnvParas, p), NewBlock(p, size, p)}
      BY <2>5 DEF Loaded
    <3>2. PICK b, c \in Blocks(mem') : /\ b.base = e /\ b.size = EnvParas
                                       /\ c.base = p /\ c.size = size /\ c.owner = p
      <4>1. NewBlock(e, EnvParas, p) \in Blocks(mem') /\ NewBlock(p, size, p) \in Blocks(mem')
        BY <3>1
      <4> QED
        BY <4>1 DEF NewBlock
    <3>3. e \in FirstMcb + 1 .. Top - 1 /\ p \in FirstMcb + 1 .. Top - 1 /\ p \in Paras
      <4>1. e + EnvParas <= Top /\ p + size <= Top
        BY <2>3, <3>2, BlockIs
      <4>2. e > 0 /\ p > 0
        BY <3>1, ParasAre
      <4> QED
        BY <3>1, <4>1, <4>2, MemoryAssumption DEF FirstMcb, Paras
    <3>4. PICK r : r = SavedFrame(mem, psp, p, e)
      OBVIOUS
    <3>5. /\ r \in Frames /\ r.psp = psp /\ r.child = p /\ r.env = e
      <4>1. Blocks(mem) \in SUBSET Allocated
        BY <1>0, BlocksAllocated
      <4>2. psp \in Paras
        BY <1>0, MemoryAssumption DEF BlockOwners, Paras, FirstMcb, ChainInv
      <4> QED
        BY <3>3, <3>4, <4>1, <4>2 DEF SavedFrame, Frames
    <3>6. Occupies(Blocks(mem'), p)
      BY <3>1, <3>2 DEF Occupies
    <3>7. frames' = Append(frames, r) /\ Blocks(mem) \subseteq Blocks(mem')
      BY <2>5, <3>1, <3>4
    <3>8. Placed(Blocks(mem'), frames', psp')
      <4>1. PICK f, C : f = frames' /\ C = Blocks(mem')
        OBVIOUS
      <4>2. f = Append(frames, r) /\ Blocks(mem) \subseteq C /\ Occupies(C, p)
        BY <3>6, <3>7, <4>1
      <4>3. /\ \A x \in Blocks(mem) : x.base # p /\ x.base # r.env
            /\ r.env # p
        BY <3>1, <3>5
      <4>4. Placed(C, f, p)
        BY <1>0, <3>5, <4>2, <4>3, PlacedPushed
      <4> QED
        BY <2>5, <4>1, <4>4
    <3>9. frames' \in Seq(Frames)
      BY <1>0, <3>5, <3>7, AppendProperties
    <3>10. After(Blocks(mem'), frames', psp', resident')
      BY <1>0, <2>1, <3>8, <3>9 DEF After
    <3> QED
      BY <2>1, <2>2, <2>3, <3>10, ChainFrom
  <2> QED
    BY <1>5, <2>4, <2>5, ExecIs
<1>6. CASE Terminate
  <2>1. UNCHANGED <<session, started, resident>> /\ started /\ Return
    BY <1>6 DEF Terminate
  <2>2. /\ Good(mem') /\ frames # <<>>
        /\ Blocks(mem') = {b \in Blocks(mem) : b.base # psp /\ b.owner # psp /\ b.base # Frame.env}
    BY <1>6, EndStep
  <2>3. started' = TRUE
    BY <2>1 DEF ChainInv
  <2>4. psp' = frames[Len(frames)].psp /\ frames' = SubSeq(frames, 1, Len(frames) - 1)
    BY <2>1 DEF Return, Frame
  <2>5. ASSUME NEW i \in 1 .. Len(frames)
        PROVE  Occupies(Blocks(mem'), Running(frames, psp, i))
    <3>1. PICK b \in Blocks(mem) :
            b.base = Running(frames, psp, i) /\ b.owner = Running(frames, psp, i) /\ b.size > 0
      BY <1>0 DEF Placed, Occupies
    <3>2. i # Len(frames) + 1 /\ i \in 1 .. Len(frames) + 1 /\ Len(frames) + 1 \in 1 .. Len(frames) + 1
          /\ Len(frames) \in 1 .. Len(frames)
      BY <1>0
    <3>3. Running(frames, psp, Len(frames) + 1) = psp
      BY DEF Running
    <3>4. b.base # psp /\ b.base # Frame.env
      BY <1>0, <3>1, <3>2, <3>3 DEF Placed, Frame
    <3>5. b \in Blocks(mem')
      BY <2>2, <3>1, <3>4
    <3> QED
      BY <3>1, <3>5 DEF Occupies
  <2>6. Placed(Blocks(mem'), frames', psp') /\ frames' \in Seq(Frames)
    <3>1. PICK f, top, C : f = frames' /\ top = psp' /\ C = Blocks(mem')
      OBVIOUS
    <3>2. ParentsOccupy(C, frames, psp)
      BY <2>5, <3>1 DEF ParentsOccupy
    <3>3. Placed(C, f, top)
      <4>1. f = SubSeq(frames, 1, Len(frames) - 1) /\ top = frames[Len(frames)].psp
        BY <2>4, <3>1
      <4>2. frames \in Seq(Frames) /\ frames # <<>>
        BY <1>0, <2>2
      <4>3. Popped(f, frames, psp, top)
        BY <4>1, <4>2, PopIs
      <4> QED
        BY <1>0, <3>2, <4>3, PlacedPopped
    <3>4. frames' \in Seq(Frames)
      BY <1>0, <2>2, <2>4, FrontOfStack
    <3> QED
      BY <3>1, <3>3, <3>4
  <2>7. After(Blocks(mem'), frames', psp', resident')
    BY <1>0, <2>1, <2>6 DEF After
  <2> QED
    BY <2>1, <2>2, <2>3, <2>7, ChainFrom
<1>7. CASE StayResident
  <2>1. /\ UNCHANGED <<session, started>> /\ started /\ Return
        /\ resident' = resident \cup {b \in Blocks(mem') : b.owner = Frame.child}
    BY <1>7 DEF StayResident
  <2>2. PICK b \in Blocks(mem), z \in Nat :
          b.owner = psp /\ b.base = psp /\ z > 0 /\ ResizedTo(Blocks(mem), Blocks(mem'), b, z)
    BY <1>7, StayStep
  <2>3. started' = TRUE /\ Good(mem') /\ frames # <<>>
    BY <1>7, <2>1, StayStep DEF ChainInv
  <2>4. psp' = frames[Len(frames)].psp /\ frames' = SubSeq(frames, 1, Len(frames) - 1)
    BY <2>1 DEF Return, Frame
  <2>5. KeepsPrograms(Blocks(mem), Blocks(mem'))
    <3>1. (b.base = b.owner => z > 0) /\ \A c \in Blocks(mem) : c.base = b.base => c = b
      BY <1>0, <2>2
    <3> QED
      BY <2>2, <3>1, ResizeKeeps
  <2>6. Placed(Blocks(mem'), frames, psp)
    BY <1>0, <2>5, PlacedKept
  <2>7. Placed(Blocks(mem'), frames', psp') /\ frames' \in Seq(Frames)
    <3>1. PICK f, top, C : f = frames' /\ top = psp' /\ C = Blocks(mem')
      OBVIOUS
    <3>2. Placed(C, frames, psp)
      BY <2>6, <3>1
    <3>3. ParentsOccupy(C, frames, psp)
      BY <1>0, <3>2 DEF Placed, ParentsOccupy
    <3>4. Placed(C, f, top)
      <4>1. f = SubSeq(frames, 1, Len(frames) - 1) /\ top = frames[Len(frames)].psp
        BY <2>4, <3>1
      <4>2. frames \in Seq(Frames) /\ frames # <<>>
        BY <1>0, <2>3
      <4>3. Popped(f, frames, psp, top)
        BY <4>1, <4>2, PopIs
      <4> QED
        BY <3>2, <3>3, <4>3, PlacedPopped
    <3>5. frames' \in Seq(Frames)
      BY <1>0, <2>3, <2>4, FrontOfStack
    <3> QED
      BY <3>1, <3>4, <3>5
  <2>8. resident' \in SUBSET Allocated
    BY <1>0, <2>1, <2>3, BlocksAllocated
  <2>9. After(Blocks(mem'), frames', psp', resident')
    BY <2>7, <2>8 DEF After
  <2> QED
    BY <2>1, <2>3, <2>9, ChainFrom
<1>8. CASE GuestWrites
  <2>1. UNCHANGED <<session, psp, frames, started, resident>> /\ started
    BY <1>8 DEF GuestWrites
  <2>2. Good(mem') /\ Blocks(mem') = Blocks(mem)
    BY <1>8, WriteStep
  <2>3. KeepsPrograms(Blocks(mem), Blocks(mem')) /\ started' = TRUE
    BY <2>1, <2>2 DEF KeepsPrograms, ChainInv
  <2> QED
    BY <2>1, <2>2, <2>3, ChainFrom, KeptBy
<1>9. CASE UNCHANGED vars
  <2>1. UNCHANGED <<session, mem, psp, frames, started, resident>>
    BY <1>9 DEF vars
  <2> QED
    BY <2>1 DEF ChainInv, LoadsFit, Untouched
<1> QED
  BY <1>1, <1>2, <1>3, <1>4, <1>5, <1>6, <1>7, <1>8, <1>9 DEF Next

(* The validator's verdict and the types, in any session of programs with  *)
(* an MZ header: the chain of dos_mcb.h is well formed after any sequence  *)
(* of calls and programs.                                                  *)
THEOREM ChainStaysIntact == Spec /\ LoadsFit => []ChainIntact
<1>1. ChainInv => ChainIntact
  <2> SUFFICES ASSUME ChainInv PROVE ChainIntact
    OBVIOUS
  <2>1. MemOK(mem) /\ Tiles(mem, Chain(mem))
    BY DEF ChainInv, Good
  <2> QED
    BY <2>1, ChainIs DEF ChainIntact
<1> QED
  BY <1>1, ChainInit, ChainStep, PTL DEF Spec

(* Every variable of conventional memory keeps its type.                   *)
THEOREM MemoryTypeCorrect == Spec /\ LoadsFit => []TypeOK
<1>1. ChainInv => TypeOK
  <2> SUFFICES ASSUME ChainInv PROVE TypeOK
    OBVIOUS
  <2>1. BlockOwners \subseteq Paras \cup {DosOwner}
    BY MemoryAssumption DEF BlockOwners, Paras, FirstMcb
  <2>2. mem \in [Paras -> [sig : Signatures \cup {"-"}, owner : Paras \cup {Free, DosOwner},
                           size : 0 .. Top]]
    <3>1. mem \in [Paras -> Headers]
      BY DEF ChainInv, Good, MemOK
    <3>2. Headers \subseteq [sig : Signatures \cup {"-"}, owner : Paras \cup {Free, DosOwner},
                             size : 0 .. Top]
      BY <2>1 DEF Headers
    <3> QED
      BY <3>1, <3>2
  <2>3. psp \in Paras
    BY <2>1, CurrentIs
  <2>4. ASSUME NEW i \in 1 .. Len(frames)
        PROVE  /\ frames[i].psp \in Paras /\ frames[i].child \in Paras /\ frames[i].env \in Paras
               /\ frames[i].before \in SUBSET Allocated
    <3>1. frames[i] \in Frames
      BY ElementOfSeq DEF ChainInv
    <3> QED
      BY <3>1, MemoryAssumption DEF Frames, Paras, FirstMcb
  <2> QED
    BY <2>2, <2>3, <2>4 DEF TypeOK, ChainInv
<1> QED
  BY <1>1, ChainInit, ChainStep, PTL DEF Spec

(* An allocation is refused only when no gap between the blocks is large   *)
(* enough, and the BX of a refusal is the largest request that would do.   *)
THEOREM AllocationsExact == Spec /\ LoadsFit => []AllocateExact
<1>1. ChainInv => AllocateExact
  <2> SUFFICES ASSUME ChainInv, NEW size \in 0 .. Top
               PROVE  LET answer == DosMcbAllocate(mem, size, psp)
                          rooms  == {g[2] - g[1] - 1 : g \in Gaps(mem)}
                      IN  /\ answer.ok <=> \E r \in rooms : r >= size
                          /\ ~ answer.ok => answer.largest = Max(rooms \cup {0})
    BY DEF AllocateExact
  <2>1. PICK a : a = DosMcbAllocate(mem, size, psp)
    OBVIOUS
  <2>2. Good(mem) /\ size \in Nat
    BY DEF ChainInv
  <2>3. /\ a.ok <=> \E r \in GapRooms(mem) : r >= size
        /\ ~ a.ok => a.largest = Max(GapRooms(mem) \cup {0})
    BY <2>1, <2>2, AllocFinds
  <2> QED
    BY <2>1, <2>3 DEF GapRooms
<1> QED
  BY <1>1, ChainInit, ChainStep, PTL DEF Spec

-----------------------------------------------------------------------------
(* Whose the blocks are is inductive too.                                  *)
(* Only blocks of the running program change, and its own stays.           *)
OwnChange(B, C, cur) ==
    /\ \A b \in B : b.owner # cur => b \in C
    /\ \A b \in C : b \in B \/ b.owner = cur
    /\ \E c \in C : c.base = cur /\ c.owner = cur

LEMMA AboveIs ==
    ASSUME NEW fr, NEW cur, Len(fr) \in Nat, NEW i \in 1 .. Len(fr)
    PROVE  Above(fr, cur, i, cur)
<1>1. Len(fr) + 1 \in i + 1 .. Len(fr) + 1 /\ Running(fr, cur, Len(fr) + 1) = cur
  BY DEF Running
<1> QED
  BY <1>1 DEF Above

LEMMA TidyKept ==
    ASSUME NEW B, NEW C, NEW fr, NEW cur, NEW res, Len(fr) \in Nat,
           Tidy(B, fr, cur, res), OwnChange(B, C, cur)
    PROVE  Tidy(C, fr, cur, res)
<1>1. Owned(C)
  <2>1. ASSUME NEW b \in C
        PROVE  b.owner = DosOwner \/ \E c \in C : c.base = b.owner /\ c.owner = b.owner
    <3>1. CASE b.owner = cur
      BY <3>1 DEF OwnChange
    <3>2. CASE b.owner # cur
      <4>1. b \in B
        BY <3>2 DEF OwnChange
      <4>2. b.owner = DosOwner \/ \E c \in B : c.base = b.owner /\ c.owner = b.owner
        BY <4>1 DEF Tidy, Owned
      <4> QED
        BY <3>2, <4>2 DEF OwnChange
    <3> QED
      BY <3>1, <3>2
  <2> QED
    BY <2>1 DEF Owned
<1>2. Left(C, fr, cur, res)
  <2>1. Len(fr) + 1 \in 1 .. Len(fr) + 1 /\ Running(fr, cur, Len(fr) + 1) = cur
    BY DEF Running
  <2>2. \A b \in res : b \in B /\ b.owner # cur
    BY <2>1 DEF Tidy, Left
  <2>3. res \subseteq C
    BY <2>2 DEF OwnChange
  <2> QED
    BY <2>3 DEF Tidy, Left
<1>3. Saved(C, fr, cur, res)
  <2>1. ASSUME NEW i \in 1 .. Len(fr)
        PROVE  /\ fr[i].before \subseteq C
               /\ \A b \in fr[i].before : ~ Above(fr, cur, i, b.owner) /\ b.base # fr[i].env
               /\ \A b \in C : b \in fr[i].before \/ b \in res \/ Above(fr, cur, i, b.owner)
    <3>1. /\ fr[i].before \subseteq B
          /\ \A b \in fr[i].before : ~ Above(fr, cur, i, b.owner) /\ b.base # fr[i].env
          /\ \A b \in B : b \in fr[i].before \/ b \in res \/ Above(fr, cur, i, b.owner)
      BY DEF Tidy, Saved
    <3>2. Above(fr, cur, i, cur)
      BY AboveIs
    <3>3. \A b \in fr[i].before : b \in B /\ b.owner # cur
      BY <3>1, <3>2
    <3>4. fr[i].before \subseteq C
      BY <3>3 DEF OwnChange
    <3> QED
      BY <3>1, <3>2, <3>4 DEF OwnChange
  <2> QED
    BY <2>1 DEF Saved
<1> QED
  BY <1>1, <1>2, <1>3 DEF Tidy

(* EXEC's two blocks, x and y, are the child's.                            *)
LEMMA TidyPushed ==
    ASSUME NEW B, NEW C, NEW fr, NEW cur, NEW res, Tidy(B, fr, cur, res),
           NEW f, NEW top, NEW r, Pushed(f, fr, cur, r, top), r.before = B, top # DosOwner,
           \A b \in B : b.base # top /\ b.base # r.env,
           NEW x, NEW y, C = B \cup {x, y}, x.owner = top, y.owner = top, y.base = top
    PROVE  Tidy(C, f, top, res)
<1>1. /\ Len(f) = Len(fr) + 1 /\ Len(fr) \in Nat
      /\ \A i \in 1 .. Len(fr) : f[i] = fr[i]
      /\ f[Len(fr) + 1] = r
      /\ \A i \in 1 .. Len(fr) + 1 : Running(f, top, i) = Running(fr, cur, i)
      /\ Running(f, top, Len(fr) + 2) = top
  BY DEF Pushed
<1>2. \A b \in B : b.owner # top
  BY DEF Tidy, Owned
<1>3. \A b \in C : b \in B \/ b.owner = top
  OBVIOUS
<1>4. Owned(C)
  <2>1. \A b \in B : b.owner = DosOwner \/ \E c \in B : c.base = b.owner /\ c.owner = b.owner
    BY DEF Tidy, Owned
  <2>2. y \in C /\ B \subseteq C
    OBVIOUS
  <2> QED
    BY <1>3, <2>1, <2>2 DEF Owned
<1>5. Left(C, f, top, res)
  <2>1. res \subseteq B /\ \A b \in res : \A i \in 1 .. Len(fr) + 1 : b.owner # Running(fr, cur, i)
    BY DEF Tidy, Left
  <2>2. ASSUME NEW b \in res, NEW i \in 1 .. Len(f) + 1
        PROVE  b.owner # Running(f, top, i)
    <3>1. i \in 1 .. Len(fr) + 1 \/ i = Len(fr) + 2
      BY <1>1
    <3> QED
      BY <1>1, <1>2, <2>1, <3>1
  <2> QED
    BY <2>1, <2>2 DEF Left
<1>6. ASSUME NEW i \in 1 .. Len(fr), NEW o
      PROVE  Above(f, top, i, o) <=> Above(fr, cur, i, o) \/ o = top
  <2>1. \A j : j \in i + 1 .. Len(f) + 1 <=> j \in i + 1 .. Len(fr) + 1 \/ j = Len(fr) + 2
    BY <1>1
  <2>2. \A j \in i + 1 .. Len(fr) + 1 : j \in 1 .. Len(fr) + 1
    BY <1>1
  <2> QED
    BY <1>1, <2>1, <2>2 DEF Above
<1>7. Saved(C, f, top, res)
  <2>1. ASSUME NEW i \in 1 .. Len(f)
        PROVE  /\ f[i].before \subseteq C
               /\ \A b \in f[i].before : ~ Above(f, top, i, b.owner) /\ b.base # f[i].env
               /\ \A b \in C : b \in f[i].before \/ b \in res \/ Above(f, top, i, b.owner)
    <3>1. CASE i = Len(fr) + 1
      <4>1. f[i] = r
        BY <1>1, <3>1
      <4>2. \A o : Above(f, top, i, o) <=> o = top
        <5>1. \A j : j \in i + 1 .. Len(f) + 1 <=> j = Len(fr) + 2
          BY <1>1, <3>1
        <5> QED
          BY <1>1, <5>1 DEF Above
      <4> QED
        BY <1>2, <1>3, <4>1, <4>2
    <3>2. CASE i # Len(fr) + 1
      <4>1. i \in 1 .. Len(fr) /\ f[i] = fr[i]
        BY <1>1, <3>2
      <4>2. /\ fr[i].before \subseteq B
            /\ \A b \in fr[i].before : ~ Above(fr, cur, i, b.owner) /\ b.base # fr[i].env
            /\ \A b \in B : b \in fr[i].before \/ b \in res \/ Above(fr, cur, i, b.owner)
        BY <4>1 DEF Tidy, Saved
      <4>3. \A b \in fr[i].before : b.owner # top
        BY <1>2, <4>2
      <4> QED
        BY <1>3, <1>6, <4>1, <4>2, <4>3
    <3> QED
      BY <3>1, <3>2
  <2> QED
    BY <2>1 DEF Saved
<1> QED
  BY <1>4, <1>5, <1>7 DEF Tidy

LEMMA TidyPopped ==
    ASSUME NEW B, NEW C, NEW fr, NEW cur, NEW res, Placed(B, fr, cur), Tidy(B, fr, cur, res),
           NEW f, NEW top, Popped(f, fr, cur, top), C = {b \in B : b.owner # cur}
    PROVE  Tidy(C, f, top, res)
<1>1. /\ Len(fr) \in Nat \ {0} /\ Len(f) = Len(fr) - 1 /\ Len(f) \in Nat
      /\ \A i \in 1 .. Len(f) : f[i] = fr[i]
      /\ \A i \in 1 .. Len(fr) : Running(f, top, i) = Running(fr, cur, i)
  BY DEF Popped
<1>2. Running(fr, cur, Len(fr) + 1) = cur /\ Len(fr) + 1 \in 1 .. Len(fr) + 1
  BY <1>1 DEF Running
<1>3. Owned(C)
  <2>1. \A b \in B : b.owner = DosOwner \/ \E c \in B : c.base = b.owner /\ c.owner = b.owner
    BY DEF Tidy, Owned
  <2> QED
    BY <2>1 DEF Owned
<1>4. Left(C, f, top, res)
  <2>1. res \subseteq B /\ \A b \in res : \A i \in 1 .. Len(fr) + 1 : b.owner # Running(fr, cur, i)
    BY DEF Tidy, Left
  <2>2. res \subseteq C
    BY <1>2, <2>1
  <2>3. \A i \in 1 .. Len(f) + 1 : i \in 1 .. Len(fr) /\ i \in 1 .. Len(fr) + 1
    BY <1>1
  <2> QED
    BY <1>1, <2>1, <2>2, <2>3 DEF Left
<1>5. ASSUME NEW i \in 1 .. Len(f), NEW o
      PROVE  Above(fr, cur, i, o) <=> Above(f, top, i, o) \/ o = cur
  <2>1. \A j : j \in i + 1 .. Len(fr) + 1 <=> j \in i + 1 .. Len(f) + 1 \/ j = Len(fr) + 1
    <3>1. PICK k \in Nat : k = Len(f) /\ Len(fr) = k + 1 /\ i \in Nat /\ i <= k
      BY <1>1
    <3>2. i + 1 .. k + 1 + 1 = (i + 1 .. k + 1) \cup {k + 1 + 1}
      BY <3>1
    <3> QED
      BY <3>1, <3>2
  <2>2. \A j \in i + 1 .. Len(f) + 1 : j \in 1 .. Len(fr)
    BY <1>1
  <2> QED
    BY <1>1, <1>2, <2>1, <2>2 DEF Above
<1>6. Saved(C, f, top, res)
  <2>1. ASSUME NEW i \in 1 .. Len(f)
        PROVE  /\ f[i].before \subseteq C
               /\ \A b \in f[i].before : ~ Above(f, top, i, b.owner) /\ b.base # f[i].env
               /\ \A b \in C : b \in f[i].before \/ b \in res \/ Above(f, top, i, b.owner)
    <3>1. i \in 1 .. Len(fr) /\ f[i] = fr[i]
      BY <1>1
    <3>2. /\ fr[i].before \subseteq B
          /\ \A b \in fr[i].before : ~ Above(fr, cur, i, b.owner) /\ b.base # fr[i].env
          /\ \A b \in B : b \in fr[i].before \/ b \in res \/ Above(fr, cur, i, b.owner)
      BY <3>1 DEF Tidy, Saved
    <3> QED
      BY <1>5, <3>1, <3>2
  <2> QED
    BY <2>1 DEF Saved
<1> QED
  BY <1>3, <1>4, <1>6 DEF Tidy

(* A program that stays: what it owns is resident from now on.             *)
LEMMA TidyStayed ==
    ASSUME NEW C, NEW fr, NEW cur, NEW res, Placed(C, fr, cur), Tidy(C, fr, cur, res),
           NEW f, NEW top, Popped(f, fr, cur, top),
           NEW rest, rest = res \cup {b \in C : b.owner = cur}
    PROVE  Tidy(C, f, top, rest)
<1>1. /\ Len(fr) \in Nat \ {0} /\ Len(f) = Len(fr) - 1 /\ Len(f) \in Nat
      /\ \A i \in 1 .. Len(f) : f[i] = fr[i]
      /\ \A i \in 1 .. Len(fr) : Running(f, top, i) = Running(fr, cur, i)
  BY DEF Popped
<1>2. Running(fr, cur, Len(fr) + 1) = cur /\ Len(fr) + 1 \in 1 .. Len(fr) + 1
  BY <1>1 DEF Running
<1>3. \A i \in 1 .. Len(f) + 1 : i \in 1 .. Len(fr) /\ i \in 1 .. Len(fr) + 1 /\ i # Len(fr) + 1
  BY <1>1
<1>4. Left(C, f, top, rest)
  <2>1. res \subseteq C /\ \A b \in res : \A i \in 1 .. Len(fr) + 1 : b.owner # Running(fr, cur, i)
    BY DEF Tidy, Left
  <2>2. \A i \in 1 .. Len(f) + 1 : Running(fr, cur, i) # cur
    BY <1>2, <1>3 DEF Placed
  <2> QED
    BY <1>1, <1>3, <2>1, <2>2 DEF Left
<1>5. ASSUME NEW i \in 1 .. Len(f), NEW o
      PROVE  Above(fr, cur, i, o) <=> Above(f, top, i, o) \/ o = cur
  <2>1. \A j : j \in i + 1 .. Len(fr) + 1 <=> j \in i + 1 .. Len(f) + 1 \/ j = Len(fr) + 1
    <3>1. PICK k \in Nat : k = Len(f) /\ Len(fr) = k + 1 /\ i \in Nat /\ i <= k
      BY <1>1
    <3>2. i + 1 .. k + 1 + 1 = (i + 1 .. k + 1) \cup {k + 1 + 1}
      BY <3>1
    <3> QED
      BY <3>1, <3>2
  <2>2. \A j \in i + 1 .. Len(f) + 1 : j \in 1 .. Len(fr)
    BY <1>1
  <2> QED
    BY <1>1, <1>2, <2>1, <2>2 DEF Above
<1>6. Saved(C, f, top, rest)
  <2>1. ASSUME NEW i \in 1 .. Len(f)
        PROVE  /\ f[i].before \subseteq C
               /\ \A b \in f[i].before : ~ Above(f, top, i, b.owner) /\ b.base # f[i].env
               /\ \A b \in C : b \in f[i].before \/ b \in rest \/ Above(f, top, i, b.owner)
    <3>1. i \in 1 .. Len(fr) /\ f[i] = fr[i]
      BY <1>1
    <3>2. /\ fr[i].before \subseteq C
          /\ \A b \in fr[i].before : ~ Above(fr, cur, i, b.owner) /\ b.base # fr[i].env
          /\ \A b \in C : b \in fr[i].before \/ b \in res \/ Above(fr, cur, i, b.owner)
      BY <3>1 DEF Tidy, Saved
    <3> QED
      BY <1>5, <3>1, <3>2
  <2> QED
    BY <2>1 DEF Saved
<1> QED
  BY <1>4, <1>6 DEF Tidy

(* The environments of the programs below the running one are not its.     *)
KeepsEnvironments(B, C, fr, cur) ==
    \A b \in B : b.owner # cur \/ (fr # <<>> /\ b.base = fr[Len(fr)].env)
                   => \E c \in C : c.base = b.base /\ c.owner = b.owner

LEMMA EnvironmentsKept ==
    ASSUME NEW B, NEW C, NEW fr, NEW cur, Len(fr) \in Nat, Placed(B, fr, cur),
           fr = <<>> => Len(fr) = 0,
           Environments(B, fr, cur), KeepsEnvironments(B, C, fr, cur)
    PROVE  Environments(C, fr, cur)
<1>1. Running(fr, cur, Len(fr) + 1) = cur /\ Len(fr) + 1 \in 1 .. Len(fr) + 1
  BY DEF Running
<1>2. ASSUME NEW i \in 1 .. Len(fr)
      PROVE  \E c \in C : c.base = fr[i].env /\ c.owner = Running(fr, cur, i + 1)
  <2>1. PICK b \in B : b.base = fr[i].env /\ b.owner = Running(fr, cur, i + 1)
    BY DEF Environments
  <2>2. CASE i = Len(fr)
    <3>1. fr # <<>> /\ b.base = fr[Len(fr)].env
      BY <2>1, <2>2
    <3> QED
      BY <2>1, <3>1 DEF KeepsEnvironments
  <2>3. CASE i # Len(fr)
    <3>1. i + 1 \in 1 .. Len(fr) + 1 /\ i + 1 # Len(fr) + 1
      BY <2>3
    <3>2. b.owner # cur
      BY <1>1, <2>1, <3>1 DEF Placed
    <3> QED
      BY <2>1, <3>2 DEF KeepsEnvironments
  <2> QED
    BY <2>2, <2>3
<1> QED
  BY <1>2 DEF Environments

LEMMA EnvironmentsPushed ==
    ASSUME NEW B, NEW C, NEW fr, NEW cur, Environments(B, fr, cur), B \subseteq C,
           NEW f, NEW top, NEW r, Pushed(f, fr, cur, r, top),
           \E x \in C : x.base = r.env /\ x.owner = top
    PROVE  Environments(C, f, top)
<1>1. /\ Len(f) = Len(fr) + 1 /\ Len(fr) \in Nat
      /\ \A i \in 1 .. Len(fr) : f[i] = fr[i]
      /\ f[Len(fr) + 1] = r
      /\ \A i \in 1 .. Len(fr) + 1 : Running(f, top, i) = Running(fr, cur, i)
      /\ Running(f, top, Len(fr) + 2) = top
  BY DEF Pushed
<1>2. ASSUME NEW i \in 1 .. Len(f)
      PROVE  \E c \in C : c.base = f[i].env /\ c.owner = Running(f, top, i + 1)
  <2>1. CASE i = Len(fr) + 1
    <3>1. f[i] = r /\ i + 1 = Len(fr) + 2
      BY <1>1, <2>1
    <3> QED
      BY <1>1, <3>1
  <2>2. CASE i # Len(fr) + 1
    <3>1. i \in 1 .. Len(fr) /\ i + 1 \in 1 .. Len(fr) + 1 /\ f[i] = fr[i]
      BY <1>1, <2>2
    <3> QED
      BY <1>1, <3>1 DEF Environments
  <2> QED
    BY <2>1, <2>2
<1> QED
  BY <1>2 DEF Environments

LEMMA EnvironmentsPopped ==
    ASSUME NEW B, NEW C, NEW fr, NEW cur, Placed(B, fr, cur), Environments(B, fr, cur),
           NEW f, NEW top, Popped(f, fr, cur, top),
           \A b \in B : b.owner # cur => \E c \in C : c.base = b.base /\ c.owner = b.owner
    PROVE  Environments(C, f, top)
<1>1. /\ Len(fr) \in Nat \ {0} /\ Len(f) = Len(fr) - 1 /\ Len(f) \in Nat
      /\ \A i \in 1 .. Len(f) : f[i] = fr[i]
      /\ \A i \in 1 .. Len(fr) : Running(f, top, i) = Running(fr, cur, i)
  BY DEF Popped
<1>2. Running(fr, cur, Len(fr) + 1) = cur /\ Len(fr) + 1 \in 1 .. Len(fr) + 1
  BY <1>1 DEF Running
<1>3. ASSUME NEW i \in 1 .. Len(f)
      PROVE  \E c \in C : c.base = f[i].env /\ c.owner = Running(f, top, i + 1)
  <2>1. /\ i \in 1 .. Len(fr) /\ f[i] = fr[i] /\ i + 1 \in 1 .. Len(fr)
        /\ i + 1 \in 1 .. Len(fr) + 1 /\ i + 1 # Len(fr) + 1
    BY <1>1
  <2>2. PICK b \in B : b.base = fr[i].env /\ b.owner = Running(fr, cur, i + 1)
    BY <2>1 DEF Environments
  <2>3. b.owner # cur
    BY <1>2, <2>1, <2>2 DEF Placed
  <2> QED
    BY <1>1, <2>1, <2>2, <2>3
<1> QED
  BY <1>3 DEF Environments

LEMMA TidyInit == Init /\ KeepsOrFrees => TidyInv
<1> SUFFICES ASSUME Init, KeepsOrFrees PROVE TidyInv
  OBVIOUS
<1>1. mem = DosMcbInitializeWithTop /\ psp = PspSeg /\ frames = <<>> /\ resident = {}
  BY DEF Init
<1>2. Blocks(mem) = StartBlocks
  BY <1>1, InitialIs
<1>3. Len(frames) = 0
  BY <1>1
<1>4. Owned(Blocks(mem))
  <2>1. \A s, z, o : NewBlock(s, z, o).base = s /\ NewBlock(s, z, o).owner = o
    BY DEF NewBlock
  <2>2. \A b \in Blocks(mem) : b.owner = DosOwner \/ b.owner = PspSeg
    BY <1>2, <2>1 DEF StartBlocks
  <2>3. PICK c \in Blocks(mem) : c.base = PspSeg /\ c.owner = PspSeg
    BY <1>2, <2>1 DEF StartBlocks
  <2> QED
    BY <2>2, <2>3 DEF Owned
<1>5. Tidy(Blocks(mem), frames, psp, resident)
  BY <1>1, <1>3, <1>4 DEF Tidy, Left, Saved
<1>6. Environments(Blocks(mem), frames, psp)
  BY <1>3 DEF Environments
<1> QED
  BY <1>1, <1>5, <1>6 DEF TidyInv

(* What most steps of the running program do to the blocks.                *)
Keeps(B, C, fr, cur, frees) ==
    OwnChange(B, C, cur) /\ (~ frees => KeepsEnvironments(B, C, fr, cur))

LEMMA TidyFrom ==
    ASSUME ChainInv, TidyInv, UNCHANGED <<session, psp, frames, resident>>,
           Keeps(Blocks(mem), Blocks(mem'), frames, psp, session.freesEnvironment)
    PROVE  TidyInv'
<1>1. Len(frames) \in Nat /\ (frames = <<>> => Len(frames) = 0) /\ Placed(Blocks(mem), frames, psp)
  BY CurrentIs DEF ChainInv
<1>2. Tidy(Blocks(mem'), frames, psp, resident)
  BY <1>1, TidyKept DEF TidyInv, Keeps
<1>3. ~ session.freesEnvironment => Environments(Blocks(mem'), frames, psp)
  BY <1>1, EnvironmentsKept DEF TidyInv, Keeps
<1> QED
  BY <1>2, <1>3 DEF TidyInv, KeepsOrFrees

(* A resized block keeps its segment and its owner.                        *)
LEMMA ResizeOwn ==
    ASSUME NEW B, NEW C, NEW cur, NEW b \in B, NEW z, b.owner = cur,
           \A c \in B : c.base = b.base => c = b, ResizedTo(B, C, b, z),
           \E c \in B : c.base = cur /\ c.owner = cur
    PROVE  /\ OwnChange(B, C, cur)
           /\ \A c \in B : \E d \in C : d.base = c.base /\ d.owner = c.owner
<1>1. Resized(b, z).base = b.base /\ Resized(b, z).owner = cur
  BY DEF Resized
<1>2. ASSUME NEW c \in B
      PROVE  \E d \in C : d.base = c.base /\ d.owner = c.owner
  <2>1. CASE C = B
    BY <2>1
  <2>2. CASE C = {d \in B : d.base # b.base} \cup {Resized(b, z)}
    <3>1. CASE c = b
      <4>1. Resized(b, z) \in C
        BY <2>2
      <4> QED
        BY <1>1, <3>1, <4>1
    <3>2. CASE c # b
      <4>1. c \in C
        BY <2>2, <3>2
      <4> QED
        BY <4>1
    <3> QED
      BY <3>1, <3>2
  <2> QED
    BY <2>1, <2>2 DEF ResizedTo
<1>3. \A c \in B : c.owner # cur => c \in C
  BY DEF ResizedTo
<1>4. \A c \in C : c \in B \/ c.owner = cur
  BY <1>1 DEF ResizedTo
<1>5. \E c \in C : c.base = cur /\ c.owner = cur
  BY <1>2
<1> QED
  BY <1>2, <1>3, <1>4, <1>5 DEF OwnChange

(* A program that ends loses exactly what it owns.                         *)
LEMMA EndsOwn ==
    ASSUME ChainInv, TidyInv, Terminate
    PROVE  /\ Blocks(mem') = {b \in Blocks(mem) : b.owner # psp}
           /\ Popped(frames', frames, psp, psp')
<1>1. /\ frames # <<>>
      /\ Blocks(mem') = {b \in Blocks(mem) : b.base # psp /\ b.owner # psp /\ b.base # Frame.env}
  BY EndStep
<1>2. Len(frames) \in Nat /\ Len(frames) \in 1 .. Len(frames) /\ frames \in Seq(Frames)
  BY <1>1, CurrentIs DEF ChainInv
<1>3. Running(frames, psp, Len(frames) + 1) = psp
  BY DEF Running
<1>4. ASSUME NEW b \in Blocks(mem), b.base = psp
      PROVE  b.owner = psp
  BY <1>4, CurrentIs, OneBlock DEF ChainInv
<1>5. ASSUME NEW b \in Blocks(mem), b.base = Frame.env
      PROVE  b.owner = psp
  <2>1. CASE session.freesEnvironment
    <3>1. resident = {}
      BY <2>1 DEF TidyInv
    <3>2. /\ \A c \in frames[Len(frames)].before : c.base # Frame.env
          /\ b \in frames[Len(frames)].before \/ Above(frames, psp, Len(frames), b.owner)
      BY <1>2, <3>1 DEF TidyInv, Tidy, Saved, Frame
    <3>3. PICK j \in Len(frames) + 1 .. Len(frames) + 1 : b.owner = Running(frames, psp, j)
      BY <1>5, <3>2 DEF Above
    <3>4. j = Len(frames) + 1
      BY <1>2
    <3> QED
      BY <1>3, <3>3, <3>4
  <2>2. CASE ~ session.freesEnvironment
    <3>1. PICK c \in Blocks(mem) : c.base = Frame.env /\ c.owner = psp
      BY <1>2, <1>3, <2>2 DEF TidyInv, Environments, Frame
    <3> QED
      BY <1>5, <3>1, OneBlock DEF ChainInv
  <2> QED
    BY <2>1, <2>2
<1>6. Blocks(mem') = {b \in Blocks(mem) : b.owner # psp}
  BY <1>1, <1>4, <1>5
<1>7. psp' = frames[Len(frames)].psp /\ frames' = SubSeq(frames, 1, Len(frames) - 1)
  BY DEF Terminate, Return, Frame
<1>8. PICK f, top : f = frames' /\ top = psp'
  OBVIOUS
<1>9. Popped(f, frames, psp, top)
  BY <1>1, <1>2, <1>7, <1>8, PopIs
<1> QED
  BY <1>6, <1>8, <1>9

(* A program that stays: its own block resized, and it is popped.          *)
LEMMA StaysOwn ==
    ASSUME ChainInv, StayResident
    PROVE  /\ OwnChange(Blocks(mem), Blocks(mem'), psp)
           /\ \A c \in Blocks(mem) : \E d \in Blocks(mem') : d.base = c.base /\ d.owner = c.owner
           /\ Popped(frames', frames, psp, psp')
           /\ resident' = resident \cup {b \in Blocks(mem') : b.owner = psp}
           /\ Placed(Blocks(mem'), frames, psp)
<1>1. PICK b \in Blocks(mem), z \in Nat :
        b.owner = psp /\ b.base = psp /\ z > 0 /\ ResizedTo(Blocks(mem), Blocks(mem'), b, z)
  BY StayStep
<1>2. frames # <<>> /\ frames \in Seq(Frames) /\ Frame.child = psp
  BY StayStep, CurrentIs DEF ChainInv, Frame
<1>3. \A c \in Blocks(mem) : c.base = b.base => c = b
  BY OneBlock DEF ChainInv
<1>4. \E c \in Blocks(mem) : c.base = psp /\ c.owner = psp
  BY CurrentIs
<1>5. /\ OwnChange(Blocks(mem), Blocks(mem'), psp)
      /\ \A c \in Blocks(mem) : \E d \in Blocks(mem') : d.base = c.base /\ d.owner = c.owner
  <2>1. PICK B, C : B = Blocks(mem) /\ C = Blocks(mem')
    OBVIOUS
  <2>2. b \in B /\ (\A c \in B : c.base = b.base => c = b) /\ ResizedTo(B, C, b, z)
        /\ b.owner = psp /\ \E c \in B : c.base = psp /\ c.owner = psp
    BY <1>1, <1>3, <1>4, <2>1
  <2>3. /\ OwnChange(B, C, psp)
        /\ \A c \in B : \E d \in C : d.base = c.base /\ d.owner = c.owner
    BY <2>2, ResizeOwn
  <2> QED
    BY <2>1, <2>3
<1>6. psp' = frames[Len(frames)].psp /\ frames' = SubSeq(frames, 1, Len(frames) - 1)
  BY DEF StayResident, Return, Frame
<1>7. PICK f, top : f = frames' /\ top = psp'
  OBVIOUS
<1>8. Popped(f, frames, psp, top)
  BY <1>2, <1>6, <1>7, PopIs
<1>9. KeepsPrograms(Blocks(mem), Blocks(mem'))
  <2>1. b.base = b.owner => z > 0
    BY <1>1
  <2> QED
    BY <1>1, <1>3, <2>1, ResizeKeeps
<1>10. Placed(Blocks(mem'), frames, psp)
  BY <1>9, PlacedKept DEF ChainInv
<1>11. resident' = resident \cup {c \in Blocks(mem') : c.owner = psp}
  BY <1>2 DEF StayResident
<1> QED
  BY <1>5, <1>7, <1>8, <1>10, <1>11

LEMMA TidyStep == ChainInv /\ TidyInv /\ [Next]_vars => TidyInv'
<1> SUFFICES ASSUME ChainInv, TidyInv, [Next]_vars PROVE TidyInv'
  OBVIOUS
<1>0. /\ Good(mem) /\ frames \in Seq(Frames) /\ Placed(Blocks(mem), frames, psp)
      /\ Len(frames) \in Nat /\ psp \in BlockOwners /\ psp \in Nat /\ psp # DosOwner
      /\ \A b, c \in Blocks(mem) : b.base = c.base => b = c
      /\ \E c \in Blocks(mem) : c.base = psp /\ c.owner = psp
  BY CurrentIs, OneBlock DEF ChainInv
<1>1. CASE StartupBuildMemoryChain
  <2>1. UNCHANGED <<session, psp, frames, resident>>
    BY <1>1 DEF StartupBuildMemoryChain
  <2>2. /\ psp = PspSeg /\ frames = <<>> /\ resident = {}
        /\ \/ Blocks(mem') = Blocks(mem)
           \/ \E z, a, size \in Nat :
                 Blocks(mem') = {b \in Blocks(mem) : b.base # PspSeg}
                                \cup {NewBlock(PspSeg, z, PspSeg), NewBlock(a, size, DosOwner)}
    BY <1>1, StartStep
  <2>3. Owned(Blocks(mem'))
    <3>1. CASE Blocks(mem') = Blocks(mem)
      BY <3>1 DEF TidyInv, Tidy
    <3>2. ASSUME NEW z, NEW a, NEW size,
                 Blocks(mem') = {b \in Blocks(mem) : b.base # PspSeg}
                                \cup {NewBlock(PspSeg, z, PspSeg), NewBlock(a, size, DosOwner)}
          PROVE  Owned(Blocks(mem'))
      <4>1. /\ NewBlock(PspSeg, z, PspSeg).base = PspSeg /\ NewBlock(PspSeg, z, PspSeg).owner = PspSeg
            /\ NewBlock(a, size, DosOwner).owner = DosOwner
        BY DEF NewBlock
      <4>2. PICK d \in Blocks(mem') : d.base = PspSeg /\ d.owner = PspSeg
        BY <3>2, <4>1
      <4>3. \A b \in Blocks(mem) : b.owner = DosOwner \/ \E c \in Blocks(mem) : c.base = b.owner /\ c.owner = b.owner
        BY DEF TidyInv, Tidy, Owned
      <4>4. \A b \in Blocks(mem) : b.base # PspSeg => b \in Blocks(mem')
        BY <3>2
      <4>5. ASSUME NEW b \in Blocks(mem')
            PROVE  b.owner = DosOwner \/ \E c \in Blocks(mem') : c.base = b.owner /\ c.owner = b.owner
        <5>1. b.owner = PspSeg \/ b.owner = DosOwner \/ b \in Blocks(mem)
          BY <3>2, <4>1
        <5> QED
          BY <4>2, <4>3, <4>4, <5>1
      <4> QED
        BY <4>5 DEF Owned
    <3> QED
      BY <2>2, <3>1, <3>2
  <2>4. Len(frames) = 0
    BY <2>2
  <2>5. Tidy(Blocks(mem'), frames, psp, resident) /\ Environments(Blocks(mem'), frames, psp)
    BY <2>2, <2>3, <2>4 DEF Tidy, Left, Saved, Environments
  <2> QED
    BY <2>1, <2>5 DEF TidyInv, KeepsOrFrees
<1>2. CASE Int21Allocate
  <2>1. UNCHANGED <<session, psp, frames, resident>>
    BY <1>2 DEF Int21Allocate
  <2>2. /\ Blocks(mem) \subseteq Blocks(mem')
        /\ \A b \in Blocks(mem') : b \in Blocks(mem) \/ b.owner = psp
    <3>1. \A s, z : NewBlock(s, z, psp).owner = psp
      BY DEF NewBlock
    <3> QED
      BY <1>2, <3>1, AllocateStep
  <2>3. Keeps(Blocks(mem), Blocks(mem'), frames, psp, session.freesEnvironment)
    BY <1>0, <2>2 DEF Keeps, OwnChange, KeepsEnvironments
  <2> QED
    BY <2>1, <2>3, TidyFrom
<1>3. CASE Int21Free
  <2>1. UNCHANGED <<session, psp, frames, resident>>
    BY <1>3 DEF Int21Free
  <2>2. PICK b \in Blocks(mem) : /\ b.owner = psp /\ b.base # psp
                                 /\ IsEnvironment(b.base) => session.freesEnvironment
                                 /\ Blocks(mem') = {c \in Blocks(mem) : c.base # b.base}
    BY <1>3, FreeStep
  <2>3. OwnChange(Blocks(mem), Blocks(mem'), psp)
    <3>1. \A c \in Blocks(mem) : c.owner # psp => c \in Blocks(mem')
      BY <1>0, <2>2
    <3> QED
      BY <1>0, <2>2, <3>1 DEF OwnChange
  <2>4. ASSUME ~ session.freesEnvironment
        PROVE  KeepsEnvironments(Blocks(mem), Blocks(mem'), frames, psp)
    <3>1. ASSUME NEW c \in Blocks(mem),
                 c.owner # psp \/ (frames # <<>> /\ c.base = frames[Len(frames)].env)
          PROVE  c \in Blocks(mem')
      <4>1. c.base # b.base
        BY <1>0, <2>2, <2>4, <3>1 DEF IsEnvironment
      <4> QED
        BY <2>2, <4>1
    <3> QED
      BY <3>1 DEF KeepsEnvironments
  <2> QED
    BY <2>1, <2>3, <2>4, TidyFrom DEF Keeps
<1>4. CASE Int21Resize
  <2>1. UNCHANGED <<session, psp, frames, resident>>
    BY <1>4 DEF Int21Resize
  <2>2. PICK b \in Blocks(mem), z \in Nat :
          b.owner = psp /\ ResizedTo(Blocks(mem), Blocks(mem'), b, z)
    BY <1>4, ResizeStep
  <2>3. /\ OwnChange(Blocks(mem), Blocks(mem'), psp)
        /\ \A c \in Blocks(mem) : \E d \in Blocks(mem') : d.base = c.base /\ d.owner = c.owner
    <3>1. PICK B, C : B = Blocks(mem) /\ C = Blocks(mem')
      OBVIOUS
    <3>2. b \in B /\ (\A c \in B : c.base = b.base => c = b) /\ ResizedTo(B, C, b, z)
          /\ \E c \in B : c.base = psp /\ c.owner = psp
      BY <1>0, <2>2, <3>1
    <3>3. /\ OwnChange(B, C, psp)
          /\ \A c \in B : \E d \in C : d.base = c.base /\ d.owner = c.owner
      BY <2>2, <3>2, ResizeOwn
    <3> QED
      BY <3>1, <3>3
  <2>4. KeepsEnvironments(Blocks(mem), Blocks(mem'), frames, psp)
    BY <2>3 DEF KeepsEnvironments
  <2> QED
    BY <2>1, <2>3, <2>4, TidyFrom DEF Keeps
<1>5. CASE ExecBegin
  <2>1. UNCHANGED <<session, resident>>
    BY <1>5 DEF ExecBegin
  <2>2. CASE Blocks(mem') = Blocks(mem) /\ psp' = psp /\ frames' = frames
    <3>1. Keeps(Blocks(mem), Blocks(mem'), frames, psp, session.freesEnvironment)
      BY <1>0, <2>2 DEF Keeps, OwnChange, KeepsEnvironments
    <3> QED
      BY <2>1, <2>2, <3>1, TidyFrom
  <2>3. ASSUME NEW e, NEW p, NEW size, Loaded(mem, mem', e, p, size), psp' = p,
               frames' = Append(frames, SavedFrame(mem, psp, p, e))
        PROVE  TidyInv'
    <3>1. ChainInv'
      BY ChainStep
    <3>2. psp' # DosOwner /\ p # DosOwner
      <4>1. Len(frames') \in Nat /\ psp' \in BlockOwners /\ psp' # DosOwner
        <5>1. Len(frames') + 1 \in 1 .. Len(frames') + 1 /\ Len(frames') \in Nat
          BY <3>1 DEF ChainInv
        <5>2. Occupies(Blocks(mem'), psp')
          BY <3>1, <5>1 DEF ChainInv, Placed, Running
        <5>3. PICK b \in Blocks(mem') : b.base = psp' /\ b.owner = psp' /\ b.size > 0
          BY <5>2 DEF Occupies
        <5>4. Good(mem') /\ b.base \in FirstMcb + 1 .. Top /\ b.owner \in BlockOwners
          BY <3>1, <5>3, BlockIs DEF ChainInv
        <5> QED
          BY <5>1, <5>3, <5>4, MemoryAssumption DEF BlockOwners, FirstMcb
      <4> QED
        BY <2>3, <4>1
    <3>3. PICK r : r = SavedFrame(mem, psp, p, e)
      OBVIOUS
    <3>4. r.psp = psp /\ r.child = p /\ r.env = e /\ r.before = Blocks(mem)
      BY <3>3 DEF SavedFrame
    <3>5. PICK x, y : /\ x.base = e /\ x.owner = p /\ y.base = p /\ y.owner = p
                      /\ Blocks(mem') = Blocks(mem) \cup {x, y}
      <4>1. Blocks(mem') = Blocks(mem) \cup {NewBlock(e, EnvParas, p), NewBlock(p, size, p)}
        BY <2>3 DEF Loaded
      <4>2. \A s, z, o : NewBlock(s, z, o).base = s /\ NewBlock(s, z, o).owner = o
        BY DEF NewBlock
      <4> QED
        BY <4>1, <4>2
    <3>6. r \in Frames
      <4>1. Len(frames') = Len(frames) + 1 /\ frames'[Len(frames) + 1] = r
        BY <1>0, <2>3, <3>3, AppendProperties
      <4>2. frames' \in Seq(Frames)
        BY <3>1 DEF ChainInv
      <4>3. Len(frames) + 1 \in 1 .. Len(frames')
        BY <1>0, <4>1
      <4> QED
        BY <4>1, <4>2, <4>3, ElementOfSeq
    <3>7. PICK f : f = frames'
      OBVIOUS
    <3>8. Pushed(f, frames, psp, r, p)
      <4>1. f = Append(frames, r)
        BY <2>3, <3>3, <3>7
      <4> QED
        BY <1>0, <3>4, <3>6, <4>1, PushIs
    <3>9. \A b \in Blocks(mem) : b.base # p /\ b.base # r.env
      BY <2>3, <3>4 DEF Loaded
    <3>10. Tidy(Blocks(mem'), f, p, resident)
      <4>1. Tidy(Blocks(mem), frames, psp, resident)
        BY DEF TidyInv
      <4> QED
        BY <3>2, <3>4, <3>5, <3>8, <3>9, <4>1, TidyPushed
    <3>11. ~ session.freesEnvironment => Environments(Blocks(mem'), f, p)
      <4>1. Blocks(mem) \subseteq Blocks(mem') /\ \E b \in Blocks(mem') : b.base = r.env /\ b.owner = p
        BY <3>4, <3>5
      <4> QED
        BY <3>8, <4>1, EnvironmentsPushed DEF TidyInv
    <3> QED
      BY <2>1, <2>3, <3>7, <3>10, <3>11 DEF TidyInv, KeepsOrFrees
  <2> QED
    BY <1>5, <2>2, <2>3, ExecIs
<1>6. CASE Terminate
  <2>1. UNCHANGED <<session, resident>>
    BY <1>6 DEF Terminate
  <2>2. /\ Blocks(mem') = {b \in Blocks(mem) : b.owner # psp}
        /\ Popped(frames', frames, psp, psp')
    BY <1>6, EndsOwn
  <2>3. PICK C : C = Blocks(mem')
    OBVIOUS
  <2>4. Tidy(C, frames', psp', resident)
    <3>1. C = {b \in Blocks(mem) : b.owner # psp} /\ Tidy(Blocks(mem), frames, psp, resident)
      BY <2>2, <2>3 DEF TidyInv
    <3> QED
      BY <1>0, <2>2, <3>1, TidyPopped
  <2>5. ~ session.freesEnvironment => Environments(C, frames', psp')
    <3>1. \A b \in Blocks(mem) : b.owner # psp => \E c \in C : c.base = b.base /\ c.owner = b.owner
      BY <2>2, <2>3
    <3> QED
      BY <1>0, <2>2, <3>1, EnvironmentsPopped DEF TidyInv
  <2> QED
    BY <2>1, <2>3, <2>4, <2>5 DEF TidyInv, KeepsOrFrees
<1>7. CASE StayResident
  <2>1. UNCHANGED session /\ session.staysResident
    BY <1>7, StayStep DEF StayResident
  <2>2. ~ session.freesEnvironment
    BY <2>1 DEF TidyInv, KeepsOrFrees
  <2>3. /\ OwnChange(Blocks(mem), Blocks(mem'), psp)
        /\ \A c \in Blocks(mem) : \E d \in Blocks(mem') : d.base = c.base /\ d.owner = c.owner
        /\ Popped(frames', frames, psp, psp')
        /\ resident' = resident \cup {b \in Blocks(mem') : b.owner = psp}
        /\ Placed(Blocks(mem'), frames, psp)
    BY <1>7, StaysOwn
  <2>4. Tidy(Blocks(mem'), frames, psp, resident)
    BY <1>0, <2>3, TidyKept DEF TidyInv
  <2>5. PICK C, rest : C = Blocks(mem') /\ rest = resident'
    OBVIOUS
  <2>6. Tidy(C, frames', psp', rest)
    <3>1. /\ Placed(C, frames, psp) /\ Tidy(C, frames, psp, resident)
          /\ rest = resident \cup {b \in C : b.owner = psp}
      BY <2>3, <2>4, <2>5
    <3> QED
      BY <2>3, <3>1, TidyStayed
  <2>7. Environments(C, frames', psp')
    <3>1. /\ Environments(Blocks(mem), frames, psp)
          /\ \A b \in Blocks(mem) : b.owner # psp => \E c \in C : c.base = b.base /\ c.owner = b.owner
      BY <2>2, <2>3, <2>5 DEF TidyInv
    <3> QED
      BY <1>0, <2>3, <3>1, EnvironmentsPopped
  <2> QED
    BY <2>1, <2>2, <2>5, <2>6, <2>7 DEF TidyInv, KeepsOrFrees
<1>8. CASE GuestWrites
  <2>1. UNCHANGED <<session, psp, frames, resident>>
    BY <1>8 DEF GuestWrites
  <2>2. Blocks(mem') = Blocks(mem)
    BY <1>8, WriteStep
  <2>3. Keeps(Blocks(mem), Blocks(mem'), frames, psp, session.freesEnvironment)
    BY <1>0, <2>2 DEF Keeps, OwnChange, KeepsEnvironments
  <2> QED
    BY <2>1, <2>3, TidyFrom
<1>9. CASE UNCHANGED vars
  <2>1. UNCHANGED <<session, mem, psp, frames, started, resident>>
    BY <1>9 DEF vars
  <2> QED
    BY <2>1 DEF TidyInv, KeepsOrFrees
<1> QED
  BY <1>1, <1>2, <1>3, <1>4, <1>5, <1>6, <1>7, <1>8, <1>9 DEF Next

(* What a program left resident stays allocated, as long as no program     *)
(* that stays resident can have freed its own environment.                 *)
THEOREM ResidentsStay == Spec /\ LoadsFit /\ KeepsOrFrees => []ResidentKept
<1>1. TidyInv => ResidentKept
  BY DEF TidyInv, Tidy, Left, ResidentKept
<1> QED
  BY <1>1, ChainInit, ChainStep, TidyInit, TidyStep, PTL DEF Spec

(* A child that ends gives its parent back the memory it had at EXEC, but  *)
(* for what stayed resident in between.                                    *)
THEOREM ExitsGiveBack == Spec /\ LoadsFit /\ KeepsOrFrees => ExitGivesBack
<1>1. ASSUME ChainInv, TidyInv, [Next]_vars
      PROVE  [Len(frames') < Len(frames) /\ resident' = resident
                => Frame.before = {b \in Blocks(mem') : b \in Frame.before \/ b \notin resident}]_vars
  <2> SUFFICES ASSUME Next, Len(frames') < Len(frames), resident' = resident
               PROVE  Frame.before = {b \in Blocks(mem') : b \in Frame.before \/ b \notin resident}
    BY <1>1
  <2>1. Len(frames) \in Nat
    BY <1>1, CurrentIs
  <2>2. CASE frames' = frames
    BY <2>1, <2>2
  <2>3. CASE ExecBegin
    <3>1. PICK e, p : frames' = Append(frames, SavedFrame(mem, psp, p, e))
      BY <1>1, <2>2, <2>3, ExecIs
    <3>2. Len(frames') = Len(frames) + 1
      BY <1>1, <3>1, AppendProperties DEF ChainInv
    <3> QED
      BY <2>1, <3>2
  <2>4. CASE Terminate
    <3>1. frames # <<>> /\ Blocks(mem') = {b \in Blocks(mem) : b.owner # psp}
      BY <1>1, <2>4, EndStep, EndsOwn
    <3>2. Len(frames) \in 1 .. Len(frames) /\ Frame = frames[Len(frames)]
      BY <1>1, <3>1, CurrentIs DEF Frame
    <3>3. /\ Frame.before \subseteq Blocks(mem)
          /\ \A b \in Frame.before : ~ Above(frames, psp, Len(frames), b.owner)
          /\ \A b \in Blocks(mem) : b \in Frame.before \/ b \in resident
                                    \/ Above(frames, psp, Len(frames), b.owner)
      BY <1>1, <3>2 DEF TidyInv, Tidy, Saved
    <3>4. \A o : Above(frames, psp, Len(frames), o) <=> o = psp
      <4>1. \A j : j \in Len(frames) + 1 .. Len(frames) + 1 <=> j = Len(frames) + 1
        BY <2>1
      <4> QED
        BY <4>1 DEF Above, Running
    <3> QED
      BY <3>1, <3>3, <3>4
  <2>5. CASE StayResident
    <3>1. /\ OwnChange(Blocks(mem), Blocks(mem'), psp)
          /\ resident' = resident \cup {b \in Blocks(mem') : b.owner = psp}
      BY <1>1, <2>5, StaysOwn
    <3>2. PICK c \in Blocks(mem') : c.owner = psp
      BY <3>1 DEF OwnChange
    <3>3. c \in resident
      BY <3>1, <3>2
    <3>4. Len(frames) + 1 \in 1 .. Len(frames) + 1 /\ Running(frames, psp, Len(frames) + 1) = psp
      BY <2>1 DEF Running
    <3>5. c.owner # psp
      BY <1>1, <3>3, <3>4 DEF TidyInv, Tidy, Left
    <3> QED
      BY <3>2, <3>5
  <2> QED
    BY <2>2, <2>3, <2>4, <2>5
       DEF Next, StartupBuildMemoryChain, Int21Allocate, Int21Free, Int21Resize, GuestWrites
<1> QED
  BY <1>1, ChainInit, ChainStep, TidyInit, TidyStep, PTL DEF Spec, ExitGivesBack

-----------------------------------------------------------------------------
(* What DOS promises its programs, implemented.                            *)
LEMMA FitsIs ==
    ASSUME NEW m, Good(m), NEW b \in Blocks(m), NEW others, others \subseteq Blocks(m), b \notin others
    PROVE  Promise!FitsBeside(b, others)
<1>1. b.base + b.size <= Top
  BY BlockIs
<1>2. \A c \in others : b.base + b.size < c.base \/ c.base + c.size < b.base
  BY BlocksApart
<1> QED
  BY <1>1, <1>2 DEF Promise!FitsBeside, Promise!InBounds, Promise!Separate

PromisedTypes == Blocks(mem) \in SUBSET Promise!Block /\ psp \in Promise!Segments

LEMMA PromisedBlocks == ChainInv /\ TidyInv => PromisedTypes
<1> SUFFICES ASSUME ChainInv, TidyInv PROVE PromisedTypes
  OBVIOUS
<1>1. Good(mem)
  BY DEF ChainInv
<1>2. ASSUME NEW b \in Blocks(mem)
      PROVE  b \in Promise!Block
  <2>1. /\ b = [base |-> b.base, size |-> b.size, owner |-> b.owner]
        /\ b.base \in FirstMcb + 1 .. Top /\ b.size \in 0 .. Top
    BY <1>1, BlockIs
  <2>2. b.owner \in (FirstMcb + 1 .. Top) \cup {DosOwner}
    <3>1. b.owner = DosOwner \/ \E c \in Blocks(mem) : c.base = b.owner
      BY DEF TidyInv, Tidy, Owned
    <3> QED
      BY <1>1, <3>1, BlockIs
  <2> QED
    BY <2>1, <2>2 DEF Promise!Block, Promise!Segments, Promise!Owners
<1>3. psp \in FirstMcb + 1 .. Top
  BY <1>1, CurrentIs, BlockIs
<1> QED
  BY <1>2, <1>3 DEF PromisedTypes, Promise!Segments

LEMMA PromisedNext == ChainInv' /\ TidyInv' => PromisedTypes'
  BY PromisedBlocks, PTL

(* The resize of one of a program's blocks.                                *)
LEMMA PromisedResize ==
    ASSUME ChainInv, Good(mem'), NEW b \in Blocks(mem), b.owner = psp, NEW z,
           ResizedTo(Blocks(mem), Blocks(mem'), b, z)
    PROVE  Blocks(mem') = Blocks(mem) \/ Promise!ResizedInPlace
<1>1. \A c \in Blocks(mem) : c.base = b.base <=> c = b
  BY OneBlock DEF ChainInv
<1>2. PICK c : c = Resized(b, z)
  OBVIOUS
<1>3. c.base = b.base /\ c.owner = psp
  BY <1>2 DEF Resized
<1>4. CASE Blocks(mem') # Blocks(mem)
  <2>1. Blocks(mem') = (Blocks(mem) \ {b}) \cup {c}
    BY <1>1, <1>2, <1>4 DEF ResizedTo
  <2>2. c # b
    BY <1>4, <2>1
  <2>3. c \notin Blocks(mem) /\ b \notin Blocks(mem')
    BY <1>1, <1>3, <2>1, <2>2
  <2>4. Promise!FitsBeside(c, Blocks(mem) \ {b})
    <3>1. c \in Blocks(mem') /\ Blocks(mem) \ {b} \subseteq Blocks(mem') /\ c \notin Blocks(mem) \ {b}
      BY <2>1, <2>3
    <3> QED
      BY <3>1, FitsIs
  <2>5. b \in Promise!Removed /\ c \in Promise!Added
    BY <2>1, <2>3 DEF Promise!Removed, Promise!Added
  <2> QED
    BY <1>3, <2>1, <2>4, <2>5 DEF Promise!ResizedInPlace
<1> QED
  BY <1>4

Promised ==
    \/ Promise!Allocate
    \/ Promise!GiveBack
    \/ Promise!Resize
    \/ Promise!StartProgram
    \/ Promise!EndProgram
    \/ Promise!KeepResident
    \/ Promise!ReserveTop
    \/ UNCHANGED <<Blocks(mem), psp>>

LEMMA PromisedStart ==
    ASSUME ChainInv, StartupBuildMemoryChain
    PROVE  Promised
<1>1. /\ Good(mem') /\ Good(mem) /\ psp = PspSeg /\ psp' = psp /\ mem = DosMcbInitializeWithTop
      /\ \/ Blocks(mem') = Blocks(mem)
         \/ \E z, a, size \in Nat :
               /\ z < Top - PspSeg
               /\ \A b \in Blocks(mem) : b.base # a
               /\ Blocks(mem') = {b \in Blocks(mem) : b.base # PspSeg}
                                 \cup {NewBlock(PspSeg, z, PspSeg), NewBlock(a, size, DosOwner)}
  BY StartStep DEF StartupBuildMemoryChain, ChainInv
<1>2. CASE Blocks(mem') = Blocks(mem)
  BY <1>1, <1>2 DEF Promised
<1>3. ASSUME NEW z \in Nat, NEW a \in Nat, NEW size \in Nat, z < Top - PspSeg,
             \A b \in Blocks(mem) : b.base # a,
             Blocks(mem') = {b \in Blocks(mem) : b.base # PspSeg}
                            \cup {NewBlock(PspSeg, z, PspSeg), NewBlock(a, size, DosOwner)}
      PROVE  Promise!ReserveTop
  <2>1. PICK b, c, d : /\ b = NewBlock(PspSeg, Top - PspSeg, PspSeg)
                       /\ c = NewBlock(PspSeg, z, PspSeg) /\ d = NewBlock(a, size, DosOwner)
    OBVIOUS
  <2>2. /\ b.base = PspSeg /\ b.owner = PspSeg /\ b.size = Top - PspSeg
        /\ c.base = PspSeg /\ c.owner = PspSeg /\ c.size = z
        /\ d.base = a /\ d.owner = DosOwner
    BY <2>1 DEF NewBlock
  <2>3. Blocks(mem) = StartBlocks /\ PspSeg \in FirstMcb + 1 .. Top - 1
    BY <1>1, InitialIs
  <2>4. b \in Blocks(mem) /\ c # b
    <3>1. b \in Blocks(mem)
      BY <2>1, <2>3 DEF StartBlocks
    <3>2. c.size # b.size
      BY <1>3, <2>2, <2>3, MemoryAssumption DEF FirstMcb
    <3> QED
      BY <3>1, <3>2
  <2>5. \A x \in Blocks(mem) : x.base = PspSeg <=> x = b
    BY <1>1, <2>2, <2>4, OneBlock
  <2>6. Blocks(mem') = (Blocks(mem) \ {b}) \cup {c, d}
    BY <1>3, <2>1, <2>5
  <2>7. c \notin Blocks(mem) /\ d \notin Blocks(mem) /\ d # c
    BY <1>3, <2>2, <2>4, <2>5
  <2>8. b \notin Blocks(mem')
    BY <2>4, <2>6, <2>7
  <2>9. Promise!FitsBeside(c, Blocks(mem) \ {b})
    <3>1. c \in Blocks(mem') /\ Blocks(mem) \ {b} \subseteq Blocks(mem') /\ c \notin Blocks(mem) \ {b}
      BY <2>6, <2>7
    <3> QED
      BY <1>1, <3>1, FitsIs
  <2>10. Promise!FitsBeside(d, (Blocks(mem) \ {b}) \cup {c})
    <3>1. /\ d \in Blocks(mem') /\ (Blocks(mem) \ {b}) \cup {c} \subseteq Blocks(mem')
          /\ d \notin (Blocks(mem) \ {b}) \cup {c}
      BY <2>6, <2>7
    <3> QED
      BY <1>1, <3>1, FitsIs
  <2>11. b \in Promise!Removed /\ c \in Promise!Added /\ d \in Promise!Added
    BY <2>4, <2>6, <2>7, <2>8 DEF Promise!Removed, Promise!Added
  <2> QED
    BY <1>1, <2>2, <2>6, <2>9, <2>10, <2>11 DEF Promise!ReserveTop
<1> QED
  BY <1>1, <1>2, <1>3 DEF Promised

LEMMA PromisedAllocate ==
    ASSUME ChainInv, Int21Allocate
    PROVE  Promised
<1>1. /\ Good(mem') /\ psp' = psp
      /\ \/ Blocks(mem') = Blocks(mem)
         \/ \E s \in Nat, z \in Nat :
               /\ \A b \in Blocks(mem) : b.base # s
               /\ Blocks(mem') = Blocks(mem) \cup {NewBlock(s, z, psp)}
  BY AllocateStep DEF Int21Allocate
<1>2. CASE Blocks(mem') = Blocks(mem)
  BY <1>1, <1>2 DEF Promised
<1>3. ASSUME NEW s, NEW z, \A b \in Blocks(mem) : b.base # s,
             Blocks(mem') = Blocks(mem) \cup {NewBlock(s, z, psp)}
      PROVE  Promise!Allocate
  <2> PICK b : b = NewBlock(s, z, psp)
    OBVIOUS
  <2>1. b = NewBlock(s, z, psp) /\ b.base = s /\ b.owner = psp
    BY DEF NewBlock
  <2>2. b \notin Blocks(mem) /\ Blocks(mem') = Blocks(mem) \cup {b}
    BY <1>3, <2>1
  <2>3. Promise!FitsBeside(b, Blocks(mem))
    <3>1. b \in Blocks(mem') /\ Blocks(mem) \subseteq Blocks(mem')
      BY <2>2
    <3> QED
      BY <1>1, <2>2, <3>1, FitsIs
  <2>4. b \in Promise!Added
    BY <2>2 DEF Promise!Added
  <2> QED
    BY <1>1, <2>1, <2>2, <2>3, <2>4 DEF Promise!Allocate
<1> QED
  BY <1>1, <1>2, <1>3 DEF Promised

LEMMA PromisedExec ==
    ASSUME ChainInv, ExecBegin
    PROVE  Promised
<1>1. /\ Good(mem')
      /\ \/ Blocks(mem') = Blocks(mem) /\ psp' = psp
         \/ \E e, p, size : Loaded(mem, mem', e, p, size) /\ psp' = p
  BY ExecIs
<1>2. ASSUME NEW e, NEW p, NEW size, Loaded(mem, mem', e, p, size), psp' = p
      PROVE  Promise!StartProgram
  <2> PICK x, y : x = NewBlock(e, EnvParas, p) /\ y = NewBlock(p, size, p)
    OBVIOUS
  <2>1. /\ x = NewBlock(e, EnvParas, p) /\ y = NewBlock(p, size, p)
        /\ x.base = e /\ x.owner = p /\ y.base = p /\ y.owner = p
    BY DEF NewBlock
  <2>2. /\ Blocks(mem') = Blocks(mem) \cup {x, y} /\ x # y
        /\ x \notin Blocks(mem) /\ y \notin Blocks(mem)
    BY <1>2, <2>1 DEF Loaded
  <2>3. Promise!FitsBeside(x, Blocks(mem))
    <3>1. x \in Blocks(mem') /\ Blocks(mem) \subseteq Blocks(mem')
      BY <2>2
    <3> QED
      BY <1>1, <2>2, <3>1, FitsIs
  <2>4. Promise!FitsBeside(y, Blocks(mem) \cup {x})
    <3>1. /\ y \in Blocks(mem') /\ Blocks(mem) \cup {x} \subseteq Blocks(mem')
          /\ y \notin Blocks(mem) \cup {x}
      BY <2>2
    <3> QED
      BY <1>1, <3>1, FitsIs
  <2>5. x \in Promise!Added /\ y \in Promise!Added /\ Blocks(mem') = Blocks(mem) \cup {y, x}
    BY <2>2 DEF Promise!Added
  <2> QED
    BY <1>2, <2>1, <2>3, <2>4, <2>5 DEF Promise!StartProgram
<1> QED
  BY <1>1, <1>2 DEF Promised

LEMMA PromisedStep ==
    ASSUME ChainInv, TidyInv, [Next]_vars
    PROVE  [Promise!ArenaNext]_(Promise!arenaVars)
<1>1. Blocks(mem') \in SUBSET Promise!Block /\ psp' \in Promise!Segments
  <2>1. ChainInv' /\ TidyInv'
    BY ChainStep, TidyStep
  <2> QED
    BY <2>1, PromisedNext DEF PromisedTypes
<1>2. Promised
  <2>1. CASE Int21Free
    <3>1. PICK b \in Blocks(mem) :
            b.owner = psp /\ Blocks(mem') = {c \in Blocks(mem) : c.base # b.base}
      BY <2>1, FreeStep
    <3>2. \A c \in Blocks(mem) : c.base = b.base <=> c = b
      BY OneBlock DEF ChainInv
    <3>3. Blocks(mem') = Blocks(mem) \ {b} /\ b \in Promise!Removed
      BY <3>1, <3>2 DEF Promise!Removed
    <3>4. psp' = psp
      BY <2>1 DEF Int21Free
    <3> QED
      BY <3>1, <3>3, <3>4 DEF Promise!GiveBack, Promised
  <2>2. CASE Int21Resize
    <3>1. PICK b \in Blocks(mem), z \in Nat :
            b.owner = psp /\ ResizedTo(Blocks(mem), Blocks(mem'), b, z)
      BY <2>2, ResizeStep
    <3>2. Blocks(mem') = Blocks(mem) \/ Promise!ResizedInPlace
      BY <2>2, <3>1, ResizeStep, PromisedResize
    <3>3. psp' = psp
      BY <2>2 DEF Int21Resize
    <3> QED
      BY <3>2, <3>3 DEF Promise!Resize, Promised
  <2>3. CASE Terminate
    <3>1. Blocks(mem') = {b \in Blocks(mem) : b.owner # psp}
      BY <2>3, EndsOwn
    <3> QED
      BY <3>1 DEF Promise!EndProgram, Promised
  <2>4. CASE StayResident
    <3>1. PICK b \in Blocks(mem), z \in Nat :
            b.owner = psp /\ ResizedTo(Blocks(mem), Blocks(mem'), b, z)
      BY <2>4, StayStep
    <3>2. Blocks(mem') = Blocks(mem) \/ Promise!ResizedInPlace
      BY <2>4, <3>1, StayStep, PromisedResize
    <3> QED
      BY <3>2 DEF Promise!KeepResident, Promised
  <2>5. CASE GuestWrites
    <3>1. Blocks(mem') = Blocks(mem) /\ psp' = psp
      BY <2>5, WriteStep DEF GuestWrites
    <3> QED
      BY <3>1 DEF Promised
  <2>6. CASE UNCHANGED vars
    BY <2>6 DEF vars, Promised
  <2> QED
    BY <2>1, <2>2, <2>3, <2>4, <2>5, <2>6, PromisedStart, PromisedAllocate, PromisedExec DEF Next
<1> QED
  BY <1>1, <1>2 DEF Promised, Promise!ArenaNext, Promise!arenaVars

(* What DOS promises, implemented: every step of the chain is one of the   *)
(* arena's or changes no block.                                            *)
THEOREM PromiseKept == Spec /\ LoadsFit /\ KeepsOrFrees => ImplementsArena
<1>1. Init => Promise!ArenaInit
  BY DEF Init, Promise!ArenaInit
<1> QED
  BY <1>1, ChainInit, ChainStep, TidyInit, TidyStep, PromisedStep, PTL
     DEF Spec, ImplementsArena, Promise!ArenaSpec
=============================================================================
