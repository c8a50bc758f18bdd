--------------------------- MODULE ProgramProofs ---------------------------
(***************************************************************************)
(* Theorems about programs.  The file handles they get from DOS, for every *)
(* number of handles, of nested programs and of calls; and, for Win16, the *)
(* tasks and the callbacks of the host, for every number of tasks, parked  *)
(* or calling each other, and every depth of calls.                        *)
(***************************************************************************)
EXTENDS DosHandles, WowTasks, SetFacts, FiniteSetTheorems, SequenceTheorems

-----------------------------------------------------------------------------
LEMMA LeastIn ==
    ASSUME NEW S \in SUBSET Nat, S # {}
    PROVE  Min(S) \in S /\ \A y \in S : Min(S) <= y
  BY LeastNatural DEF Min

(* A finite set of naturals has a greatest element.                        *)
LEMMA GreatestIn ==
    ASSUME NEW S \in SUBSET Nat, IsFiniteSet(S), S # {}
    PROVE  Max(S) \in S /\ \A y \in S : y <= Max(S)
<1> DEFINE Sets(n) == {T \in SUBSET Nat : IsFiniteSet(T) /\ Cardinality(T) = n /\ T # {}}
           Bad == {n \in Nat : \E T \in Sets(n) : \A x \in T : \E y \in T : ~ y <= x}
<1>1. Bad = {}
  <2> SUFFICES ASSUME Bad # {} PROVE FALSE
    OBVIOUS
  <2>1. PICK n \in Bad : \A m \in Bad : n <= m
    BY LeastNatural
  <2>2. PICK T \in Sets(n) : \A x \in T : \E y \in T : ~ y <= x
    BY <2>1
  <2>3. PICK x \in T : TRUE
    BY <2>2
  <2>4. /\ IsFiniteSet(T \ {x}) /\ Cardinality(T \ {x}) = n - 1
        /\ T \ {x} \in SUBSET Nat /\ n - 1 \in Nat
    <3>1. IsFiniteSet(T \ {x}) /\ Cardinality(T \ {x}) = n - 1
      BY <2>2, <2>3, FS_RemoveElement
    <3> QED
      BY <2>2, <3>1, FS_CardinalityType
  <2>5. CASE T \ {x} = {}
    BY <2>2, <2>3, <2>5
  <2>6. CASE T \ {x} # {}
    <3>1. n - 1 \notin Bad
      BY <2>1, <2>4
    <3>2. T \ {x} \in Sets(n - 1)
      BY <2>4, <2>6
    <3>3. PICK z \in T \ {x} : \A y \in T \ {x} : y <= z
      BY <2>4, <3>1, <3>2
    <3> QED
      BY <2>2, <2>3, <3>3
  <2> QED
    BY <2>5, <2>6
<1>2. S \in Sets(Cardinality(S)) /\ Cardinality(S) \in Nat
  BY FS_CardinalityType
<1>3. \E x \in S : \A y \in S : x >= y
  BY <1>1, <1>2
<1> QED
  BY <1>3 DEF Max

-----------------------------------------------------------------------------
(* File handles: the tables of all programs, and what they hold.           *)
Meanings == Files \cup {Con, Prn, Closed}

(* A value for every handle.                                               *)
Entries(S) == [Slots -> S]

Tables ==
    [fh : [Slots -> Nat], std : SUBSET (0 .. DevSlots - 1), kind : [Slots -> {Con, Prn}],
     known : [Slots -> Nat]]

Undos ==
    [to : 0 .. StdHandles - 1, from : StdHandles .. MaxFiles - 1, entry : Nat, was : Meanings]

HandleTypes ==
    /\ table \in Tables /\ saved \in Seq(Tables)
    /\ jfts \in Seq(Entries(Nat)) /\ meant \in Seq(Entries(Meanings))
    /\ redirects \in Seq(SUBSET Undos)
    /\ Len(jfts) = Len(saved) + 1 /\ Len(meant) = Len(saved) + 1 /\ Len(redirects) = Len(saved) + 1
    /\ depth = Len(saved) /\ Len(saved) < MaxPrograms
    /\ sftHost \in [SftIndexes -> HostHandles \cup {0}]
    /\ DOMAIN host \subseteq HostHandles
    /\ handleGuest \in HandleGuests

Parents == 1 .. Len(saved)

(* The host's handles are the tables' and the resident programs'; one that *)
(* a table holds twice its program was given, and a parent holds it too.   *)
HostInv ==
    /\ \A h \in Slots : table.fh[h] # 0 => table.fh[h] \in DOMAIN host \ leftBehind
    /\ \A k \in Parents, h \in Slots :
          saved[k].fh[h] # 0 => saved[k].fh[h] \in DOMAIN host \ leftBehind
    /\ leftBehind \subseteq DOMAIN host
    /\ \A x \in DOMAIN host :
          x \in leftBehind \/ DosHandleIsHeldByParent(x) \/ \E h \in Slots : table.fh[h] = x
    /\ \A g, h \in Slots :
          g # h /\ table.fh[g] = table.fh[h] /\ table.fh[h] # 0 => DosHandleIsHeldByParent(table.fh[h])
    /\ \A k \in Parents, g, h \in Slots :
          g # h /\ saved[k].fh[g] = saved[k].fh[h] /\ saved[k].fh[h] # 0 =>
             \E j \in 1 .. k - 1, i \in Slots : saved[j].fh[i] = saved[k].fh[h]

(* What a program meant its entries to be, with a redirection taken back:  *)
(* then its JFT is what DOS knows of it.                                   *)
Meaning(jft, means, undo, t, m) ==
    \/ undo = {} /\ jft = t.known /\ means = m
    \/ \E u \in Undos :
          /\ undo = {u}
          /\ [jft EXCEPT ![u.from] = jft[u.to], ![u.to] = u.entry] = t.known
          /\ [means EXCEPT ![u.from] = means[u.to], ![u.to] = u.was] = m

(* How the table of the program k serves one of its handles.               *)
SlotOk(k, t, m, h) ==
    /\ handleGuest # "redirectsAndCloses" /\ h < StdHandles => Target(t, h) = m[h]
    /\ m[h] \in Files => t.fh[h] # 0 /\ host[t.fh[h]] = m[h]
    /\ handleGuest = "duplicates" => Target(t, h) = m[h]
    /\ handleGuest = "duplicates" \/ k = 1 => (t.fh[h] # 0 => h \notin t.std)
    /\ handleGuest # "duplicates" =>
          /\ m[h] \in Files => t.known[h] \in SftIndexes
          /\ t.known[h] \in SftIndexes => t.fh[h] # 0 /\ sftHost[t.known[h]] = t.fh[h]

Serves(k, jft, means, undo, t) ==
    \E m \in [Slots -> Meanings] :
        Meaning(jft, means, undo, t, m) /\ \A h \in Slots : SlotOk(k, t, m, h)

ServesAll ==
    /\ \A k \in Parents : Serves(k, jfts[k], meant[k], redirects[k], saved[k])
    /\ Serves(Len(saved) + 1, Last(jfts), Last(meant), Last(redirects), table)

SftInv ==
    handleGuest # "duplicates" =>
        \A v, w \in SftIndexes : v # w /\ sftHost[v] # 0 => sftHost[v] # sftHost[w]

HandleInv == HandleTypes /\ HostInv /\ ServesAll /\ SftInv

(* The saved tables are as many as the programs, and the indexes as many   *)
(* as the host's handles, unless no program edits its JFT.                 *)
NestsWithin == MaxPrograms <= HandleStackDepth + 1

IndexesSuffice ==
    \/ HandleGuests = {"duplicates"}
    \/ IsFiniteSet(HostHandles) /\ Cardinality(HostHandles) <= Cardinality(SftIndexes)

-----------------------------------------------------------------------------
(* What a step has to do to a slot, and to the indexes, to keep it served. *)
LEMMA LastOf ==
    ASSUME NEW S, NEW s \in Seq(S), Len(s) # 0
    PROVE  Last(s) = s[Len(s)] /\ Last(s) \in S
  BY ElementOfSeq DEF Last

(* A step that leaves a table alone and its host handles open.             *)
LEMMA KeepsSlot ==
    ASSUME NEW k, NEW t, NEW m, NEW h, SlotOk(k, t, m, h), UNCHANGED handleGuest,
           t.fh[h] # 0 => t.fh[h] \in DOMAIN host' /\ host'[t.fh[h]] = host[t.fh[h]],
           handleGuest # "duplicates" =>
              \A v \in SftIndexes : sftHost[v] # 0 => sftHost'[v] = sftHost[v]
    PROVE  SlotOk(k, t, m, h)'
<1>1. Target(t, h)' = Target(t, h)
  BY DEF Target, DosHandleIsFile, DosHandleIsDevice
<1> QED
  BY <1>1 DEF SlotOk

LEMMA SftFull ==
    ASSUME HandleTypes, SftInv, IndexesSuffice, handleGuest # "duplicates",
           NEW x \in HostHandles, \A v \in SftIndexes : sftHost[v] # x
    PROVE  \E v \in SftIndexes : sftHost[v] = 0
<1> SUFFICES ASSUME \A v \in SftIndexes : sftHost[v] # 0 PROVE FALSE
  OBVIOUS
<1>1. IsFiniteSet(HostHandles) /\ Cardinality(HostHandles) <= Cardinality(SftIndexes)
  BY DEF HandleTypes, IndexesSuffice
<1> DEFINE Others == HostHandles \ {x}
<1>2. IsFiniteSet(Others) /\ Cardinality(Others) = Cardinality(HostHandles) - 1
  BY <1>1, FS_RemoveElement
<1>3. sftHost \in Injection(SftIndexes, Others)
  <2>1. \A v \in SftIndexes : sftHost[v] \in Others
    BY DEF HandleTypes
  <2>2. sftHost \in [SftIndexes -> Others]
    BY <2>1 DEF HandleTypes
  <2>3. \A v, w \in SftIndexes : sftHost[v] = sftHost[w] => v = w
    BY DEF SftInv
  <2> QED
    BY <2>2, <2>3 DEF Injection, IsInjective
<1> HIDE DEF Others
<1>4. Cardinality(SftIndexes) <= Cardinality(Others)
  BY <1>2, <1>3, FS_Injection
<1>5. Cardinality(HostHandles) \in Nat /\ Cardinality(SftIndexes) \in Nat
  BY <1>1, <1>2, <1>3, FS_Injection, FS_CardinalityType
<1> QED
  BY <1>1, <1>2, <1>4, <1>5

LEMMA SftGives ==
    ASSUME HandleTypes, SftInv, IndexesSuffice, NEW t \in Tables, NEW h \in Slots,
           t.fh[h] # 0 => t.fh[h] \in HostHandles
    PROVE  /\ SftFor(t, h).value \in Nat
           /\ SftFor(t, h).sft \in [SftIndexes -> HostHandles \cup {0}]
           /\ handleGuest # "duplicates" =>
                /\ \A v \in SftIndexes : sftHost[v] # 0 => SftFor(t, h).sft[v] = sftHost[v]
                /\ \A v, w \in SftIndexes :
                      v # w /\ SftFor(t, h).sft[v] # 0 => SftFor(t, h).sft[v] # SftFor(t, h).sft[w]
                /\ t.fh[h] # 0 => /\ SftFor(t, h).value \in SftIndexes
                                  /\ SftFor(t, h).sft[SftFor(t, h).value] = t.fh[h]
<1> DEFINE x == t.fh[h]
           holding == {v \in SftIndexes : sftHost[v] = x}
           free == {v \in SftIndexes : sftHost[v] = 0}
<1>0. /\ SftIndexes \subseteq Nat /\ SftIndexes # {} /\ 0 \notin HostHandles
      /\ sftHost \in [SftIndexes -> HostHandles \cup {0}]
  <2>1. SftIndexes \subseteq 3 .. 254
    BY HandlesAssumption DEF Prn, Closed
  <2>2. SftIndexes \subseteq Nat
    BY <2>1
  <2>3. SftIndexes # {} /\ 0 \notin HostHandles
    BY HandlesAssumption
  <2>4. sftHost \in [SftIndexes -> HostHandles \cup {0}]
    BY DEF HandleTypes
  <2> QED
    BY <2>2, <2>3, <2>4
<1>1. /\ holding # {} => Min(holding) \in holding
      /\ free # {} => Min(free) \in free
      /\ Min(SftIndexes) \in SftIndexes
  <2>1. ASSUME NEW S \in SUBSET SftIndexes, S # {} PROVE Min(S) \in S
    <3>1. S \in SUBSET Nat
      BY <1>0
    <3> QED
      BY <2>1, <3>1, LeastIn
  <2>2. holding \in SUBSET SftIndexes /\ free \in SUBSET SftIndexes
    OBVIOUS
  <2> HIDE DEF holding, free
  <2> QED
    BY <1>0, <2>1, <2>2
<1>2. DosHandleIsFile(t, h) <=> x # 0
  BY DEF DosHandleIsFile
<1>3. CASE x = 0
  <2>1. SftFor(t, h) = [value |-> IF DosHandleIsDevice(t, h) THEN t.kind[h] ELSE Closed, sft |-> sftHost]
    BY <1>2, <1>3 DEF SftFor
  <2>2. t.kind[h] \in Nat /\ Closed \in Nat
    BY DEF Tables, Con, Prn, Closed
  <2> QED
    BY <1>0, <1>3, <2>1, <2>2 DEF SftInv
<1>4. CASE x # 0 /\ holding # {}
  <2>1. SftFor(t, h) = [value |-> Min(holding), sft |-> sftHost]
    BY <1>2, <1>4 DEF SftFor
  <2>2. Min(holding) \in SftIndexes /\ sftHost[Min(holding)] = x
    BY <1>1, <1>4
  <2> HIDE DEF holding, free, x
  <2>3. PICK v \in SftIndexes : v = Min(holding)
    BY <2>2
  <2>4. SftFor(t, h).value = v /\ SftFor(t, h).sft = sftHost
    BY <2>1, <2>3
  <2>5. sftHost[v] = x
    BY <2>2, <2>3
  <2>6. v \in Nat
    BY <1>0
  <2> QED
    BY <1>0, <2>4, <2>5, <2>6 DEF SftInv, x
<1>5. CASE x # 0 /\ holding = {} /\ free # {}
  <2>1. SftFor(t, h) = [value |-> Min(free), sft |-> [sftHost EXCEPT ![Min(free)] = x]]
    BY <1>2, <1>5 DEF SftFor
  <2>2. Min(free) \in SftIndexes /\ sftHost[Min(free)] = 0
    BY <1>1, <1>5
  <2>3. \A v \in SftIndexes : sftHost[v] # x
    BY <1>5
  <2>4. x \in HostHandles
    BY <1>5
  <2> HIDE DEF holding, free, x
  <2>5. PICK v \in SftIndexes : v = Min(free)
    BY <2>2
  <2>6. PICK s : s = [sftHost EXCEPT ![v] = x]
    OBVIOUS
  <2>7. s \in [SftIndexes -> HostHandles \cup {0}] /\ \A w \in SftIndexes : s[w] = IF w = v THEN x ELSE sftHost[w]
    BY <1>0, <2>4, <2>6
  <2>8. SftFor(t, h).value = v /\ SftFor(t, h).sft = s
    BY <2>1, <2>5, <2>6
  <2> QED
    BY <1>0, <2>2, <2>3, <2>5, <2>7, <2>8 DEF SftInv, x
<1>6. CASE x # 0 /\ holding = {} /\ free = {}
  <2>1. SftFor(t, h) = [value |-> Min(SftIndexes),
                        sft |-> [v \in SftIndexes |-> IF v = Min(SftIndexes) THEN x ELSE 0]]
    BY <1>2, <1>6 DEF SftFor
  <2>2. x \in HostHandles
    BY <1>6
  <2>3. handleGuest = "duplicates"
    BY <1>6, <2>2, SftFull
  <2> HIDE DEF holding, free, x
  <2>4. PICK v \in SftIndexes : v = Min(SftIndexes)
    BY <1>1
  <2>5. PICK s : s = [w \in SftIndexes |-> IF w = v THEN x ELSE 0]
    OBVIOUS
  <2>6. SftFor(t, h).value = v /\ SftFor(t, h).sft = s
    BY <2>1, <2>4, <2>5
  <2>7. s \in [SftIndexes -> HostHandles \cup {0}]
    BY <2>2, <2>5
  <2> QED
    BY <1>0, <2>3, <2>6, <2>7
<1> QED
  BY <1>3, <1>4, <1>5, <1>6

-----------------------------------------------------------------------------
(* Stacks of tables: one entry of the top changed, a push and a pop.       *)
PutTop(s, h, v, new) == new = [s EXCEPT ![Len(s)][h] = v]

SetTop(s, v, new) == new = [s EXCEPT ![Len(s)] = v]

LEMMA TopPut ==
    ASSUME NEW S, NEW s \in Seq(Entries(S)), Len(s) # 0, NEW h \in Slots, NEW v \in S,
           NEW new, PutTop(s, h, v, new)
    PROVE  /\ new \in Seq(Entries(S)) /\ Len(new) = Len(s)
           /\ Last(new) = [Last(s) EXCEPT ![h] = v]
           /\ \A k \in 1 .. Len(s) - 1 : new[k] = s[k]
<1>1. PICK f : f = [s[Len(s)] EXCEPT ![h] = v]
  OBVIOUS
<1>2. new = [s EXCEPT ![Len(s)] = f]
  BY <1>1, Zenon DEF PutTop
<1>3. Len(s) \in 1 .. Len(s) /\ s[Len(s)] \in Entries(S)
  BY ElementOfSeq
<1>4. f \in Entries(S)
  BY <1>1, <1>3 DEF Entries
<1>5. new \in Seq(Entries(S)) /\ Len(new) = Len(s)
  BY <1>2, <1>3, <1>4, ExceptSeq
<1>6. new[Len(s)] = f /\ \A k \in 1 .. Len(s) - 1 : new[k] = s[k]
  BY <1>2, <1>3
<1> QED
  BY <1>1, <1>2, <1>5, <1>6 DEF Last

LEMMA TopSet ==
    ASSUME NEW S, NEW s \in Seq(S), Len(s) # 0, NEW v \in S, NEW new, SetTop(s, v, new)
    PROVE  /\ new \in Seq(S) /\ Len(new) = Len(s) /\ Last(new) = v
           /\ \A k \in 1 .. Len(s) - 1 : new[k] = s[k]
<1>1. Len(s) \in 1 .. Len(s)
  OBVIOUS
<1>2. new \in Seq(S) /\ Len(new) = Len(s)
  BY <1>1, ExceptSeq DEF SetTop
<1>3. new[Len(s)] = v /\ \A k \in 1 .. Len(s) - 1 : new[k] = s[k]
  BY <1>1 DEF SetTop
<1> QED
  BY <1>2, <1>3 DEF Last

LEMMA Pushed ==
    ASSUME NEW S, NEW s \in Seq(S), NEW v \in S
    PROVE  /\ Append(s, v) \in Seq(S) /\ Len(Append(s, v)) = Len(s) + 1
           /\ Last(Append(s, v)) = v /\ Append(s, v)[Len(s) + 1] = v
           /\ \A k \in 1 .. Len(s) : Append(s, v)[k] = s[k]
  BY AppendProperties DEF Last

(* EXEC sets what the parent has and gives the child its own.              *)
SetPush(s, v, w, new) == new = Append([s EXCEPT ![Len(s)] = v], w)

LEMMA TopPushed ==
    ASSUME NEW S, NEW s \in Seq(S), NEW v \in S, NEW w \in S, Len(s) # 0,
           NEW new, SetPush(s, v, w, new)
    PROVE  /\ new \in Seq(S) /\ Len(new) = Len(s) + 1 /\ Last(new) = w /\ new[Len(s)] = v
           /\ \A k \in 1 .. Len(s) - 1 : new[k] = s[k]
<1>1. PICK a : a = [s EXCEPT ![Len(s)] = v]
  OBVIOUS
<1>2. SetTop(s, v, a) /\ new = Append(a, w)
  BY <1>1 DEF SetTop, SetPush
<1>3. a \in Seq(S) /\ Len(a) = Len(s) /\ Last(a) = v /\ \A k \in 1 .. Len(s) - 1 : a[k] = s[k]
  BY <1>2, TopSet
<1>4. a[Len(s)] = v /\ Len(s) \in 1 .. Len(s) /\ \A k \in 1 .. Len(s) - 1 : k \in 1 .. Len(s)
  BY <1>3 DEF Last
<1>5. /\ new \in Seq(S) /\ Len(new) = Len(a) + 1 /\ Last(new) = w
      /\ \A k \in 1 .. Len(a) : new[k] = a[k]
  BY <1>2, <1>3, Pushed
<1> QED
  BY <1>3, <1>4, <1>5

LEMMA Popped ==
    ASSUME NEW S, NEW s \in Seq(S), Len(s) # 0
    PROVE  /\ Front(s) \in Seq(S) /\ Len(Front(s)) = Len(s) - 1
           /\ \A k \in 1 .. Len(s) - 1 : Front(s)[k] = s[k]
<1>1. PICK n : n = Len(s) - 1
  OBVIOUS
<1>2. n \in Nat /\ Front(s) = SubSeq(s, 1, n) /\ n <= Len(s)
  BY <1>1 DEF Front
<1>3. Len(Front(s)) = n /\ \A k \in 1 .. n : Front(s)[k] = s[k]
  BY <1>2, SubSeqProperties
<1>4. Front(s) \in Seq(S)
  BY <1>1, <1>2, SubSeqProperties
<1> QED
  BY <1>1, <1>3, <1>4

-----------------------------------------------------------------------------
(* The invariant for the running program between two of its calls.         *)
LEMMA CurrentOf ==
    ASSUME HandleInv
    PROVE  /\ Jft = jfts[Len(jfts)] /\ Jft \in [Slots -> Nat]
           /\ Last(meant) = meant[Len(meant)] /\ Last(meant) \in [Slots -> Meanings]
           /\ Last(redirects) \in SUBSET Undos
           /\ Last(redirects) = {} =>
                /\ Jft = table.known
                /\ \A h \in Slots : SlotOk(Len(saved) + 1, table, Last(meant), h)
<1>1. /\ Jft = jfts[Len(jfts)] /\ Jft \in [Slots -> Nat]
      /\ Last(meant) = meant[Len(meant)] /\ Last(meant) \in [Slots -> Meanings]
      /\ Last(redirects) \in SUBSET Undos
  <2>1. Len(saved) \in Nat
    BY DEF HandleInv, HandleTypes
  <2>2. Jft = jfts[Len(jfts)] /\ Jft \in [Slots -> Nat]
    BY <2>1, LastOf DEF HandleInv, HandleTypes, Jft, Entries
  <2>3. Last(meant) = meant[Len(meant)] /\ Last(meant) \in [Slots -> Meanings]
    BY <2>1, LastOf DEF HandleInv, HandleTypes, Entries
  <2>4. Last(redirects) \in SUBSET Undos
    BY <2>1, LastOf DEF HandleInv, HandleTypes
  <2> QED
    BY <2>2, <2>3, <2>4
<1>2. ASSUME Last(redirects) = {}
      PROVE  /\ Jft = table.known
             /\ \A h \in Slots : SlotOk(Len(saved) + 1, table, Last(meant), h)
  <2>1. PICK m \in [Slots -> Meanings] :
           /\ Meaning(Last(jfts), Last(meant), Last(redirects), table, m)
           /\ \A h \in Slots : SlotOk(Len(saved) + 1, table, m, h)
    BY DEF HandleInv, ServesAll, Serves
  <2>2. ~ \E u \in Undos : Last(redirects) = {u}
    BY <1>2
  <2> QED
    BY <2>1, <2>2 DEF Meaning, Jft
<1> QED
  BY <1>1, <1>2

(* One entry of the running program's table changes: y is 0 or a handle    *)
(* the host did not have, and what the entry held closes unless a parent   *)
(* has it.                                                                 *)
Vacated(h) ==
    IF table.fh[h] # 0 /\ ~ DosHandleIsHeldByParent(table.fh[h]) THEN {table.fh[h]} ELSE {}

TopHandle(h, y) ==
    /\ table'.fh = [table.fh EXCEPT ![h] = y]
    /\ \A g \in Slots : g # h =>
          table'.kind[g] = table.kind[g] /\ (g \in table'.std <=> g \in table.std)
    /\ DOMAIN host' = (DOMAIN host \ Vacated(h)) \cup ({y} \ {0})
    /\ \A x \in DOMAIN host \ Vacated(h) : host'[x] = host[x]

TopEntry(h, value, what) ==
    /\ PutTop(jfts, h, value, jfts') /\ PutTop(meant, h, what, meant')
    /\ table'.known = [table.known EXCEPT ![h] = value]

SftKept ==
    handleGuest # "duplicates" => \A v \in SftIndexes : sftHost[v] # 0 => sftHost'[v] = sftHost[v]

LEMMA TopHost ==
    ASSUME HandleInv, UNCHANGED <<saved, leftBehind>>,
           NEW h \in Slots, NEW y \in (HostHandles \ DOMAIN host) \cup {0},
           TopHandle(h, y)
    PROVE  HostInv'
<1> DEFINE gone == Vacated(h)
<1>0. /\ table'.fh = [table.fh EXCEPT ![h] = y]
      /\ DOMAIN host' = (DOMAIN host \ gone) \cup ({y} \ {0})
      /\ gone = IF table.fh[h] # 0 /\ ~ DosHandleIsHeldByParent(table.fh[h])
                THEN {table.fh[h]} ELSE {}
  BY DEF TopHandle, Vacated
<1> HIDE DEF gone
<1>1. table.fh \in [Slots -> Nat]
  BY DEF HandleInv, HandleTypes, Tables
<1>2. \A g \in Slots : table'.fh[g] = IF g = h THEN y ELSE table.fh[g]
  BY <1>0, <1>1
<1>3. Parents' = Parents /\ \A x : DosHandleIsHeldByParent(x)' <=> DosHandleIsHeldByParent(x)
  BY DEF Parents, DosHandleIsHeldByParent
<1>4. \A x : DosHandleIsHeldByParent(x) <=> \E k \in Parents, g \in Slots : saved[k].fh[g] = x
  <2>1. DOMAIN saved = Parents
    BY DEF HandleInv, HandleTypes, Parents
  <2> QED
    BY <2>1 DEF DosHandleIsHeldByParent
<1>5. 0 \notin HostHandles /\ DOMAIN host \subseteq HostHandles
  BY HandlesAssumption DEF HandleInv, HandleTypes
<1>6. HostInv
  BY DEF HandleInv
<1>7. \A g \in Slots : table'.fh[g] # 0 => table'.fh[g] \in DOMAIN host' \ leftBehind
  BY <1>0, <1>2, <1>5, <1>6 DEF HostInv
<1>8. \A k \in Parents, g \in Slots : saved[k].fh[g] # 0 => saved[k].fh[g] \in DOMAIN host' \ leftBehind
  BY <1>0, <1>4, <1>6 DEF HostInv
<1>9. leftBehind \subseteq DOMAIN host'
  BY <1>0, <1>6 DEF HostInv
<1>10. \A x \in DOMAIN host' :
          x \in leftBehind \/ DosHandleIsHeldByParent(x) \/ \E g \in Slots : table'.fh[g] = x
  <2> SUFFICES ASSUME NEW x \in DOMAIN host', x \notin leftBehind, ~ DosHandleIsHeldByParent(x)
               PROVE  \E g \in Slots : table'.fh[g] = x
    OBVIOUS
  <2>1. CASE x = y
    BY <1>0, <1>2, <2>1
  <2>2. CASE x \in DOMAIN host \ gone
    <3>1. PICK g \in Slots : table.fh[g] = x
      BY <1>6, <2>2 DEF HostInv
    <3>2. g # h
      BY <1>0, <1>5, <2>2, <3>1
    <3> QED
      BY <1>0, <1>2, <3>1, <3>2
  <2> QED
    BY <1>0, <2>1, <2>2
<1>11. \A g, i \in Slots :
          g # i /\ table'.fh[g] = table'.fh[i] /\ table'.fh[i] # 0 => DosHandleIsHeldByParent(table'.fh[i])
  BY <1>0, <1>2, <1>6 DEF HostInv
<1> QED
  BY <1>3, <1>6, <1>7, <1>8, <1>9, <1>10, <1>11 DEF HostInv, Parents

LEMMA TopServes ==
    ASSUME HandleInv, HandleTypes', Last(redirects) = {},
           UNCHANGED <<saved, redirects, handleGuest>>,
           NEW h \in Slots, NEW value \in Nat, NEW what \in Meanings,
           NEW y, TopHandle(h, y), TopEntry(h, value, what), SftKept,
           \A m \in [Slots -> Meanings] : m[h] = what => SlotOk(Len(saved) + 1, table, m, h)'
    PROVE  ServesAll'
<1> DEFINE gone == Vacated(h)
<1>a. /\ gone = IF table.fh[h] # 0 /\ ~ DosHandleIsHeldByParent(table.fh[h])
                THEN {table.fh[h]} ELSE {}
      /\ \A x \in DOMAIN host \ gone : x \in DOMAIN host' /\ host'[x] = host[x]
  BY DEF TopHandle, Vacated
<1>b. \A g \in Slots : g # h =>
         /\ table'.fh[g] = table.fh[g] /\ table'.kind[g] = table.kind[g]
         /\ g \in table'.std <=> g \in table.std
  BY DEF HandleInv, HandleTypes, Tables, TopHandle
<1>c. /\ PutTop(jfts, h, value, jfts') /\ PutTop(meant, h, what, meant')
      /\ table'.known = [table.known EXCEPT ![h] = value]
  BY DEF TopEntry
<1> HIDE DEF gone
<1>0. Len(saved) \in Nat /\ Len(jfts) = Len(saved) + 1 /\ Len(meant) = Len(saved) + 1
  BY DEF HandleInv, HandleTypes
<1>1. /\ Last(jfts') = [Jft EXCEPT ![h] = value]
      /\ \A k \in Parents : jfts'[k] = jfts[k]
  <2>0. PICK N : N = Nat
    OBVIOUS
  <2>1. jfts \in Seq(Entries(N)) /\ Len(jfts) # 0 /\ value \in N
    BY <1>0, <2>0 DEF HandleInv, HandleTypes
  <2>2. /\ Last(jfts') = [Last(jfts) EXCEPT ![h] = value]
        /\ \A k \in 1 .. Len(jfts) - 1 : jfts'[k] = jfts[k]
    BY <1>c, <2>1, TopPut
  <2> QED
    BY <1>0, <2>2 DEF Parents, Jft
<1>2. /\ Last(meant') = [Last(meant) EXCEPT ![h] = what]
      /\ \A k \in Parents : meant'[k] = meant[k]
  <2>1. meant \in Seq(Entries(Meanings)) /\ Len(meant) # 0
    BY <1>0 DEF HandleInv, HandleTypes
  <2>2. /\ Last(meant') = [Last(meant) EXCEPT ![h] = what]
        /\ \A k \in 1 .. Len(meant) - 1 : meant'[k] = meant[k]
    BY <1>c, <2>1, TopPut
  <2> QED
    BY <1>0, <2>2 DEF Parents
<1>3. Parents' = Parents
  BY DEF Parents
<1>4. ASSUME NEW k \in Parents PROVE Serves(k, jfts[k], meant[k], redirects[k], saved[k])'
  <2>1. PICK m \in [Slots -> Meanings] :
           Meaning(jfts[k], meant[k], redirects[k], saved[k], m) /\ \A g \in Slots : SlotOk(k, saved[k], m, g)
    BY DEF HandleInv, ServesAll, Serves
  <2>2. ASSUME NEW g \in Slots PROVE SlotOk(k, saved[k], m, g)'
    <3>1. saved[k].fh[g] # 0 => saved[k].fh[g] \in DOMAIN host
      BY DEF HandleInv, HostInv
    <3>2. DosHandleIsHeldByParent(saved[k].fh[g])
      <4>1. DOMAIN saved = Parents
        BY DEF HandleInv, HandleTypes, Parents
      <4> QED
        BY <4>1 DEF DosHandleIsHeldByParent
    <3>3. saved[k].fh[g] # 0 => saved[k].fh[g] \in DOMAIN host' /\ host'[saved[k].fh[g]] = host[saved[k].fh[g]]
      BY <1>a, <3>1, <3>2
    <3>4. PICK t : t = saved[k]
      OBVIOUS
    <3>5. SlotOk(k, t, m, g)'
      BY <2>1, <3>3, <3>4, KeepsSlot DEF SftKept
    <3> QED
      BY <3>4, <3>5
  <2>3. Meaning(jfts[k], meant[k], redirects[k], saved[k], m)'
    BY <1>1, <1>2, <2>1 DEF Meaning
  <2> QED
    BY <2>2, <2>3 DEF Serves
<1>5. Serves(Len(saved) + 1, Last(jfts), Last(meant), Last(redirects), table)'
  <2>0. /\ Jft = table.known /\ \A g \in Slots : SlotOk(Len(saved) + 1, table, Last(meant), g)
        /\ Last(meant) \in [Slots -> Meanings]
    BY CurrentOf
  <2>1. PICK m : m = Last(meant')
    OBVIOUS
  <2>2. m \in [Slots -> Meanings] /\ m[h] = what /\ \A g \in Slots : g # h => m[g] = Last(meant)[g]
    BY <1>2, <2>0, <2>1
  <2>3. Meaning(Last(jfts'), Last(meant'), Last(redirects'), table', m)
    BY <1>1, <1>c, <2>0, <2>1 DEF Meaning
  <2>4. SlotOk(Len(saved) + 1, table, m, h)'
    BY <2>2
  <2>5. ASSUME NEW g \in Slots, g # h PROVE SlotOk(Len(saved) + 1, table, m, g)'
    <3>0. table \in Tables /\ table' \in Tables
      BY DEF HandleInv, HandleTypes
    <3>1. PICK t : t = table'
      OBVIOUS
    <3>2. t.fh[g] = table.fh[g] /\ t.kind[g] = table.kind[g] /\ (g \in t.std <=> g \in table.std)
      BY <1>b, <2>5, <3>1
    <3>3. t.known[g] = table.known[g]
      BY <1>c, <2>5, <3>0, <3>1 DEF Tables
    <3>4. SlotOk(Len(saved) + 1, table, Last(meant), g)
      BY <2>0
    <3>5. Target(t, g) = Target(table, g)
      BY <3>2 DEF Target, DosHandleIsFile, DosHandleIsDevice
    <3>6. SlotOk(Len(saved) + 1, t, m, g)
      BY <2>2, <2>5, <3>2, <3>3, <3>4, <3>5 DEF SlotOk
    <3>7. t.fh[g] # 0 => t.fh[g] \in DOMAIN host' /\ host'[t.fh[g]] = host[t.fh[g]]
      <4>1. table.fh[g] # 0 => table.fh[g] \in DOMAIN host
        BY DEF HandleInv, HostInv
      <4>2. table.fh[g] = table.fh[h] /\ table.fh[h] # 0 => DosHandleIsHeldByParent(table.fh[h])
        BY <2>5 DEF HandleInv, HostInv
      <4> QED
        BY <1>a, <3>2, <4>1, <4>2
    <3>8. SlotOk(Len(saved) + 1, t, m, g)'
      BY <3>6, <3>7, KeepsSlot DEF SftKept
    <3> QED
      BY <3>1, <3>8
  <2> QED
    BY <2>2, <2>3, <2>4, <2>5 DEF Serves
<1> QED
  BY <1>3, <1>4, <1>5 DEF ServesAll

LEMMA TopStep ==
    ASSUME HandleInv, Last(redirects) = {},
           UNCHANGED <<saved, depth, leftBehind, redirects, handleGuest>>,
           NEW h \in Slots, NEW y \in (HostHandles \ DOMAIN host) \cup {0},
           NEW value \in Nat, NEW what \in Meanings,
           TopHandle(h, y), TopEntry(h, value, what), table' \in Tables,
           sftHost' \in [SftIndexes -> HostHandles \cup {0}], SftInv', SftKept,
           \A m \in [Slots -> Meanings] : m[h] = what => SlotOk(Len(saved) + 1, table, m, h)'
    PROVE  HandleInv'
<1>1. HandleTypes
  BY DEF HandleInv
<1>2. jfts' \in Seq(Entries(Nat)) /\ Len(jfts') = Len(jfts)
  <2>1. PICK N : N = Nat
    OBVIOUS
  <2>2. jfts \in Seq(Entries(N)) /\ Len(jfts) # 0 /\ value \in N
    BY <1>1, <2>1 DEF HandleTypes
  <2>3. PutTop(jfts, h, value, jfts')
    BY DEF TopEntry
  <2>4. jfts' \in Seq(Entries(N)) /\ Len(jfts') = Len(jfts)
    BY <2>2, <2>3, TopPut
  <2> QED
    BY <2>1, <2>4
<1>3. meant' \in Seq(Entries(Meanings)) /\ Len(meant') = Len(meant)
  <2>1. meant \in Seq(Entries(Meanings)) /\ Len(meant) # 0
    BY <1>1 DEF HandleTypes
  <2>2. PutTop(meant, h, what, meant')
    BY DEF TopEntry
  <2> QED
    BY <2>1, <2>2, TopPut
<1>4. DOMAIN host' \subseteq HostHandles
  BY <1>1 DEF HandleTypes, TopHandle
<1>5. HandleTypes'
  BY <1>1, <1>2, <1>3, <1>4 DEF HandleTypes
<1>6. HostInv'
  BY TopHost
<1>7. ServesAll'
  BY <1>5, TopServes
<1> QED
  BY <1>5, <1>6, <1>7 DEF HandleInv

-----------------------------------------------------------------------------
LEMMA SameStep ==
    ASSUME HandleInv, SameHandles, UNCHANGED handleGuest
    PROVE  HandleInv'
<1>1. HandleTypes'
  BY DEF HandleInv, SameHandles, HandleTypes
<1>2. HostInv'
  BY DEF HandleInv, SameHandles, HostInv, Parents, DosHandleIsHeldByParent
<1>3. SftInv'
  BY DEF HandleInv, SameHandles, SftInv
<1>4. ServesAll'
  <2>1. ASSUME NEW k, NEW t, NEW m, NEW h PROVE SlotOk(k, t, m, h)' <=> SlotOk(k, t, m, h)
    BY DEF SameHandles, SlotOk, Target, DosHandleIsFile, DosHandleIsDevice
  <2>2. ASSUME NEW k, NEW jft, NEW means, NEW undo, NEW t
        PROVE  Serves(k, jft, means, undo, t)' <=> Serves(k, jft, means, undo, t)
    BY <2>1 DEF Serves
  <2>3. Parents' = Parents
    BY DEF Parents, SameHandles
  <2> QED
    BY <2>2, <2>3 DEF HandleInv, SameHandles, ServesAll
<1> QED
  BY <1>1, <1>2, <1>3, <1>4 DEF HandleInv

(* What the table is once one entry is written.                            *)
LEMMA Written ==
    ASSUME NEW t \in Tables, NEW h \in Slots, NEW value \in Nat, NEW what, JftPut(t, h, value), Means(h, what),
           table.known = t.known
    PROVE  /\ TopEntry(h, value, what) /\ table' \in Tables
           /\ table'.fh = t.fh /\ table'.std = t.std /\ table'.kind = t.kind
           /\ table'.known[h] = value
<1>1. t.known \in [Slots -> Nat]
  BY DEF Tables
<1>2. PutTop(jfts, h, value, jfts') /\ PutTop(meant, h, what, meant')
  BY Zenon DEF JftPut, Means, PutTop
<1>3. table' = [t EXCEPT !.known[h] = value]
  BY DEF JftPut
<1>4. /\ table'.known = [t.known EXCEPT ![h] = value]
      /\ table'.fh = t.fh /\ table'.std = t.std /\ table'.kind = t.kind
  BY <1>3 DEF Tables
<1>5. table' \in Tables
  BY <1>1, <1>3 DEF Tables
<1> QED
  BY <1>1, <1>2, <1>4, <1>5 DEF TopEntry

LEMMA SftStep ==
    ASSUME HandleInv, IndexesSuffice, NEW t \in Tables, NEW h \in Slots,
           t.fh[h] # 0 => t.fh[h] \in HostHandles,
           sftHost' = SftFor(t, h).sft, UNCHANGED handleGuest
    PROVE  /\ sftHost' \in [SftIndexes -> HostHandles \cup {0}] /\ SftInv' /\ SftKept
           /\ SftFor(t, h).value \in Nat
           /\ handleGuest # "duplicates" /\ t.fh[h] # 0 =>
                SftFor(t, h).value \in SftIndexes /\ sftHost'[SftFor(t, h).value] = t.fh[h]
<1>1. HandleTypes /\ SftInv
  BY DEF HandleInv
<1> QED
  BY <1>1, SftGives DEF SftInv, SftKept

LEMMA OpenStep ==
    ASSUME HandleInv, IndexesSuffice, DosOpen
    PROVE  HandleInv'
<1>1. PICK file \in Files :
         LET slot == DosHandleAllocate(table)
             new  == Min(Unused)
             t    == [table EXCEPT !.fh[slot] = new]
         IN /\ HandleCall
            /\ Unused # {}
            /\ \/ slot = MaxFiles /\ SameHandles
               \/ /\ slot < MaxFiles
                  /\ host' = [x \in DOMAIN host \cup {new} |-> IF x = new THEN file ELSE host[x]]
                  /\ JftPut(t, slot, SftFor(t, slot).value)
                  /\ sftHost' = SftFor(t, slot).sft
                  /\ Means(slot, file)
                  /\ UNCHANGED <<saved, depth, leftBehind, redirects>>
  BY Zenon DEF DosOpen
<1>2. PICK h : h = DosHandleAllocate(table)
  OBVIOUS
<1>3. PICK new : new = Min(Unused)
  OBVIOUS
<1>4. PICK t : t = [table EXCEPT !.fh[h] = new]
  OBVIOUS
<1>5. /\ HandleCall
      /\ Unused # {}
      /\ \/ h = MaxFiles /\ SameHandles
         \/ /\ h < MaxFiles
            /\ host' = [x \in DOMAIN host \cup {new} |-> IF x = new THEN file ELSE host[x]]
            /\ JftPut(t, h, SftFor(t, h).value)
            /\ sftHost' = SftFor(t, h).sft
            /\ Means(h, file)
            /\ UNCHANGED <<saved, depth, leftBehind, redirects>>
  BY <1>1, <1>2, <1>3, <1>4
<1>6. CASE SameHandles
  BY <1>5, <1>6, SameStep DEF HandleCall
<1>7. CASE /\ h < MaxFiles
           /\ host' = [x \in DOMAIN host \cup {new} |-> IF x = new THEN file ELSE host[x]]
           /\ JftPut(t, h, SftFor(t, h).value)
           /\ sftHost' = SftFor(t, h).sft
           /\ Means(h, file)
           /\ UNCHANGED <<saved, depth, leftBehind, redirects>>
  <2>1. table \in Tables /\ MaxFiles \in Nat /\ DevSlots \in Nat /\ DevSlots <= MaxFiles
    BY HandlesAssumption DEF HandleInv, HandleTypes
  <2>2. new \in HostHandles /\ new \notin DOMAIN host /\ new \in Nat /\ new # 0
    <3>1. Unused \in SUBSET Nat /\ Unused # {}
      BY <1>5, HandlesAssumption DEF Unused
    <3>2. new \in Unused
      BY <1>3, <3>1, LeastIn
    <3> QED
      BY <3>2, HandlesAssumption DEF Unused
  <2>3. h \in Slots /\ table.fh[h] = 0 /\ h \notin table.std
    <3>1. PICK free : free = {g \in Slots : table.fh[g] = 0 /\ ~DosHandleIsDevice(table, g)} \cup {MaxFiles}
      OBVIOUS
    <3>2. free \in SUBSET Nat /\ free # {}
      BY <2>1, <3>1 DEF Slots
    <3>3. h = Min(free)
      BY <1>2, <3>1, Zenon DEF DosHandleAllocate
    <3>4. h \in free
      BY <3>2, <3>3, LeastIn
    <3>5. h \in Slots /\ table.fh[h] = 0 /\ ~DosHandleIsDevice(table, h)
      BY <1>7, <2>1, <3>1, <3>4
    <3> QED
      BY <2>1, <3>5 DEF DosHandleIsDevice, Tables
  <2>4. /\ t \in Tables /\ t.fh = [table.fh EXCEPT ![h] = new] /\ t.fh[h] = new
        /\ t.std = table.std /\ t.kind = table.kind /\ t.known = table.known
    BY <1>4, <2>1, <2>2, <2>3 DEF Tables
  <2>5. PICK value : value = SftFor(t, h).value
    OBVIOUS
  <2>6. /\ sftHost' \in [SftIndexes -> HostHandles \cup {0}] /\ SftInv' /\ SftKept /\ value \in Nat
        /\ handleGuest # "duplicates" => value \in SftIndexes /\ sftHost'[value] = new
    BY <1>5, <1>7, <2>2, <2>3, <2>4, <2>5, SftStep DEF HandleCall
  <2>7. /\ TopEntry(h, value, file) /\ table' \in Tables
        /\ table'.fh = t.fh /\ table'.std = t.std /\ table'.kind = t.kind
        /\ table'.known[h] = value
    BY <1>7, <2>3, <2>4, <2>5, <2>6, Written
  <2>8. TopHandle(h, new)
    <3>1. Vacated(h) = {}
      BY <2>3 DEF Vacated
    <3> QED
      BY <1>7, <2>2, <2>4, <2>7, <3>1 DEF TopHandle
  <2>9. ASSUME NEW m \in [Slots -> Meanings], m[h] = file
        PROVE  SlotOk(Len(saved) + 1, table, m, h)'
    <3>1. PICK u : u = table'
      OBVIOUS
    <3>2. /\ u.fh[h] = new /\ h \notin u.std /\ u.known[h] = value
      BY <2>3, <2>4, <2>7, <3>1
    <3>3. host'[new] = file
      BY <1>7
    <3>4. Target(u, h)' = file
      BY <2>2, <2>3, <3>2, <3>3 DEF Target, DosHandleIsFile
    <3>5. handleGuest' = handleGuest
      BY <1>5 DEF HandleCall
    <3>6. SlotOk(Len(saved) + 1, u, m, h)'
      BY <2>2, <2>6, <2>9, <3>2, <3>3, <3>4, <3>5 DEF SlotOk
    <3> QED
      BY <3>1, <3>6
  <2>10. Last(redirects) = {} /\ UNCHANGED <<saved, depth, leftBehind, redirects, handleGuest>>
    BY <1>5, <1>7 DEF HandleCall
  <2>11. file \in Meanings
    BY DEF Meanings
  <2> QED
    BY <2>2, <2>3, <2>6, <2>7, <2>8, <2>9, <2>10, <2>11, TopStep
<1> QED
  BY <1>5, <1>6, <1>7

LEMMA CloseStep ==
    ASSUME HandleInv, DosClose
    PROVE  HandleInv'
<1>1. PICK h \in {g \in Slots : MayClose(g)} :
         LET t == IF DosHandleIsFile(table, h) THEN [table EXCEPT !.fh[h] = 0]
                  ELSE [table EXCEPT !.std = @ \ {h}]
         IN /\ HandleCall
            /\ host' = Released(table, h)
            /\ JftPut(t, h, Closed)
            /\ Means(h, Closed)
            /\ UNCHANGED <<saved, depth, sftHost, leftBehind, redirects>>
  BY Zenon DEF DosClose
<1>2. PICK t : t = IF DosHandleIsFile(table, h) THEN [table EXCEPT !.fh[h] = 0]
                   ELSE [table EXCEPT !.std = @ \ {h}]
  OBVIOUS
<1>3. /\ HandleCall
      /\ host' = Released(table, h)
      /\ JftPut(t, h, Closed)
      /\ Means(h, Closed)
      /\ UNCHANGED <<saved, depth, sftHost, leftBehind, redirects>>
  BY <1>1, <1>2
<1>4. table \in Tables /\ h \in Slots /\ MayClose(h)
  BY DEF HandleInv, HandleTypes
<1>5. /\ t \in Tables /\ t.fh = [table.fh EXCEPT ![h] = 0] /\ t.fh[h] = 0
      /\ t.kind = table.kind /\ t.known = table.known
      /\ t.std = IF table.fh[h] = 0 THEN table.std \ {h} ELSE table.std
  <2>1. CASE table.fh[h] # 0
    BY <1>2, <1>4, <2>1 DEF DosHandleIsFile, Tables
  <2>2. CASE table.fh[h] = 0
    <3>1. t = [table EXCEPT !.std = @ \ {h}]
      BY <1>2, <2>2 DEF DosHandleIsFile
    <3>2. table.fh = [table.fh EXCEPT ![h] = 0]
      BY <1>4, <2>2 DEF Tables
    <3> QED
      BY <1>4, <2>2, <3>1, <3>2 DEF Tables
  <2> QED
    BY <2>1, <2>2
<1>6. TopEntry(h, Closed, Closed) /\ table' \in Tables
      /\ table'.fh = t.fh /\ table'.std = t.std /\ table'.kind = t.kind
      /\ table'.known[h] = Closed
  <2>1. Closed \in Nat
    BY DEF Closed
  <2> QED
    BY <1>3, <1>4, <1>5, <2>1, Written
<1>7. TopHandle(h, 0)
  <2>1. host' = IF Vacated(h) = {} THEN host ELSE Without(host, Vacated(h))
    BY <1>3, <1>4 DEF Released, Vacated, DosHandleIsFile
  <2>2. /\ DOMAIN host' = DOMAIN host \ Vacated(h)
        /\ \A x \in DOMAIN host \ Vacated(h) : host'[x] = host[x]
    BY <2>1 DEF Without
  <2> QED
    BY <1>5, <1>6, <2>2 DEF TopHandle
<1>8. ASSUME NEW m \in [Slots -> Meanings], m[h] = Closed
      PROVE  SlotOk(Len(saved) + 1, table, m, h)'
  <2>1. PICK u : u = table'
    OBVIOUS
  <2>2. u.fh[h] = 0 /\ u.known[h] = Closed /\ (h \in u.std => table.fh[h] # 0 /\ h \in table.std)
    BY <1>5, <1>6, <2>1
  <2>3. Closed \notin SftIndexes /\ Closed \notin Files
    BY HandlesAssumption DEF Closed, Prn
  <2>4. /\ handleGuest' = handleGuest /\ saved' = saved /\ Last(redirects) = {}
        /\ Len(jfts) = Len(saved) + 1
    BY <1>3 DEF HandleCall, HandleInv, HandleTypes
  <2>5. SlotOk(Len(saved) + 1, table, Last(meant), h)
    BY <1>4, <2>4, CurrentOf
  <2>6. (handleGuest # "redirectsAndCloses" /\ h < StdHandles) \/ handleGuest = "duplicates" => h \notin u.std
    <3>1. CASE handleGuest = "duplicates"
      BY <2>2, <2>5, <3>1 DEF SlotOk
    <3>2. CASE handleGuest = "redirects" /\ h < StdHandles
      <4>1. Len(saved) + 1 = 1
        BY <1>4, <2>4, <3>2, HandlesAssumption DEF MayClose, Slots
      <4> QED
        BY <2>2, <2>5, <4>1 DEF SlotOk
    <3>3. handleGuest \in {"duplicates", "redirects", "redirectsAndCloses"}
      BY HandlesAssumption DEF HandleInv, HandleTypes
    <3> QED
      BY <3>1, <3>2, <3>3
  <2>7. h \notin u.std => Target(u, h)' = Closed
    BY <2>2 DEF Target, DosHandleIsFile, DosHandleIsDevice
  <2>8. SlotOk(Len(saved) + 1, u, m, h)'
    BY <1>8, <2>2, <2>3, <2>4, <2>6, <2>7 DEF SlotOk
  <2> QED
    BY <2>1, <2>8
<1>9. Last(redirects) = {} /\ UNCHANGED <<saved, depth, leftBehind, redirects, handleGuest>>
  BY <1>3 DEF HandleCall
<1>10. /\ sftHost' \in [SftIndexes -> HostHandles \cup {0}] /\ SftInv' /\ SftKept
       /\ Closed \in Meanings /\ Closed \in Nat
  BY <1>3, <1>9 DEF HandleInv, HandleTypes, SftInv, SftKept, Meanings, Closed
<1> QED
  BY <1>4, <1>6, <1>7, <1>8, <1>9, <1>10, TopStep

(* Only programs that duplicate duplicate: their JFTs say what they have,  *)
(* and nothing is looked up in them.                                       *)
LEMMA DuplicateStep ==
    ASSUME HandleInv, IndexesSuffice, HandleCall, NEW source \in Own, NEW h \in Slots, Unused # {},
           DosHandleIsDevice(table, source) \/ DosHandleIsFile(table, source),
           Duplicate(source, h)
    PROVE  HandleInv'
<1>1. PICK isDevice \in BOOLEAN : isDevice = DosHandleIsDevice(table, source)
  BY DEF DosHandleIsDevice
<1>2. PICK new : new = Min(Unused)
  OBVIOUS
<1>3. PICK closed : closed = Released(table, h)
  OBVIOUS
<1>4. PICK t : t = IF isDevice
                   THEN [table EXCEPT !.fh[h] = 0, !.std = @ \cup {h}, !.kind[h] = table.kind[source]]
                   ELSE [table EXCEPT !.fh[h] = new, !.std = @ \ {h}]
  OBVIOUS
<1>5. /\ isDevice => h < DevSlots
      /\ host' = IF isDevice THEN closed
                 ELSE [x \in DOMAIN closed \cup {new} |-> IF x = new THEN host[table.fh[source]] ELSE closed[x]]
      /\ JftPut(t, h, SftFor(t, source).value)
      /\ sftHost' = SftFor(t, source).sft
      /\ Means(h, Last(meant)[source])
      /\ UNCHANGED <<saved, depth, leftBehind, redirects>>
  BY <1>1, <1>2, <1>3, <1>4 DEF Duplicate
<1>6. /\ table \in Tables /\ source \in Slots /\ handleGuest = "duplicates"
      /\ isDevice => table.fh[source] = 0
      /\ ~isDevice => table.fh[source] # 0 /\ table.fh[source] \in DOMAIN host
      /\ DOMAIN host \subseteq HostHandles
  <2>1. table \in Tables /\ DOMAIN host \subseteq HostHandles /\ HostInv
    BY DEF HandleInv, HandleTypes
  <2>2. source \in Slots /\ handleGuest = "duplicates"
    BY DEF Own
  <2>3. isDevice => table.fh[source] = 0
    BY <1>1 DEF DosHandleIsDevice
  <2>4. ~isDevice => table.fh[source] # 0
    BY <1>1 DEF DosHandleIsFile
  <2> QED
    BY <2>1, <2>2, <2>3, <2>4 DEF HostInv
<1>7. new \in HostHandles /\ new \notin DOMAIN host /\ new \in Nat /\ new # 0 /\ HostHandles \subseteq Nat
  <2>1. Unused \in SUBSET Nat
    BY HandlesAssumption DEF Unused
  <2>2. new \in Unused
    BY <1>2, <2>1, LeastIn
  <2> QED
    BY <2>2, HandlesAssumption DEF Unused
<1>8. PICK y \in Nat : y = IF isDevice THEN 0 ELSE new
  BY <1>7
<1>9. /\ t \in Tables /\ t.fh = [table.fh EXCEPT ![h] = y] /\ t.fh[h] = y /\ t.known = table.known
      /\ \A g \in Slots : g # h => t.kind[g] = table.kind[g] /\ (g \in t.std <=> g \in table.std)
      /\ isDevice => h \in t.std /\ t.kind[h] = table.kind[source]
      /\ ~isDevice => h \notin t.std
  <2>1. CASE isDevice
    <3>1. t = [table EXCEPT !.fh[h] = 0, !.std = @ \cup {h}, !.kind[h] = table.kind[source]]
      BY <1>4, <2>1
    <3>2. h \in 0 .. DevSlots - 1
      BY <1>5, <2>1, HandlesAssumption DEF Slots
    <3>3. table.kind[source] \in {Con, Prn}
      BY <1>6 DEF Tables
    <3> QED
      BY <1>6, <1>8, <2>1, <3>1, <3>2, <3>3 DEF Tables
  <2>2. CASE ~isDevice
    <3>1. t = [table EXCEPT !.fh[h] = new, !.std = @ \ {h}]
      BY <1>4, <2>2
    <3> QED
      BY <1>6, <1>7, <1>8, <2>2, <3>1 DEF Tables
  <2> QED
    BY <2>1, <2>2
<1>10. PICK value : value = SftFor(t, source).value
  OBVIOUS
<1>11. /\ sftHost' \in [SftIndexes -> HostHandles \cup {0}] /\ SftInv' /\ SftKept /\ value \in Nat
       /\ handleGuest' = handleGuest
  <2>1. t.fh[source] # 0 => t.fh[source] \in HostHandles
    BY <1>6, <1>7, <1>8, <1>9 DEF Tables
  <2>2. handleGuest' = handleGuest
    BY DEF HandleCall
  <2> QED
    BY <1>5, <1>6, <1>9, <1>10, <2>1, <2>2, SftStep
<1>12. PICK what : what = Last(meant)[source]
  OBVIOUS
<1>13. what \in Meanings /\ Target(table, source) = what
  <2>1. Last(redirects) = {}
    BY DEF HandleCall
  <2>2. Last(meant) \in [Slots -> Meanings] /\ SlotOk(Len(saved) + 1, table, Last(meant), source)
    BY <1>6, <2>1, CurrentOf
  <2> QED
    BY <1>6, <1>12, <2>2 DEF SlotOk
<1>14. /\ TopEntry(h, value, what) /\ table' \in Tables
       /\ table'.fh = t.fh /\ table'.std = t.std /\ table'.kind = t.kind
       /\ table'.known[h] = value
  BY <1>5, <1>9, <1>10, <1>11, <1>12, Written
<1>15. /\ DOMAIN closed = DOMAIN host \ Vacated(h)
       /\ \A x \in DOMAIN host \ Vacated(h) : closed[x] = host[x]
  <2>1. closed = IF Vacated(h) = {} THEN host ELSE Without(host, Vacated(h))
    BY <1>3 DEF Released, Vacated, DosHandleIsFile
  <2> QED
    BY <2>1 DEF Without
<1>16. TopHandle(h, y)
  <2>1. DOMAIN host' = (DOMAIN host \ Vacated(h)) \cup ({y} \ {0})
    BY <1>5, <1>7, <1>8, <1>15
  <2>2. \A x \in DOMAIN host \ Vacated(h) : host'[x] = host[x]
    BY <1>5, <1>7, <1>15
  <2> QED
    BY <1>9, <1>14, <2>1, <2>2 DEF TopHandle
<1>17. ASSUME NEW m \in [Slots -> Meanings], m[h] = what
       PROVE  SlotOk(Len(saved) + 1, table, m, h)'
  <2>1. PICK u : u = table'
    OBVIOUS
  <2>2. /\ u.fh[h] = y
        /\ isDevice => h \in u.std /\ u.kind[h] = table.kind[source] /\ h < DevSlots
        /\ ~isDevice => h \notin u.std /\ host'[new] = host[table.fh[source]]
    BY <1>5, <1>9, <1>14, <2>1
  <2>3. Target(u, h)' = what
    BY <1>1, <1>6, <1>7, <1>8, <1>13, <2>2 DEF Target, DosHandleIsFile, DosHandleIsDevice
  <2>4. isDevice => what \notin Files
    <3>1. Files \cap {Con, Prn, Closed} = {} /\ table.kind[source] \in {Con, Prn}
      BY <1>6, HandlesAssumption DEF Tables
    <3> QED
      BY <1>1, <1>6, <1>13, <3>1 DEF Target, DosHandleIsFile
  <2>5. ~isDevice => host'[new] = what
    BY <1>6, <1>13, <2>2 DEF Target, DosHandleIsFile
  <2>6. SlotOk(Len(saved) + 1, u, m, h)'
    BY <1>6, <1>7, <1>8, <1>11, <1>17, <2>2, <2>3, <2>4, <2>5 DEF SlotOk
  <2> QED
    BY <2>1, <2>6
<1>18. Last(redirects) = {} /\ UNCHANGED <<saved, depth, leftBehind, redirects, handleGuest>>
  BY <1>5 DEF HandleCall
<1>19. y \in (HostHandles \ DOMAIN host) \cup {0}
  BY <1>7, <1>8
<1> QED
  BY <1>11, <1>13, <1>14, <1>16, <1>17, <1>18, <1>19, TopStep

LEMMA DupStep ==
    ASSUME HandleInv, IndexesSuffice, DosDup \/ DosDup2
    PROVE  HandleInv'
<1>1. CASE DosDup
  <2>1. PICK source \in Own :
           /\ HandleCall /\ Unused # {}
           /\ DosHandleIsDevice(table, source) \/ DosHandleIsFile(table, source)
           /\ Duplicate(source, DosHandleAllocate(table))
    BY <1>1, Zenon DEF DosDup
  <2>2. PICK h : h = DosHandleAllocate(table)
    OBVIOUS
  <2>3. Duplicate(source, h)
    BY <2>1, <2>2
  <2>4. h \in Slots
    <3>1. PICK free : free = {g \in Slots : table.fh[g] = 0 /\ ~DosHandleIsDevice(table, g)} \cup {MaxFiles}
      OBVIOUS
    <3>2. free \in SUBSET Nat /\ free # {}
      BY <3>1, HandlesAssumption DEF Slots
    <3>3. h = Min(free)
      BY <2>2, <3>1, Zenon DEF DosHandleAllocate
    <3>4. h \in free /\ h < MaxFiles
      BY <2>3, <3>2, <3>3, LeastIn DEF Duplicate
    <3> QED
      BY <3>1, <3>4, HandlesAssumption
  <2> QED
    BY <2>1, <2>3, <2>4, DuplicateStep
<1>2. CASE DosDup2
  <2>1. PICK source \in Own, h \in Slots :
           /\ HandleCall /\ Unused # {}
           /\ DosHandleIsDevice(table, source) \/ DosHandleIsFile(table, source)
           /\ Duplicate(source, h)
    BY <1>2, Zenon DEF DosDup2
  <2> QED
    BY <2>1, DuplicateStep
<1> QED
  BY <1>1, <1>2

-----------------------------------------------------------------------------
LEMMA PushLists ==
    ASSUME HandleTypes, NEW jft \in [Slots -> Nat], NEW means \in [Slots -> Meanings], NEW undo \in SUBSET Undos,
           ExecWith(jft, means, undo)
    PROVE  /\ jfts' \in Seq(Entries(Nat)) /\ Len(jfts') = Len(jfts) + 1
           /\ Last(jfts') = jft /\ jfts'[Len(jfts)] = jft
           /\ \A k \in 1 .. Len(jfts) - 1 : jfts'[k] = jfts[k]
           /\ meant' \in Seq(Entries(Meanings)) /\ Len(meant') = Len(meant) + 1
           /\ Last(meant') = means /\ meant'[Len(meant)] = means
           /\ \A k \in 1 .. Len(meant) - 1 : meant'[k] = meant[k]
           /\ redirects' \in Seq(SUBSET Undos) /\ Len(redirects') = Len(redirects) + 1
           /\ Last(redirects') = {} /\ redirects'[Len(redirects)] = undo
           /\ \A k \in 1 .. Len(redirects) - 1 : redirects'[k] = redirects[k]
<1>1. /\ jfts' \in Seq(Entries(Nat)) /\ Len(jfts') = Len(jfts) + 1 /\ Last(jfts') = jft /\ jfts'[Len(jfts)] = jft
      /\ \A k \in 1 .. Len(jfts) - 1 : jfts'[k] = jfts[k]
  <2>1. PICK S : S = Entries(Nat)
    OBVIOUS
  <2>2. SetPush(jfts, jft, jft, jfts')
    BY DEF SetPush, ExecWith
  <2>3. jfts \in Seq(S) /\ jft \in S /\ jft \in S /\ Len(jfts) # 0
    BY <2>1 DEF HandleTypes, Entries
  <2>4. /\ jfts' \in Seq(S) /\ Len(jfts') = Len(jfts) + 1 /\ Last(jfts') = jft /\ jfts'[Len(jfts)] = jft
        /\ \A k \in 1 .. Len(jfts) - 1 : jfts'[k] = jfts[k]
    BY <2>2, <2>3, TopPushed
  <2> QED
    BY <2>1, <2>4
<1>2. /\ meant' \in Seq(Entries(Meanings)) /\ Len(meant') = Len(meant) + 1
      /\ Last(meant') = means /\ meant'[Len(meant)] = means
      /\ \A k \in 1 .. Len(meant) - 1 : meant'[k] = meant[k]
  <2>1. PICK S : S = Entries(Meanings)
    OBVIOUS
  <2>2. SetPush(meant, means, means, meant')
    BY DEF SetPush, ExecWith
  <2>3. meant \in Seq(S) /\ means \in S /\ means \in S /\ Len(meant) # 0
    BY <2>1 DEF HandleTypes, Entries
  <2>4. /\ meant' \in Seq(S) /\ Len(meant') = Len(meant) + 1 /\ Last(meant') = means /\ meant'[Len(meant)] = means
        /\ \A k \in 1 .. Len(meant) - 1 : meant'[k] = meant[k]
    BY <2>2, <2>3, TopPushed
  <2> QED
    BY <2>1, <2>4
<1>3. /\ redirects' \in Seq(SUBSET Undos) /\ Len(redirects') = Len(redirects) + 1
      /\ Last(redirects') = {} /\ redirects'[Len(redirects)] = undo
      /\ \A k \in 1 .. Len(redirects) - 1 : redirects'[k] = redirects[k]
  <2>1. PICK S : S = SUBSET Undos
    OBVIOUS
  <2>2. SetPush(redirects, undo, {}, redirects')
    BY DEF SetPush, ExecWith
  <2>3. redirects \in Seq(S) /\ undo \in S /\ {} \in S /\ Len(redirects) # 0
    BY <2>1 DEF HandleTypes
  <2>4. /\ redirects' \in Seq(S) /\ Len(redirects') = Len(redirects) + 1
        /\ Last(redirects') = {} /\ redirects'[Len(redirects)] = undo
        /\ \A k \in 1 .. Len(redirects) - 1 : redirects'[k] = redirects[k]
    BY <2>2, <2>3, TopPushed
  <2> QED
    BY <2>1, <2>4
<1> QED
  BY <1>1, <1>2, <1>3

(* EXEC: the child's table holds what the parent's holds.                  *)
LEMMA PushStep ==
    ASSUME HandleInv, NestsWithin, UNCHANGED handleGuest,
           NEW jft \in [Slots -> Nat], NEW means \in [Slots -> Meanings], NEW undo \in SUBSET Undos,
           ExecWith(jft, means, undo), Meaning(jft, means, undo, table, Last(meant)), Last(redirects) = {},
           NEW child \in Tables, child = Applied(table, jft), child.known = jft,
           \A h \in Slots : child.fh[h] # 0 => \E g \in Slots : child.fh[h] = table.fh[g],
           \A h \in Slots : SlotOk(Len(saved) + 2, child, means, h)
    PROVE  HandleInv'
<1>1. HandleTypes /\ HostInv
  BY DEF HandleInv
<1>2. PICK n \in Nat : /\ n = Len(saved) /\ n = depth /\ n < MaxPrograms
                       /\ Len(jfts) = n + 1 /\ Len(meant) = n + 1 /\ Len(redirects) = n + 1
  BY <1>1 DEF HandleTypes
<1>3. /\ n + 1 < MaxPrograms /\ saved' = Append(saved, table) /\ depth' = n + 1 /\ table' = child
      /\ UNCHANGED <<sftHost, host, leftBehind>>
  <2>1. n < HandleStackDepth /\ n + 1 < MaxPrograms
    BY <1>2, HandlesAssumption DEF NestsWithin, ExecWith
  <2> QED
    BY <1>2, <2>1 DEF ExecWith
<1>4. /\ saved' \in Seq(Tables) /\ Len(saved') = n + 1 /\ saved'[n + 1] = table
      /\ \A k \in 1 .. n : saved'[k] = saved[k]
  <2>1. saved \in Seq(Tables) /\ table \in Tables
    BY <1>1 DEF HandleTypes
  <2> QED
    <3>1. PICK q : q = Append(saved, table)
      OBVIOUS
    <3>2. /\ q \in Seq(Tables) /\ Len(q) = Len(saved) + 1 /\ q[Len(saved) + 1] = table
          /\ \A k \in 1 .. Len(saved) : q[k] = saved[k]
      BY <2>1, <3>1, Pushed
    <3> QED
      BY <1>2, <1>3, <3>1, <3>2
<1>l. /\ jfts' \in Seq(Entries(Nat)) /\ Len(jfts') = Len(jfts) + 1
      /\ Last(jfts') = jft /\ jfts'[Len(jfts)] = jft
      /\ \A k \in 1 .. Len(jfts) - 1 : jfts'[k] = jfts[k]
      /\ meant' \in Seq(Entries(Meanings)) /\ Len(meant') = Len(meant) + 1
      /\ Last(meant') = means /\ meant'[Len(meant)] = means
      /\ \A k \in 1 .. Len(meant) - 1 : meant'[k] = meant[k]
      /\ redirects' \in Seq(SUBSET Undos) /\ Len(redirects') = Len(redirects) + 1
      /\ Last(redirects') = {} /\ redirects'[Len(redirects)] = undo
      /\ \A k \in 1 .. Len(redirects) - 1 : redirects'[k] = redirects[k]
  BY <1>1, PushLists
<1>5. /\ jfts' \in Seq(Entries(Nat)) /\ Len(jfts') = n + 2 /\ Last(jfts') = jft /\ jfts'[n + 1] = jft
      /\ \A k \in 1 .. n : jfts'[k] = jfts[k]
  BY <1>2, <1>l
<1>6. /\ meant' \in Seq(Entries(Meanings)) /\ Len(meant') = n + 2 /\ Last(meant') = means /\ meant'[n + 1] = means
      /\ \A k \in 1 .. n : meant'[k] = meant[k]
  BY <1>2, <1>l
<1>7. /\ redirects' \in Seq(SUBSET Undos) /\ Len(redirects') = n + 2 /\ Last(redirects') = {}
      /\ redirects'[n + 1] = undo
      /\ \A k \in 1 .. n : redirects'[k] = redirects[k]
  BY <1>2, <1>l
<1>8. HandleTypes'
  BY <1>1, <1>2, <1>3, <1>4, <1>5, <1>6, <1>7 DEF HandleTypes
<1>9. /\ Parents = 1 .. n /\ Parents' = 1 .. n + 1
      /\ \A x : DosHandleIsHeldByParent(x) <=> \E k \in 1 .. n, g \in Slots : saved[k].fh[g] = x
      /\ \A x : DosHandleIsHeldByParent(x)' <=> \E k \in 1 .. n + 1, g \in Slots : saved'[k].fh[g] = x
  <2>1. DOMAIN saved = 1 .. n /\ DOMAIN saved' = 1 .. n + 1
    BY <1>1, <1>2, <1>4 DEF HandleTypes
  <2>2. Parents = 1 .. n /\ Parents' = 1 .. n + 1
    BY <1>2, <1>4 DEF Parents
  <2> QED
    BY <2>1, <2>2 DEF DosHandleIsHeldByParent
<1>10. HostInv'
  <2>1. \A k \in 1 .. n + 1 : k = n + 1 \/ k \in 1 .. n
    OBVIOUS
  <2>2. n + 1 \in 1 .. n + 1 /\ \A k \in 1 .. n : k \in 1 .. n + 1
    OBVIOUS
  <2>3. \A x : DosHandleIsHeldByParent(x) \/ (\E g \in Slots : table.fh[g] = x) => DosHandleIsHeldByParent(x)'
    BY <1>4, <1>9, <2>2
  <2>4. \A h \in Slots : \A x : x = table'.fh[h] /\ x # 0 =>
           x \in DOMAIN host' \ leftBehind' /\ DosHandleIsHeldByParent(x)'
    BY <1>1, <1>3, <2>3 DEF HostInv
  <2>5. \A k \in 1 .. n + 1, h \in Slots : saved'[k].fh[h] # 0 => saved'[k].fh[h] \in DOMAIN host' \ leftBehind'
    BY <1>1, <1>3, <1>4, <1>9, <2>1 DEF HostInv
  <2>6. leftBehind' \subseteq DOMAIN host'
    BY <1>1, <1>3 DEF HostInv
  <2>7. \A x \in DOMAIN host' : x \in leftBehind' \/ DosHandleIsHeldByParent(x)'
    BY <1>1, <1>3, <2>3 DEF HostInv
  <2>8. ASSUME NEW k \in 1 .. n + 1, NEW g \in Slots, NEW h \in Slots, g # h,
               saved'[k].fh[g] = saved'[k].fh[h], saved'[k].fh[h] # 0
        PROVE  \E j \in 1 .. k - 1, i \in Slots : saved'[j].fh[i] = saved'[k].fh[h]
    <3>1. CASE k = n + 1
      <4>1. DosHandleIsHeldByParent(table.fh[h])
        BY <1>1, <1>4, <2>8, <3>1 DEF HostInv
      <4> QED
        BY <1>4, <1>9, <3>1, <4>1
    <3>2. CASE k \in 1 .. n
      <4>1. \E j \in 1 .. k - 1, i \in Slots : saved[j].fh[i] = saved[k].fh[h]
        BY <1>1, <1>4, <1>9, <2>8, <3>2 DEF HostInv
      <4> QED
        BY <1>4, <3>2, <4>1
    <3> QED
      BY <2>1, <3>1, <3>2
  <2> QED
    BY <1>9, <2>4, <2>5, <2>6, <2>7, <2>8 DEF HostInv
<1>11. ServesAll'
  <2>1. \A k, t, m, h : SlotOk(k, t, m, h)' <=> SlotOk(k, t, m, h)
    BY <1>3 DEF SlotOk, Target, DosHandleIsFile, DosHandleIsDevice
  <2>2. \A k, a, b, c, t : Serves(k, a, b, c, t)' <=> Serves(k, a, b, c, t)
    BY <2>1 DEF Serves
  <2>3. ASSUME NEW k \in 1 .. n PROVE Serves(k, jfts'[k], meant'[k], redirects'[k], saved'[k])
    BY <1>4, <1>5, <1>6, <1>7, <1>9, <2>3 DEF HandleInv, ServesAll
  <2>4. Serves(n + 1, jft, means, undo, table)
    <3>1. Last(meant) \in [Slots -> Meanings] /\ \A h \in Slots : SlotOk(n + 1, table, Last(meant), h)
      BY <1>2, CurrentOf
    <3> QED
      BY <3>1 DEF Serves
  <2>5. Serves(n + 2, jft, means, {}, child)
    BY <1>2 DEF Serves, Meaning
  <2>6. \A k \in 1 .. n + 1 : Serves(k, jfts'[k], meant'[k], redirects'[k], saved'[k])
    <3>1. \A k \in 1 .. n + 1 : k = n + 1 \/ k \in 1 .. n
      OBVIOUS
    <3> QED
      BY <1>4, <1>5, <1>6, <1>7, <2>3, <2>4, <3>1
  <2>7. Serves(Len(saved') + 1, Last(jfts'), Last(meant'), Last(redirects'), table')
    BY <1>3, <1>4, <1>5, <1>6, <1>7, <2>5
  <2> QED
    BY <1>9, <2>2, <2>6, <2>7 DEF ServesAll
<1>12. SftInv'
  BY <1>3 DEF HandleInv, SftInv
<1> QED
  BY <1>8, <1>10, <1>11, <1>12 DEF HandleInv

AppliedFh(t, jft) ==
    [h \in Slots |->
        IF ~Edited(t, jft, h) THEN t.fh[h]
        ELSE IF jft[h] = Closed \/ jft[h] <= Prn THEN 0
        ELSE IF sftHost[jft[h]] # 0 THEN sftHost[jft[h]] ELSE t.fh[h]]

AppliedStd(t, jft) ==
    {h \in Slots :
        IF Edited(t, jft, h) /\ jft[h] \in {Closed, Con, Prn} THEN jft[h] # Closed ELSE h \in t.std}

AppliedKind(t, jft) ==
    [h \in Slots |-> IF Edited(t, jft, h) /\ jft[h] <= Prn THEN jft[h] ELSE t.kind[h]]

LEMMA AppliedIs ==
    ASSUME NEW t \in Tables, NEW jft, NEW c, c = Applied(t, jft)
    PROVE  /\ c.fh = AppliedFh(t, jft) /\ c.std = AppliedStd(t, jft) /\ c.kind = AppliedKind(t, jft)
           /\ c.known = jft
           /\ c \in [fh : {c.fh}, std : {c.std}, kind : {c.kind}, known : {c.known}]
<1>1. c = [t EXCEPT !.fh = AppliedFh(t, jft), !.std = AppliedStd(t, jft), !.kind = AppliedKind(t, jft),
                    !.known = jft]
  BY Zenon DEF Applied, AppliedFh, AppliedStd, AppliedKind
<1> QED
  BY <1>1 DEF Tables

LEMMA ExecStep ==
    ASSUME HandleInv, NestsWithin, Exec
    PROVE  HandleInv'
<1>1. table \in Tables /\ Last(redirects) = {} /\ UNCHANGED handleGuest
  BY DEF HandleInv, HandleTypes, Exec, HandleCall
<1>2. /\ Jft = table.known /\ Last(meant) \in [Slots -> Meanings]
      /\ \A h \in Slots : SlotOk(Len(saved) + 1, table, Last(meant), h)
  BY <1>1, CurrentOf
<1>3. table.known \in [Slots -> Nat] /\ table.fh \in [Slots -> Nat] /\ table.kind \in [Slots -> {Con, Prn}]
      /\ table.std \subseteq Slots
  <2>1. table.std \subseteq 0 .. DevSlots - 1 /\ 0 .. DevSlots - 1 \subseteq Slots
    BY <1>1, HandlesAssumption DEF Tables, Slots
  <2> QED
    BY <1>1, <2>1 DEF Tables
<1>4. Applied(table, table.known) = table
  <2>1. \A h \in Slots : ~Edited(table, table.known, h)
    BY DEF Edited
  <2>2. PICK c : c = Applied(table, table.known)
    OBVIOUS
  <2>3. c.fh = table.fh /\ c.std = table.std /\ c.kind = table.kind /\ c.known = table.known
    <3>1. PICK jft : jft = table.known
      OBVIOUS
    <3>2. /\ c.fh = AppliedFh(table, jft) /\ c.std = AppliedStd(table, jft)
          /\ c.kind = AppliedKind(table, jft) /\ c.known = jft
      BY <1>1, <2>2, <3>1, AppliedIs
    <3>3. \A h \in Slots : ~Edited(table, jft, h)
      BY <2>1, <3>1
    <3> QED
      BY <1>3, <3>1, <3>2, <3>3 DEF AppliedFh, AppliedStd, AppliedKind
  <2>4. c \in [fh : {c.fh}, std : {c.std}, kind : {c.kind}, known : {c.known}]
    BY <1>1, <2>2, AppliedIs
  <2> QED
    BY <1>1, <2>2, <2>3, <2>4 DEF Tables
<1>5. ExecWith(table.known, Last(meant), {})
  BY <1>2 DEF Exec
<1>6. Meaning(table.known, Last(meant), {}, table, Last(meant))
  BY DEF Meaning
<1>7. ASSUME NEW h \in Slots PROVE SlotOk(Len(saved) + 2, table, Last(meant), h)
  <2>1. SlotOk(Len(saved) + 1, table, Last(meant), h)
    BY <1>2
  <2>2. Len(saved) + 2 # 1
    BY DEF HandleInv, HandleTypes
  <2> QED
    BY <2>1, <2>2 DEF SlotOk
<1>8. \A h \in Slots : table.fh[h] # 0 => \E g \in Slots : table.fh[h] = table.fh[g]
  OBVIOUS
<1> QED
  BY <1>1, <1>2, <1>3, <1>4, <1>5, <1>6, <1>7, <1>8, PushStep

LEMMA RedirectedStep ==
    ASSUME HandleInv, NestsWithin, ExecRedirected
    PROVE  HandleInv'
<1>1. PICK to \in 0 .. StdHandles - 1, from \in StdHandles .. MaxFiles - 1 :
         /\ HandleCall
         /\ handleGuest # "duplicates"
         /\ Last(meant)[from] \in Files
         /\ ExecWith(Moved(Jft, to, from), Moved(Last(meant), to, from),
                     {[to |-> to, from |-> from, entry |-> Jft[to], was |-> Last(meant)[to]]})
  BY Zenon DEF ExecRedirected
<1>2. table \in Tables /\ Last(redirects) = {} /\ UNCHANGED handleGuest
  BY <1>1 DEF HandleInv, HandleTypes, HandleCall
<1>3. /\ to \in Slots /\ from \in Slots /\ to # from /\ to < StdHandles /\ ~ (from < StdHandles)
      /\ Slots \subseteq Int /\ StdHandles \in Int
  BY HandlesAssumption DEF Slots
<1>4. PICK m \in [Slots -> Meanings] : m = Last(meant)
  BY CurrentOf
<1>5. PICK known \in [Slots -> Nat] : known = table.known /\ known = Jft
  BY <1>2, CurrentOf DEF Tables
<1>6. \A h \in Slots : SlotOk(Len(saved) + 1, table, m, h)
  BY <1>2, <1>4, CurrentOf
<1>7. /\ m[from] \in Files /\ known[from] \in SftIndexes /\ table.fh[from] # 0
      /\ host[table.fh[from]] = m[from] /\ sftHost[known[from]] = table.fh[from]
  BY <1>1, <1>3, <1>4, <1>5, <1>6 DEF SlotOk
<1>8. PICK jft : jft = Moved(known, to, from)
  OBVIOUS
<1>9. PICK means : means = Moved(m, to, from)
  OBVIOUS
<1>10. Closed \in Nat /\ Closed \in Meanings /\ Closed \notin SftIndexes /\ Closed \notin Files
  BY HandlesAssumption DEF Closed, Prn, Meanings
<1>11. /\ jft \in [Slots -> Nat] /\ jft[to] = known[from] /\ jft[from] = Closed
       /\ \A h \in Slots : h # to /\ h # from => jft[h] = known[h]
  BY <1>3, <1>5, <1>8, <1>10 DEF Moved
<1>12. /\ means \in [Slots -> Meanings] /\ means[to] = m[from] /\ means[from] = Closed
       /\ \A h \in Slots : h # to /\ h # from => means[h] = m[h]
  BY <1>3, <1>4, <1>9, <1>10 DEF Moved
<1>13. PICK u \in Undos : u = [to |-> to, from |-> from, entry |-> known[to], was |-> m[to]]
  BY <1>3, <1>4, <1>5 DEF Undos
<1>14. Meaning(jft, means, {u}, table, m)
  <2>1. u.to = to /\ u.from = from /\ u.entry = known[to] /\ u.was = m[to]
    BY <1>13
  <2>2. [jft EXCEPT ![u.from] = jft[u.to], ![u.to] = u.entry] = known
    BY <1>3, <1>5, <1>11, <2>1
  <2>3. [means EXCEPT ![u.from] = means[u.to], ![u.to] = u.was] = m
    BY <1>3, <1>4, <1>12, <2>1
  <2> QED
    BY <1>5, <2>2, <2>3 DEF Meaning
<1>15. ExecWith(jft, means, {u})
  BY <1>1, <1>4, <1>5, <1>8, <1>9, <1>13
<1>16. PICK child : child = Applied(table, jft)
  OBVIOUS
<1>17. /\ \A h \in Slots : Edited(table, jft, h) => h = to
       /\ ~Edited(table, jft, to) => known[to] = known[from]
  BY <1>3, <1>5, <1>11 DEF Edited
<1>18. /\ jft[to] # Closed /\ ~ (jft[to] <= Prn) /\ jft[to] \notin {Closed, Con, Prn}
       /\ sftHost[jft[to]] = table.fh[from] /\ sftHost[jft[to]] # 0
  <2>1. jft[to] \in Prn + 1 .. Closed - 1
    BY <1>7, <1>11, HandlesAssumption
  <2> QED
    BY <1>7, <1>11, <2>1 DEF Prn, Con, Closed
<1>19. child.fh = [table.fh EXCEPT ![to] = table.fh[from]]
  <2>1. table.fh \in [Slots -> Nat]
    BY <1>2 DEF Tables
  <2>2. child.fh = AppliedFh(table, jft)
    BY <1>2, <1>16, AppliedIs
  <2>3. ~Edited(table, jft, to) => table.fh[to] = table.fh[from]
    <3>1. ~Edited(table, jft, to) => known[to] \in SftIndexes /\ sftHost[known[to]] = table.fh[from]
      BY <1>7, <1>17
    <3>2. known[to] \in SftIndexes => sftHost[known[to]] = table.fh[to]
      BY <1>1, <1>3, <1>5, <1>6 DEF SlotOk
    <3> QED
      BY <3>1, <3>2
  <2> QED
    BY <1>3, <1>17, <1>18, <2>1, <2>2, <2>3 DEF AppliedFh
<1>20. child.std = table.std /\ child.kind = table.kind
  <2>1. table.std \subseteq Slots /\ table.kind \in [Slots -> {Con, Prn}]
    <3>1. table.std \subseteq 0 .. DevSlots - 1 /\ 0 .. DevSlots - 1 \subseteq Slots
      BY <1>2, HandlesAssumption DEF Tables, Slots
    <3> QED
      BY <1>2, <3>1 DEF Tables
  <2>2. child.std = AppliedStd(table, jft)
    BY <1>2, <1>16, AppliedIs
  <2>3. child.kind = AppliedKind(table, jft)
    BY <1>2, <1>16, AppliedIs
  <2>4. child.std = {h \in Slots : h \in table.std}
    BY <1>17, <1>18, <2>2 DEF AppliedStd
  <2>5. child.kind = [h \in Slots |-> table.kind[h]]
    BY <1>17, <1>18, <2>3 DEF AppliedKind
  <2> QED
    BY <2>1, <2>4, <2>5
<1>21. child.known = jft /\ child \in Tables
  <2>1. /\ child.known = jft
        /\ child \in [fh : {child.fh}, std : {child.std}, kind : {child.kind}, known : {child.known}]
    BY <1>2, <1>16, AppliedIs, Zenon
  <2>2. child.fh \in [Slots -> Nat]
    BY <1>2, <1>3, <1>19 DEF Tables
  <2> QED
    BY <1>2, <1>11, <1>20, <2>1, <2>2 DEF Tables
<1>22. \A h \in Slots : child.fh[h] # 0 => \E g \in Slots : child.fh[h] = table.fh[g]
  BY <1>2, <1>3, <1>19 DEF Tables
<1>23. ASSUME NEW h \in Slots PROVE SlotOk(Len(saved) + 2, child, means, h)
  <2>1. Len(saved) + 2 # 1
    BY DEF HandleInv, HandleTypes
  <2>2. SlotOk(Len(saved) + 1, table, m, h)
    BY <1>6
  <2>3. table.fh \in [Slots -> Nat]
    BY <1>2 DEF Tables
  <2>4. CASE h = to
    <3>1. /\ child.fh[h] = table.fh[from] /\ child.known[h] = known[from] /\ means[h] = m[from]
      BY <1>3, <1>11, <1>12, <1>19, <1>21, <2>3, <2>4
    <3>2. Target(child, h) = m[from]
      BY <1>7, <3>1 DEF Target, DosHandleIsFile
    <3> QED
      BY <1>1, <1>7, <2>1, <3>1, <3>2 DEF SlotOk
  <2>5. CASE h = from
    <3>1. /\ child.known[h] = Closed /\ means[h] = Closed
      BY <1>11, <1>12, <1>21, <2>5
    <3> QED
      BY <1>1, <1>3, <1>10, <2>1, <2>5, <3>1 DEF SlotOk
  <2>6. CASE h # to /\ h # from
    <3>1. /\ child.fh[h] = table.fh[h] /\ child.known[h] = table.known[h] /\ means[h] = m[h]
          /\ child.std = table.std /\ child.kind = table.kind
      BY <1>5, <1>11, <1>12, <1>19, <1>20, <1>21, <2>3, <2>6
    <3>2. Target(child, h) = Target(table, h)
      BY <3>1 DEF Target, DosHandleIsFile, DosHandleIsDevice
    <3> QED
      BY <1>1, <2>1, <2>2, <3>1, <3>2 DEF SlotOk
  <2> QED
    BY <2>4, <2>5, <2>6
<1>24. {u} \in SUBSET Undos
  OBVIOUS
<1> QED
  BY <1>2, <1>4, <1>11, <1>12, <1>14, <1>15, <1>16, <1>21, <1>22, <1>23, <1>24, PushStep

(* The shell takes its redirection back: its JFT is again what DOS knows.  *)
LEMMA UndoStep ==
    ASSUME HandleInv, UndoRedirection
    PROVE  HandleInv'
<1>1. PICK u \in Last(redirects) :
         /\ jfts' = [jfts EXCEPT ![Len(jfts)][u.from] = Jft[u.to], ![Len(jfts)][u.to] = u.entry]
         /\ meant' = [meant EXCEPT ![Len(meant)][u.from] = Last(meant)[u.to], ![Len(meant)][u.to] = u.was]
         /\ redirects' = [redirects EXCEPT ![Len(redirects)] = {}]
         /\ UNCHANGED <<handleGuest, table, saved, depth, sftHost, host, leftBehind, handleCalls>>
  BY Zenon DEF UndoRedirection
<1>2. HandleTypes /\ HostInv /\ SftInv
  BY DEF HandleInv
<1>3. PICK n \in Nat : n = Len(saved) /\ Len(jfts) = n + 1 /\ Len(meant) = n + 1 /\ Len(redirects) = n + 1
  BY <1>2 DEF HandleTypes
<1>4. PICK m \in [Slots -> Meanings] :
         /\ Meaning(Last(jfts), Last(meant), Last(redirects), table, m)
         /\ \A h \in Slots : SlotOk(n + 1, table, m, h)
  BY <1>3 DEF HandleInv, ServesAll, Serves
<1>5. PICK jft : jft = Jft
  OBVIOUS
<1>6. PICK means : means = Last(meant)
  OBVIOUS
<1>7. /\ u \in Undos /\ table.known = [jft EXCEPT ![u.from] = jft[u.to], ![u.to] = u.entry]
      /\ m = [means EXCEPT ![u.from] = means[u.to], ![u.to] = u.was]
  BY <1>1, <1>4, <1>5, <1>6 DEF Meaning, Jft
<1>8. SetTop(jfts, table.known, jfts')
  BY <1>1, <1>5, <1>7, Zenon DEF SetTop, Jft, Last
<1>9. SetTop(meant, m, meant')
  BY <1>1, <1>6, <1>7, Zenon DEF SetTop, Last
<1>10. SetTop(redirects, {}, redirects')
  BY <1>1 DEF SetTop
<1>11. /\ jfts' \in Seq(Entries(Nat)) /\ Len(jfts') = Len(jfts) /\ Last(jfts') = table.known
       /\ \A k \in 1 .. Len(jfts) - 1 : jfts'[k] = jfts[k]
  <2>1. PICK S : S = Entries(Nat)
    OBVIOUS
  <2>2. jfts \in Seq(S) /\ table.known \in S /\ Len(jfts) # 0
    BY <1>2, <1>3, <2>1 DEF HandleTypes, Entries, Tables
  <2>3. /\ jfts' \in Seq(S) /\ Len(jfts') = Len(jfts) /\ Last(jfts') = table.known
        /\ \A k \in 1 .. Len(jfts) - 1 : jfts'[k] = jfts[k]
    BY <1>8, <2>2, TopSet
  <2> QED
    BY <2>1, <2>3
<1>12. /\ meant' \in Seq(Entries(Meanings)) /\ Len(meant') = Len(meant) /\ Last(meant') = m
       /\ \A k \in 1 .. Len(meant) - 1 : meant'[k] = meant[k]
  <2>1. PICK S : S = Entries(Meanings)
    OBVIOUS
  <2>2. meant \in Seq(S) /\ m \in S /\ Len(meant) # 0
    BY <1>2, <1>3, <2>1 DEF HandleTypes, Entries
  <2>3. /\ meant' \in Seq(S) /\ Len(meant') = Len(meant) /\ Last(meant') = m
        /\ \A k \in 1 .. Len(meant) - 1 : meant'[k] = meant[k]
    BY <1>9, <2>2, TopSet
  <2> QED
    BY <2>1, <2>3
<1>13. /\ redirects' \in Seq(SUBSET Undos) /\ Len(redirects') = Len(redirects) /\ Last(redirects') = {}
       /\ \A k \in 1 .. Len(redirects) - 1 : redirects'[k] = redirects[k]
  <2>1. PICK S : S = SUBSET Undos
    OBVIOUS
  <2>2. redirects \in Seq(S) /\ {} \in S /\ Len(redirects) # 0
    BY <1>2, <1>3, <2>1 DEF HandleTypes
  <2>3. /\ redirects' \in Seq(S) /\ Len(redirects') = Len(redirects) /\ Last(redirects') = {}
        /\ \A k \in 1 .. Len(redirects) - 1 : redirects'[k] = redirects[k]
    BY <1>10, <2>2, TopSet
  <2> QED
    BY <2>1, <2>3
<1>14. HandleTypes'
  BY <1>1, <1>2, <1>11, <1>12, <1>13 DEF HandleTypes
<1>15. HostInv' /\ SftInv'
  BY <1>1, <1>2 DEF HostInv, SftInv, Parents, DosHandleIsHeldByParent
<1>16. ServesAll'
  <2>1. \A k, t, a, h : SlotOk(k, t, a, h)' <=> SlotOk(k, t, a, h)
    BY <1>1 DEF SlotOk, Target, DosHandleIsFile, DosHandleIsDevice
  <2>2. \A k, a, b, c, t : Serves(k, a, b, c, t)' <=> Serves(k, a, b, c, t)
    BY <2>1 DEF Serves
  <2>3. Parents = 1 .. n /\ Parents' = 1 .. n
    BY <1>1, <1>3 DEF Parents
  <2>4. ASSUME NEW k \in 1 .. n PROVE Serves(k, jfts'[k], meant'[k], redirects'[k], saved'[k])
    <3>1. jfts'[k] = jfts[k] /\ meant'[k] = meant[k] /\ redirects'[k] = redirects[k] /\ saved'[k] = saved[k]
      BY <1>1, <1>3, <1>11, <1>12, <1>13
    <3> QED
      BY <2>3, <3>1 DEF HandleInv, ServesAll
  <2>5. Serves(n + 1, table.known, m, {}, table)
    BY <1>4 DEF Serves, Meaning
  <2> QED
    BY <1>1, <1>3, <1>11, <1>12, <1>13, <2>2, <2>3, <2>4, <2>5 DEF ServesAll
<1> QED
  BY <1>14, <1>15, <1>16 DEF HandleInv

-----------------------------------------------------------------------------
(* A program ends: its parent's table comes back, and what only the ending *)
(* program held is closed or left behind.                                  *)
LEMMA PopStep ==
    ASSUME HandleInv, NestsWithin, NEW isTsr \in BOOLEAN, DosTerminate(isTsr)
    PROVE  HandleInv'
<1>1. HandleTypes /\ HostInv /\ SftInv
  BY DEF HandleInv
<1>2. PICK n \in Nat : /\ n = Len(saved) - 1 /\ Len(saved) = n + 1 /\ depth = n + 1 /\ n + 1 < MaxPrograms
                       /\ Len(jfts) = n + 2 /\ Len(meant) = n + 2 /\ Len(redirects) = n + 2
  <2>1. Len(saved) \in Nat /\ Len(saved) # 0
    BY <1>1 DEF HandleTypes, DosTerminate
  <2>2. Len(saved) - 1 \in Nat
    BY <2>1
  <2> QED
    BY <1>1, <2>1, <2>2 DEF HandleTypes
<1>3. PICK gone : gone = LeftOpen
  OBVIOUS
<1>4. /\ saved' = Front(saved) /\ table' = Last(saved) /\ depth' = n
      /\ host' = IF isTsr THEN host ELSE Without(host, gone)
      /\ leftBehind' = IF isTsr THEN leftBehind \cup gone ELSE leftBehind
      /\ jfts' = Front(jfts) /\ meant' = Front(meant) /\ redirects' = Front(redirects)
      /\ UNCHANGED <<sftHost, handleGuest>>
  <2>1. ~ (depth > HandleStackDepth) /\ depth - 1 = n
    BY <1>2, HandlesAssumption DEF NestsWithin
  <2> QED
    BY <1>3, <2>1 DEF DosTerminate, HandleCall
<1>5. /\ saved' \in Seq(Tables) /\ Len(saved') = n /\ table' = saved[n + 1] /\ table' \in Tables
      /\ \A k \in 1 .. n : saved'[k] = saved[k]
  <2>1. saved \in Seq(Tables) /\ Len(saved) # 0
    BY <1>1, <1>2 DEF HandleTypes
  <2>2. /\ Front(saved) \in Seq(Tables) /\ Len(Front(saved)) = Len(saved) - 1
        /\ \A k \in 1 .. Len(saved) - 1 : Front(saved)[k] = saved[k]
    BY <2>1, Popped
  <2>3. Last(saved) = saved[Len(saved)] /\ Last(saved) \in Tables
    BY <2>1, LastOf
  <2> QED
    BY <1>2, <1>4, <2>2, <2>3
<1>6. /\ jfts' \in Seq(Entries(Nat)) /\ Len(jfts') = n + 1 /\ \A k \in 1 .. n + 1 : jfts'[k] = jfts[k]
  <2>1. PICK S : S = Entries(Nat)
    OBVIOUS
  <2>2. jfts \in Seq(S) /\ Len(jfts) # 0
    BY <1>1, <1>2, <2>1 DEF HandleTypes
  <2>3. /\ Front(jfts) \in Seq(S) /\ Len(Front(jfts)) = Len(jfts) - 1
        /\ \A k \in 1 .. Len(jfts) - 1 : Front(jfts)[k] = jfts[k]
    BY <2>2, Popped
  <2> QED
    BY <1>2, <1>4, <2>1, <2>3
<1>7. /\ meant' \in Seq(Entries(Meanings)) /\ Len(meant') = n + 1 /\ \A k \in 1 .. n + 1 : meant'[k] = meant[k]
  <2>1. PICK S : S = Entries(Meanings)
    OBVIOUS
  <2>2. meant \in Seq(S) /\ Len(meant) # 0
    BY <1>1, <1>2, <2>1 DEF HandleTypes
  <2>3. /\ Front(meant) \in Seq(S) /\ Len(Front(meant)) = Len(meant) - 1
        /\ \A k \in 1 .. Len(meant) - 1 : Front(meant)[k] = meant[k]
    BY <2>2, Popped
  <2> QED
    BY <1>2, <1>4, <2>1, <2>3
<1>8. /\ redirects' \in Seq(SUBSET Undos) /\ Len(redirects') = n + 1
      /\ \A k \in 1 .. n + 1 : redirects'[k] = redirects[k]
  <2>1. PICK S : S = SUBSET Undos
    OBVIOUS
  <2>2. redirects \in Seq(S) /\ Len(redirects) # 0
    BY <1>1, <1>2, <2>1 DEF HandleTypes
  <2>3. /\ Front(redirects) \in Seq(S) /\ Len(Front(redirects)) = Len(redirects) - 1
        /\ \A k \in 1 .. Len(redirects) - 1 : Front(redirects)[k] = redirects[k]
    BY <2>2, Popped
  <2> QED
    BY <1>2, <1>4, <2>1, <2>3
<1>9. /\ \A x \in gone : ~DosHandleIsHeldByParent(x)
      /\ \A h \in Slots : table.fh[h] # 0 => table.fh[h] \in gone \/ DosHandleIsHeldByParent(table.fh[h])
      /\ gone \subseteq DOMAIN host \ leftBehind
  BY <1>1, <1>3 DEF LeftOpen, HostInv
<1>10. /\ DOMAIN host' = IF isTsr THEN DOMAIN host ELSE DOMAIN host \ gone
       /\ \A x \in DOMAIN host \ gone : x \in DOMAIN host' /\ host'[x] = host[x]
  BY <1>4 DEF Without
<1>11. HandleTypes'
  <2>1. n < MaxPrograms
    BY <1>2, HandlesAssumption
  <2>2. DOMAIN host' \subseteq HostHandles
    BY <1>1, <1>10 DEF HandleTypes
  <2> QED
    BY <1>1, <1>4, <1>5, <1>6, <1>7, <1>8, <2>1, <2>2 DEF HandleTypes
<1>12. /\ Parents = 1 .. n + 1 /\ Parents' = 1 .. n
       /\ \A x : DosHandleIsHeldByParent(x) <=> \E k \in 1 .. n + 1, g \in Slots : saved[k].fh[g] = x
       /\ \A x : DosHandleIsHeldByParent(x)' <=> \E k \in 1 .. n, g \in Slots : saved'[k].fh[g] = x
  <2>1. DOMAIN saved = 1 .. n + 1 /\ DOMAIN saved' = 1 .. n
    BY <1>1, <1>2, <1>5 DEF HandleTypes
  <2>2. Parents = 1 .. n + 1 /\ Parents' = 1 .. n
    BY <1>2, <1>5 DEF Parents
  <2> QED
    BY <2>1, <2>2 DEF DosHandleIsHeldByParent
<1>13. /\ n + 1 \in 1 .. n + 1 /\ \A k \in 1 .. n : k \in 1 .. n + 1
       /\ \A k \in 1 .. n + 1 : k = n + 1 \/ k \in 1 .. n
  OBVIOUS
<1>14. HostInv'
  <2>1. \A x : DosHandleIsHeldByParent(x) => DosHandleIsHeldByParent(x)' \/ \E h \in Slots : table'.fh[h] = x
    BY <1>5, <1>12, <1>13
  <2>2. \A k \in 1 .. n + 1, h \in Slots :
           saved[k].fh[h] # 0 => saved[k].fh[h] \in DOMAIN host' \ leftBehind'
    <3> SUFFICES ASSUME NEW k \in 1 .. n + 1, NEW h \in Slots, NEW x, x = saved[k].fh[h], x # 0
                 PROVE  x \in DOMAIN host' \ leftBehind'
      OBVIOUS
    <3>1. x \in DOMAIN host \ leftBehind /\ DosHandleIsHeldByParent(x)
      BY <1>1, <1>12 DEF HostInv
    <3> QED
      BY <1>4, <1>9, <1>10, <3>1
  <2>3. leftBehind' \subseteq DOMAIN host'
    BY <1>1, <1>4, <1>9, <1>10 DEF HostInv
  <2>4. ASSUME NEW x \in DOMAIN host'
        PROVE  x \in leftBehind' \/ DosHandleIsHeldByParent(x)' \/ \E h \in Slots : table'.fh[h] = x
    <3>1. x \in DOMAIN host /\ (x \in gone => isTsr)
      BY <1>10
    <3>2. x # 0
      BY <1>1, <3>1, HandlesAssumption DEF HandleTypes
    <3>3. x \in leftBehind \/ DosHandleIsHeldByParent(x) \/ x \in gone
      BY <1>1, <1>9, <3>1, <3>2 DEF HostInv
    <3> QED
      BY <1>4, <2>1, <3>1, <3>3
  <2>5. ASSUME NEW g \in Slots, NEW h \in Slots, NEW x, g # h, table'.fh[g] = x, table'.fh[h] = x, x # 0
        PROVE  DosHandleIsHeldByParent(x)'
    <3>1. \E j \in 1 .. (n + 1) - 1, i \in Slots : saved[j].fh[i] = x
      BY <1>1, <1>5, <1>12, <1>13, <2>5 DEF HostInv
    <3> QED
      BY <1>5, <1>12, <3>1
  <2>6. \A k \in 1 .. n, g, h \in Slots :
           g # h /\ saved'[k].fh[g] = saved'[k].fh[h] /\ saved'[k].fh[h] # 0 =>
              \E j \in 1 .. k - 1, i \in Slots : saved'[j].fh[i] = saved'[k].fh[h]
    <3> SUFFICES ASSUME NEW k \in 1 .. n, NEW g \in Slots, NEW h \in Slots, g # h,
                        saved'[k].fh[g] = saved'[k].fh[h], saved'[k].fh[h] # 0
                 PROVE  \E j \in 1 .. k - 1, i \in Slots : saved'[j].fh[i] = saved'[k].fh[h]
      OBVIOUS
    <3>0. saved'[k] = saved[k]
      BY <1>5
    <3>1. \E j \in 1 .. k - 1, i \in Slots : saved[j].fh[i] = saved[k].fh[h]
      BY <1>1, <1>12, <1>13, <3>0 DEF HostInv
    <3> QED
      BY <1>5, <3>0, <3>1
  <2>7. \A h \in Slots : table'.fh[h] # 0 => table'.fh[h] \in DOMAIN host' \ leftBehind'
    BY <1>5, <1>13, <2>2
  <2>8. \A k \in 1 .. n, h \in Slots : saved'[k].fh[h] # 0 => saved'[k].fh[h] \in DOMAIN host' \ leftBehind'
    BY <1>5, <1>13, <2>2
  <2> QED
    BY <1>12, <2>3, <2>4, <2>5, <2>6, <2>7, <2>8 DEF HostInv
<1>15. SftInv'
  BY <1>1, <1>4 DEF SftInv
<1>16. ASSUME NEW k \in Parents, NEW jft, jft = jfts[k], NEW means, means = meant[k],
              NEW undo, undo = redirects[k], NEW t, t = saved[k]
       PROVE  Serves(k, jft, means, undo, t)'
  <2>1. PICK m \in [Slots -> Meanings] : Meaning(jft, means, undo, t, m) /\ \A h \in Slots : SlotOk(k, t, m, h)
    BY <1>16 DEF HandleInv, ServesAll, Serves
  <2>2. ASSUME NEW h \in Slots PROVE SlotOk(k, t, m, h)'
    <3>1. t.fh[h] # 0 => t.fh[h] \in DOMAIN host \ gone
      <4>1. t.fh[h] # 0 => t.fh[h] \in DOMAIN host
        BY <1>1, <1>16 DEF HostInv
      <4>2. DosHandleIsHeldByParent(t.fh[h])
        BY <1>12, <1>16
      <4> QED
        BY <1>9, <4>1, <4>2
    <3>2. t.fh[h] # 0 => t.fh[h] \in DOMAIN host' /\ host'[t.fh[h]] = host[t.fh[h]]
      BY <1>10, <3>1
    <3>3. /\ handleGuest' = handleGuest
          /\ handleGuest # "duplicates" => \A v \in SftIndexes : sftHost[v] # 0 => sftHost'[v] = sftHost[v]
      BY <1>4
    <3>4. SlotOk(k, t, m, h)
      BY <2>1
    <3> QED
      BY <3>2, <3>3, <3>4, KeepsSlot
  <2> QED
    BY <2>1, <2>2 DEF Serves, Meaning
<1>17. ServesAll'
  <2>1. \A k \in 1 .. n + 1 : \A jft, means, undo, t :
           /\ jft = jfts[k] /\ means = meant[k] /\ undo = redirects[k] /\ t = saved[k]
           => Serves(k, jft, means, undo, t)'
    BY <1>12, <1>16
  <2>2. ASSUME NEW k \in 1 .. n PROVE Serves(k, jfts[k], meant[k], redirects[k], saved[k])'
    <3>1. /\ k \in 1 .. n + 1 /\ jfts'[k] = jfts[k] /\ meant'[k] = meant[k] /\ redirects'[k] = redirects[k]
          /\ saved'[k] = saved[k]
      BY <1>5, <1>6, <1>7, <1>8, <1>13
    <3> QED
      BY <2>1, <3>1
  <2>3. Serves(Len(saved) + 1, Last(jfts), Last(meant), Last(redirects), table)'
    <3>1. /\ n + 1 \in 1 .. n + 1 /\ Len(saved') + 1 = n + 1
          /\ Last(jfts') = jfts[n + 1] /\ Last(meant') = meant[n + 1] /\ Last(redirects') = redirects[n + 1]
          /\ table' = saved[n + 1]
      BY <1>5, <1>6, <1>7, <1>8, <1>13 DEF Last
    <3> QED
      BY <2>1, <3>1
  <2> QED
    BY <1>12, <2>2, <2>3 DEF ServesAll
<1> QED
  BY <1>11, <1>14, <1>15, <1>17 DEF HandleInv

-----------------------------------------------------------------------------
LEMMA HandleStart == HandlesInit => HandleInv
<1> SUFFICES ASSUME HandlesInit PROVE HandleInv
  OBVIOUS
<1>1. PICK std : std = [h \in Slots |-> IF h < StdHandles THEN DosDeviceDefault(h) ELSE Closed]
  OBVIOUS
<1>2. /\ handleGuest \in HandleGuests
      /\ table = [fh |-> [h \in Slots |-> 0], std |-> 0 .. StdHandles - 1,
                  kind |-> [h \in Slots |-> DosDeviceDefault(h)], known |-> std]
      /\ saved = <<>>
      /\ depth = 0
      /\ sftHost = [v \in SftIndexes |-> 0]
      /\ jfts = <<std>>
      /\ host = [x \in {} |-> x]
      /\ leftBehind = {}
      /\ redirects = <<{}>>
      /\ meant = <<std>>
  BY <1>1 DEF HandlesInit
<1>3. /\ std \in [Slots -> Nat] /\ std \in [Slots -> Meanings]
      /\ \A h \in Slots : std[h] = IF h < StdHandles THEN DosDeviceDefault(h) ELSE Closed
      /\ \A h \in Slots : DosDeviceDefault(h) \in {Con, Prn}
      /\ \A h \in Slots : std[h] \notin SftIndexes /\ std[h] \notin Files
  <2>1. \A h \in Slots : DosDeviceDefault(h) \in {Con, Prn}
    BY DEF DosDeviceDefault
  <2>2. \A h \in Slots : std[h] \in {Con, Prn, Closed}
    BY <1>1, <2>1
  <2>3. {Con, Prn, Closed} \subseteq Nat /\ {Con, Prn, Closed} \cap (Prn + 1 .. Closed - 1) = {}
    BY DEF Con, Prn, Closed
  <2> QED
    BY <1>1, <2>1, <2>2, <2>3, HandlesAssumption DEF Meanings
<1>4. /\ \A h \in Slots : table.fh[h] = 0 /\ table.kind[h] = DosDeviceDefault(h)
      /\ table.std = 0 .. StdHandles - 1 /\ table.known = std
  BY <1>2
<1>5. table \in Tables
  <2>1. 0 .. StdHandles - 1 \subseteq 0 .. DevSlots - 1
    BY HandlesAssumption
  <2> QED
    BY <1>2, <1>3, <2>1 DEF Tables
<1>6. HandleTypes
  BY <1>2, <1>3, <1>5, HandlesAssumption DEF HandleTypes, Entries
<1>7. HostInv
  BY <1>2, <1>4 DEF HostInv, Parents
<1>8. SftInv
  BY <1>2 DEF SftInv
<1>9. ServesAll
  <2>1. Last(jfts) = std /\ Last(meant) = std /\ Last(redirects) = {} /\ Parents = {} /\ Len(saved) + 1 = 1
    BY <1>2 DEF Last, Parents
  <2>2. ASSUME NEW h \in Slots PROVE SlotOk(1, table, std, h)
    <3>1. h \in 0 .. StdHandles - 1 <=> h < StdHandles
      BY HandlesAssumption DEF Slots
    <3>2. h < StdHandles => h < DevSlots
      BY HandlesAssumption DEF Slots
    <3>3. Target(table, h) = std[h]
      BY <1>3, <1>4, <3>1, <3>2 DEF Target, DosHandleIsFile, DosHandleIsDevice
    <3> QED
      BY <1>3, <1>4, <3>3 DEF SlotOk
  <2>3. Serves(1, std, std, {}, table)
    BY <1>3, <1>4, <2>2 DEF Serves, Meaning
  <2> QED
    BY <2>1, <2>3 DEF ServesAll
<1> QED
  BY <1>6, <1>7, <1>8, <1>9 DEF HandleInv

LEMMA HandlesKeep ==
    ASSUME NestsWithin, IndexesSuffice
    PROVE  HandlesSpec => []HandleInv
<1>1. HandleInv /\ [HandlesNext]_handleVars => HandleInv'
  <2> SUFFICES ASSUME HandleInv, [HandlesNext]_handleVars PROVE HandleInv'
    OBVIOUS
  <2>1. CASE DosOpen
    BY <2>1, OpenStep
  <2>2. CASE DosClose
    BY <2>2, CloseStep
  <2>3. CASE DosDup \/ DosDup2
    BY <2>3, DupStep
  <2>4. CASE Exec
    BY <2>4, ExecStep
  <2>5. CASE ExecRedirected
    BY <2>5, RedirectedStep
  <2>6. CASE UndoRedirection
    BY <2>6, UndoStep
  <2>7. ASSUME NEW isTsr \in BOOLEAN, DosTerminate(isTsr) PROVE HandleInv'
    BY <2>7, PopStep
  <2>8. CASE UNCHANGED handleVars
    BY <2>8, SameStep DEF handleVars, SameHandles
  <2> QED
    BY <2>1, <2>2, <2>3, <2>4, <2>5, <2>6, <2>7, <2>8 DEF HandlesNext
<1> QED
  BY <1>1, HandleStart, PTL DEF HandlesSpec

(* Whatever children close, duplicate over or leave open, the host's open  *)
(* handles are those of the tables and of resident programs: for every     *)
(* number of handles, as long as every saved table has a place and every   *)
(* host handle an index (see NestsWithin and IndexesSuffice).              *)
THEOREM HandlesStayExact ==
    ASSUME NestsWithin, IndexesSuffice
    PROVE  HandlesSpec => []HostHandlesExact
<1>1. HandleInv => HostHandlesExact
  <2> SUFFICES ASSUME HandleInv PROVE HostHandlesExact
    OBVIOUS
  <2>1. DOMAIN saved = Parents /\ HostInv /\ 0 \notin DOMAIN host
    BY HandlesAssumption DEF HandleInv, HandleTypes, Parents
  <2>2. PICK held :
           held = (UNION {{t.fh[h] : h \in Slots} : t \in {table} \cup {saved[i] : i \in DOMAIN saved}}) \ {0}
    OBVIOUS
  <2>3. \A x : x \in held <=> /\ x # 0
                             /\ \/ \E h \in Slots : table.fh[h] = x
                                \/ \E k \in Parents, h \in Slots : saved[k].fh[h] = x
    <3>1. PICK tables : tables = {table} \cup {saved[i] : i \in DOMAIN saved}
      OBVIOUS
    <3>2. \A t : t \in tables <=> t = table \/ \E k \in Parents : t = saved[k]
      BY <2>1, <3>1
    <3> DEFINE Of(t) == {t.fh[h] : h \in Slots}
    <3>3. held = (UNION {Of(t) : t \in tables}) \ {0}
      BY <2>2, <3>1, Zenon
    <3>4. \A t, x : x \in Of(t) <=> \E h \in Slots : t.fh[h] = x
      OBVIOUS
    <3> HIDE DEF Of
    <3>5. \A x : x \in held <=> x # 0 /\ \E t \in tables : x \in Of(t)
      BY <3>3
    <3> QED
      BY <3>2, <3>4, <3>5
  <2>4. held \cup leftBehind \subseteq DOMAIN host
    BY <2>1, <2>3 DEF HostInv
  <2>5. DOMAIN host \subseteq held \cup leftBehind
    BY <2>1, <2>3 DEF HostInv, DosHandleIsHeldByParent
  <2> QED
    BY <2>2, <2>4, <2>5 DEF HostHandlesExact
<1> QED
  BY <1>1, HandlesKeep, PTL

(* A program's standard handles reach what it, or the shell that started   *)
(* it, put into its JFT, unless a child closes a handle it was given       *)
(* redirected.                                                             *)
THEOREM StandardHandlesServe ==
    ASSUME NestsWithin, IndexesSuffice, "redirectsAndCloses" \notin HandleGuests
    PROVE  HandlesSpec => []StandardHandlesReach
<1>1. HandleInv => StandardHandlesReach
  <2> SUFFICES ASSUME HandleInv, Last(redirects) = {}, NEW h \in 0 .. StdHandles - 1
               PROVE  Target(table, h) = Last(meant)[h]
    BY DEF StandardHandlesReach
  <2>1. h \in Slots /\ h < StdHandles
    BY HandlesAssumption DEF Slots
  <2>2. handleGuest # "redirectsAndCloses"
    BY DEF HandleInv, HandleTypes
  <2> QED
    BY <2>1, <2>2, CurrentOf DEF SlotOk
<1> QED
  BY <1>1, HandlesKeep, PTL

-----------------------------------------------------------------------------
(* Win16 tasks: who is parked where, and what the frames hold.             *)
UsedSlots == {i \in SlotIds : wowSlots[i].used}

Frames == 1 .. CallDepth

TasksBorn == 1 .. wowBorn

(* A frame whose callback borrows a stack; and one above such a frame.     *)
Borrowed(f) == wowFrames[f].previous # NoTask

Under(g) == \E h \in 1 .. g - 1 : Borrowed(h)

(* While such a frame, or one the host waits for, lives, no task is        *)
(* switched.                                                               *)
Locked(f) == Borrowed(f) \/ wowFrames[f].sync

WowContext == [stack : Nat, used : Nat, frame : Nat]

ParkedTask ==
    [used : BOOLEAN, context : WowContext, task : Nat, fresh : BOOLEAN, runnable : BOOLEAN,
     depth : Nat, waiting : BOOLEAN, base : Nat]

WowFrame == [saved : ParkedTask, entered : Nat, previous : Nat, sync : BOOLEAN]

WowTypes ==
    /\ wowBorn \in Nat /\ wowTasks \subseteq TasksBorn
    /\ wowNow \in TasksBorn /\ wowShell \in {NoTask} \cup TasksBorn
    /\ wowRun \in WowContext /\ wowBase \in Nat
    /\ wowCursor \in SlotIds
    /\ wowSlots \in [SlotIds -> {FreeSlot} \cup ParkedTask]
    /\ \A i \in UsedSlots : wowSlots[i].task \in TasksBorn
    /\ wowFrames \in Seq(WowFrame)
    /\ \A f \in Frames :
          /\ wowFrames[f].entered \in TasksBorn
          /\ Borrowed(f) => wowFrames[f].previous = wowFrames[f].entered

(* A context on a frame whose callback runs on its caller's stack is on    *)
(* the stack of the task that entered it.                                  *)
OnItsStack(context) ==
    context.frame # 0 /\ ~Borrowed(context.frame) => wowFrames[context.frame].entered = context.stack

WowStacks ==
    /\ wowNow = wowRun.stack
    /\ \A i \in UsedSlots : wowSlots[i].context.stack = wowSlots[i].task
    /\ \A f \in Frames : wowFrames[f].saved.context.stack = wowFrames[f].entered
    /\ OnItsStack(wowRun)
    /\ \A i \in UsedSlots : OnItsStack(wowSlots[i].context)
    /\ \A g \in Frames : OnItsStack(wowFrames[g].saved.context)

(* A task is parked once, and the one that runs is not parked, nor is the  *)
(* one whose call borrowed a stack first.                                  *)
ParkedOnce ==
    /\ \A i, j \in UsedSlots : wowSlots[i].task = wowSlots[j].task => i = j
    /\ (\A f \in Frames : ~Borrowed(f)) => \A i \in UsedSlots : wowSlots[i].task # wowNow
    /\ \A f \in Frames :
          Borrowed(f) /\ ~Under(f) => \A i \in UsedSlots : wowSlots[i].task # wowFrames[f].entered

(* Every frame is run by one context: the running one runs the newest.     *)
FramesApart ==
    /\ wowRun.frame \in {0, CallDepth}
    /\ \A i \in UsedSlots : wowSlots[i].context.frame <= CallDepth
    /\ \A i \in UsedSlots :
          wowSlots[i].context.frame # 0 => wowSlots[i].context.frame # wowRun.frame
    /\ \A i, j \in UsedSlots :
          wowSlots[i].context.frame # 0 /\ wowSlots[i].context.frame = wowSlots[j].context.frame => i = j
    /\ \A g \in Frames : wowFrames[g].saved.context.frame \in {0, g - 1}
    /\ \A g \in Frames, i \in UsedSlots :
          wowFrames[g].saved.context.frame # 0 =>
             wowSlots[i].context.frame # wowFrames[g].saved.context.frame

(* From a locked frame up, each frame was entered from the one below.      *)
LocksHold(f) ==
    Locked(f) =>
        /\ wowRun.frame = CallDepth
        /\ \A i \in UsedSlots : wowSlots[i].context.frame < f
        /\ \A g \in f + 1 .. CallDepth :
              /\ wowFrames[g].saved.context.frame = g - 1
              /\ (\A h \in f .. g - 1 : ~Borrowed(h)) => wowFrames[g].entered = wowFrames[f].entered

FramesLocked == \A f \in Frames : LocksHold(f)

(* A task is based no deeper than it is, and above its callbacks.  What    *)
(* the shell's base is does not matter: it waits in its own way.           *)
Based(frame, level, deep) == level <= deep /\ (frame # 0 => level < deep)

ParkedWell(s) ==
    /\ s.fresh => s.context.frame = 0 /\ ~s.waiting /\ ~s.runnable
    /\ s.waiting \/ s.runnable =>
          Based(s.context.frame, s.base, s.depth) /\ s.context.frame \in {0, s.depth}
    /\ ~(s.fresh \/ s.waiting \/ s.runnable) => s.context.frame = 0 /\ s.task = wowShell

WowBases ==
    /\ wowNow # wowShell /\ (\A f \in Frames : ~Borrowed(f)) => Based(wowRun.frame, wowBase, CallDepth)
    /\ \A g \in Frames :
          wowFrames[g].entered # wowShell /\ ~Under(g) =>
             Based(wowFrames[g].saved.context.frame, wowFrames[g].saved.base, g - 1)
    /\ \A i \in UsedSlots : ParkedWell(wowSlots[i])

(* On one stack, what was saved later lies deeper.                         *)
SavedInOrder ==
    /\ \A g, h \in Frames :
          h < g /\ wowFrames[h].entered = wowFrames[g].entered =>
             wowFrames[h].saved.context.used < wowFrames[g].saved.context.used
    /\ \A g \in Frames, i \in UsedSlots :
          wowSlots[i].task = wowFrames[g].entered =>
             IF Under(g) THEN wowSlots[i].context.used < wowFrames[g].saved.context.used
             ELSE wowFrames[g].saved.context.used < wowSlots[i].context.used
    /\ \A i \in UsedSlots : wowSlots[i].task = wowNow => wowSlots[i].context.used < wowRun.used
    /\ \A g \in Frames : wowFrames[g].entered = wowNow => wowFrames[g].saved.context.used < wowRun.used

WowInv ==
    /\ WowTypes /\ WowStacks /\ ParkedOnce /\ FramesApart /\ FramesLocked /\ WowBases /\ SavedInOrder

(* The round robin of moments C and D resumes a task where the code says   *)
(* it may be: at any depth if it holds no frame (or is the shell at its    *)
(* wait), otherwise at the depth it left.                                  *)
FitsHere(s) == WowSchedTopLevel(s) \/ ~(s.runnable \/ s.waiting) \/ s.depth = CallDepth

RoundRobinFits ==
    /\ WaitForMsgAndEvent => FitsHere(wowSlots[WowSchedPick(wowNow)])
    /\ Retire => FitsHere(wowSlots[WowSchedPick(NoTask)])

-----------------------------------------------------------------------------
(* What the invariant says of one slot and of one frame.                   *)
LEMMA SlotFields ==
    ASSUME WowTypes, NEW i \in UsedSlots
    PROVE  /\ i \in SlotIds /\ wowSlots[i] \in ParkedTask /\ wowSlots[i].used
           /\ wowSlots[i].context \in WowContext
           /\ wowSlots[i].context.stack \in Nat /\ wowSlots[i].context.used \in Nat
           /\ wowSlots[i].context.frame \in Nat
           /\ wowSlots[i].task \in Nat /\ wowSlots[i].depth \in Nat /\ wowSlots[i].base \in Nat
<1>1. wowSlots[i] \in ParkedTask /\ wowSlots[i].used
  <2>1. wowSlots[i] \in {FreeSlot} \cup ParkedTask /\ wowSlots[i].used
    BY DEF WowTypes, UsedSlots
  <2>2. ~ FreeSlot.used
    BY DEF FreeSlot
  <2> QED
    BY <2>1, <2>2
<1> QED
  BY <1>1 DEF UsedSlots, ParkedTask, WowContext

LEMMA FrameFields ==
    ASSUME WowTypes, NEW f \in Frames
    PROVE  /\ wowFrames[f] \in WowFrame /\ f \in Nat /\ f # 0
           /\ wowFrames[f].saved \in ParkedTask /\ wowFrames[f].saved.context \in WowContext
           /\ wowFrames[f].saved.context.stack \in Nat /\ wowFrames[f].saved.context.used \in Nat
           /\ wowFrames[f].saved.context.frame \in Nat /\ wowFrames[f].saved.base \in Nat
           /\ wowFrames[f].entered \in Nat
<1>1. wowFrames[f] \in WowFrame
  BY ElementOfSeq DEF WowTypes, Frames, CallDepth
<1> QED
  BY <1>1 DEF WowFrame, ParkedTask, WowContext, Frames

LEMMA DepthIsNat ==
    ASSUME WowTypes
    PROVE  CallDepth \in Nat /\ wowRun.frame \in Nat /\ wowRun.stack \in Nat /\ wowRun.used \in Nat
  BY LenProperties DEF WowTypes, CallDepth, WowContext

(* The round robin finds a parked task when there is one.                  *)
LEMMA PickIsParked ==
    ASSUME WowAssumption, wowCursor \in SlotIds, NEW current, Parked(current) # {}
    PROVE  WowSchedPick(current) \in Parked(current)
<1> DEFINE At(n) == (wowCursor + n) % WowSchedMax
           Steps == {n \in 1 .. WowSchedMax : At(n) \in Parked(current)}
<1>1. PICK i \in Parked(current) : TRUE
  OBVIOUS
<1>2. WowSchedMax \in Nat /\ i \in 0 .. WowSchedMax - 1 /\ wowCursor \in 0 .. WowSchedMax - 1
  BY <1>1 DEF Parked, SlotIds, WowAssumption
<1>3. \E n \in 1 .. WowSchedMax : At(n) = i
  <2>1. i % WowSchedMax = i /\ (i + WowSchedMax) % WowSchedMax = i
    <3>1. /\ i \in Nat /\ WowSchedMax \in Nat \ {0} /\ i \in 0 .. WowSchedMax - 1
          /\ i = WowSchedMax * 0 + i /\ i + WowSchedMax = WowSchedMax * 1 + i /\ i + WowSchedMax \in Nat
      BY <1>2
    <3> QED BY <3>1, DivUnique
  <2>2. CASE wowCursor < i
    <3>1. i - wowCursor \in 1 .. WowSchedMax /\ wowCursor + (i - wowCursor) = i
      BY <1>2, <2>2
    <3> QED BY <2>1, <1>2, <3>1
  <2>3. CASE ~ (wowCursor < i)
    <3>1. /\ i + WowSchedMax - wowCursor \in 1 .. WowSchedMax
          /\ wowCursor + (i + WowSchedMax - wowCursor) = i + WowSchedMax
      BY <1>2, <2>3
    <3> QED BY <2>1, <1>2, <3>1
  <2> QED BY <2>2, <2>3
<1>4. Steps \in SUBSET Nat /\ Steps # {}
  <2> HIDE DEF At
  <2> QED BY <1>1, <1>2, <1>3
<1>5. PICK n \in Steps : \A m \in Steps : n <= m
  BY <1>4, LeastNatural
<1>6. \A m \in 1 .. n - 1 : At(m) \notin Parked(current)
  <2> HIDE DEF At
  <2> QED BY <1>2, <1>5
<1>7. \E j \in Parked(current) :
         \E step \in 1 .. WowSchedMax :
            /\ j = (wowCursor + step) % WowSchedMax
            /\ \A earlier \in 1 .. step - 1 : (wowCursor + earlier) % WowSchedMax \notin Parked(current)
  BY <1>5, <1>6
<1> QED
  BY <1>7 DEF WowSchedPick

LEMMA WowStart == WowInit => WowInv
<1> SUFFICES ASSUME WowInit PROVE WowInv
  OBVIOUS
<1>1. CallDepth = 0 /\ Frames = {} /\ UsedSlots = {}
  BY DEF WowInit, CallDepth, Frames, UsedSlots, FreeSlot
<1>2. 0 \in SlotIds /\ 1 \in TasksBorn
  BY WowAssumption DEF WowInit, SlotIds, TasksBorn
<1>3. WowTypes
  BY <1>1, <1>2 DEF WowTypes, WowInit, WowContext
<1>4. WowStacks /\ ParkedOnce
  BY <1>1 DEF WowInit, WowStacks, ParkedOnce, OnItsStack
<1>5. FramesApart /\ FramesLocked /\ WowBases /\ SavedInOrder
  BY <1>1 DEF WowInit, FramesApart, FramesLocked, WowBases, SavedInOrder, Based
<1> QED
  BY <1>3, <1>4, <1>5 DEF WowInv

(* What is saved of a task that gives way: it is at its top level, or may  *)
(* be resumed only at this depth.                                          *)
GivesWay(p) ==
    /\ p \in ParkedTask
    /\ p.task = wowNow /\ p.context = wowRun /\ ~p.fresh
    /\ p.waiting \/ p.runnable =>
          Based(wowRun.frame, p.base, p.depth) /\ wowRun.frame \in {0, p.depth}
    /\ ~(p.waiting \/ p.runnable) => wowRun.frame = 0 /\ wowNow = wowShell

(* A parked task takes the processor; the one that had it is parked there  *)
(* or gone.                                                                *)
LEMMA ResumeStep ==
    ASSUME WowInv, NEW i \in UsedSlots, \A f \in Frames : ~Locked(f),
           FitsHere(wowSlots[i]), Resume(wowSlots[i]),
           UNCHANGED <<wowFrames, wowBorn>>,
           wowSlots' \in [SlotIds -> {FreeSlot} \cup ParkedTask],
           \A j \in SlotIds : j # i => wowSlots'[j] = wowSlots[j],
           wowSlots'[i].used => GivesWay(wowSlots'[i]),
           wowShell' = wowShell \/ (wowShell = NoTask /\ wowShell' = wowSlots[i].task),
           wowCursor' \in SlotIds, wowTasks' \subseteq TasksBorn
    PROVE  WowInv'
<1> DEFINE s == wowSlots[i]
<1>0. WowTypes /\ WowStacks /\ ParkedOnce /\ FramesApart /\ FramesLocked /\ WowBases /\ SavedInOrder
  BY DEF WowInv
<1>1. /\ CallDepth' = CallDepth /\ Frames' = Frames /\ TasksBorn' = TasksBorn
      /\ \A f : Borrowed(f)' = Borrowed(f) /\ Under(f)' = Under(f) /\ Locked(f)' = Locked(f)
      /\ \A c : OnItsStack(c)' = OnItsStack(c)
  BY DEF CallDepth, Frames, TasksBorn, Borrowed, Under, Locked, OnItsStack
<1>2. CallDepth \in Nat /\ \A f \in Frames : ~Borrowed(f) /\ ~Under(f)
  BY <1>0, DepthIsNat DEF Locked, Under, Frames
<1>3. /\ wowRun' = s.context /\ wowNow' = s.task
      /\ wowBase' = IF WowSchedTopLevel(s) THEN CallDepth ELSE s.base
  BY DEF Resume
<1>4. /\ UsedSlots' \subseteq UsedSlots
      /\ \A j \in UsedSlots' : \/ j # i /\ wowSlots'[j] = wowSlots[j]
                               \/ j = i /\ GivesWay(wowSlots'[i])
  BY DEF UsedSlots
<1>5. s.task # wowNow /\ \A j \in UsedSlots : wowSlots[j].task # wowNow
  BY <1>0, <1>2 DEF ParkedOnce
<1>6. /\ \A j \in UsedSlots : wowSlots[j] \in ParkedTask /\ wowSlots[j].context \in WowContext
      /\ CallDepth \in Nat /\ wowRun.frame \in Nat
  BY <1>0, SlotFields, DepthIsNat
<1> HIDE DEF s
<1>7. WowTypes'
  BY <1>0, <1>1, <1>3, <1>4, <1>6 DEF WowTypes, GivesWay, s, ParkedTask
<1>8. WowStacks'
  BY <1>0, <1>1, <1>3, <1>4 DEF WowStacks, GivesWay, s
<1>9. ParkedOnce'
  BY <1>0, <1>1, <1>2, <1>3, <1>4, <1>5 DEF ParkedOnce, GivesWay, s
<1>a. /\ s.context.frame \in {0, CallDepth}
      /\ s.task = wowShell' \/ Based(s.context.frame, wowBase', CallDepth)
  <2>1. ParkedWell(s) /\ s.context.frame \in Nat /\ s.base \in Nat /\ s.depth \in Nat
    BY <1>0, SlotFields DEF WowBases, s
  <2>2. CASE WowSchedTopLevel(s)
    <3>1. s.context.frame = 0
      BY <2>1, <2>2 DEF ParkedWell, WowSchedTopLevel, Based
    <3> QED
      BY <1>2, <1>3, <2>2, <3>1 DEF Based
  <2>3. CASE ~(s.fresh \/ s.waiting \/ s.runnable)
    BY <2>1, <2>3, <1>0, SlotFields DEF ParkedWell, s, NoTask
  <2>4. CASE ~WowSchedTopLevel(s) /\ s.depth = CallDepth /\ (s.waiting \/ s.runnable)
    BY <1>3, <2>1, <2>4 DEF ParkedWell
  <2> QED
    BY <2>2, <2>3, <2>4 DEF FitsHere, WowSchedTopLevel, s
<1>10. FramesApart'
  <2>1. \A j \in UsedSlots' : wowSlots'[j].context.frame <= CallDepth
    BY <1>0, <1>2, <1>4, <1>6 DEF FramesApart, GivesWay
  <2>2. \A j \in UsedSlots' :
           wowSlots'[j].context.frame # 0 => wowSlots'[j].context.frame # s.context.frame
    BY <1>0, <1>4 DEF FramesApart, GivesWay, s
  <2>3. \A j, k \in UsedSlots' :
          wowSlots'[j].context.frame # 0 /\ wowSlots'[j].context.frame = wowSlots'[k].context.frame => j = k
    BY <1>0, <1>4 DEF FramesApart, GivesWay
  <2>4. \A g \in Frames, j \in UsedSlots' :
          wowFrames[g].saved.context.frame # 0 =>
             wowSlots'[j].context.frame # wowFrames[g].saved.context.frame
    BY <1>0, <1>2, <1>4, <1>6 DEF FramesApart, GivesWay, Frames
  <2> QED
    BY <1>0, <1>1, <1>3, <1>a, <2>1, <2>2, <2>3, <2>4 DEF FramesApart
<1>11. FramesLocked'
  BY <1>1 DEF FramesLocked, LocksHold
<1>12. WowBases'
  <2>0. \A t \in TasksBorn : t = wowShell => t = wowShell'
    BY <1>0 DEF WowTypes, TasksBorn, NoTask
  <2>1. ASSUME NEW j \in UsedSlots'
        PROVE  ParkedWell(wowSlots[j])'
    <3>1. CASE j # i /\ wowSlots'[j] = wowSlots[j]
      <4>1. ParkedWell(wowSlots[j]) /\ wowSlots[j].task \in TasksBorn
        BY <1>0, <1>4 DEF WowBases, WowTypes
      <4> QED
        BY <2>0, <3>1, <4>1 DEF ParkedWell
    <3>2. CASE j = i /\ GivesWay(wowSlots'[i])
      <4>1. wowNow \in TasksBorn
        BY <1>0 DEF WowTypes
      <4> QED
        BY <2>0, <3>2, <4>1 DEF ParkedWell, GivesWay
    <3> QED
      BY <1>4, <3>1, <3>2
  <2>2. \A g \in Frames : wowFrames[g].entered # wowShell' =>
             Based(wowFrames[g].saved.context.frame, wowFrames[g].saved.base, g - 1)
    BY <1>0, <1>2, <2>0 DEF WowBases, WowTypes
  <2> QED
    BY <1>1, <1>3, <1>a, <2>1, <2>2 DEF WowBases
<1>13. SavedInOrder'
  <2>1. \A g \in Frames, j \in UsedSlots' :
          wowSlots'[j].task = wowFrames[g].entered =>
             wowFrames[g].saved.context.used < wowSlots'[j].context.used
    BY <1>0, <1>2, <1>4 DEF SavedInOrder, GivesWay
  <2>2. \A j \in UsedSlots' : wowSlots'[j].task # s.task
    BY <1>0, <1>4, <1>5 DEF ParkedOnce, GivesWay, s
  <2>3. \A g \in Frames : wowFrames[g].entered = s.task => wowFrames[g].saved.context.used < s.context.used
    BY <1>0, <1>2 DEF SavedInOrder, s
  <2>4. \A g, h \in Frames :
          h < g /\ wowFrames[h].entered = wowFrames[g].entered =>
             wowFrames[h].saved.context.used < wowFrames[g].saved.context.used
    BY <1>0 DEF SavedInOrder
  <2> QED
    BY <1>1, <1>2, <1>3, <2>1, <2>2, <2>3, <2>4 DEF SavedInOrder
<1> QED
  BY <1>7, <1>8, <1>9, <1>10, <1>11, <1>12, <1>13 DEF WowInv

(* What is kept of a task, marked as the moments mark it.                  *)
LEMMA SavedFields ==
    ASSUME NEW context \in WowContext, NEW task \in Nat, wowBase \in Nat
    PROVE  LET r == WowSchedSave(context, task) IN
           /\ r \in ParkedTask /\ r.context = context /\ r.task = task /\ r.base = wowBase
           /\ ~r.fresh /\ ~r.waiting /\ ~r.runnable /\ r.used
  BY SMT DEF WowSchedSave, ParkedTask

LEMMA FlagFields ==
    ASSUME NEW r \in ParkedTask, NEW b \in BOOLEAN
    PROVE  /\ [r EXCEPT !.fresh = b] \in ParkedTask /\ [r EXCEPT !.waiting = b] \in ParkedTask
           /\ [r EXCEPT !.runnable = b] \in ParkedTask
  BY SMT DEF ParkedTask

LEMMA DepthField ==
    ASSUME NEW r \in ParkedTask, NEW n \in Nat
    PROVE  [r EXCEPT !.depth = n] \in ParkedTask
  BY SMT DEF ParkedTask

(* A new task is parked; the one that runs does not change.                *)
LEMMA LaunchStep ==
    ASSUME WowInv, Launch
    PROVE  WowInv'
<1> DEFINE child == wowBorn + 1
           start == [stack |-> child, used |-> 1, frame |-> 0]
           new == [WowSchedSave(start, child) EXCEPT !.fresh = TRUE]
<1>0. WowTypes /\ WowStacks /\ ParkedOnce /\ FramesApart /\ FramesLocked /\ WowBases /\ SavedInOrder
  BY DEF WowInv
<1>1. /\ UNCHANGED <<wowNow, wowRun, wowBase, wowCursor, wowFrames, wowShell>>
      /\ wowTasks' = wowTasks \cup {child} /\ wowBorn' = child
      /\ \E free : wowSlots' = [wowSlots EXCEPT ![free] = new]
  BY DEF Launch
<1>2. PICK free : wowSlots' = [wowSlots EXCEPT ![free] = new]
  BY <1>1
<1>3. /\ new \in ParkedTask /\ new.context = start /\ start \in WowContext
      /\ start.stack = child /\ start.frame = 0
      /\ new.task = child /\ new.fresh /\ ~new.waiting /\ ~new.runnable
  <2>1. child \in Nat /\ wowBase \in Nat
    BY <1>0 DEF WowTypes
  <2>2. start \in WowContext /\ start.stack = child /\ start.frame = 0
    BY <2>1 DEF WowContext
  <2> HIDE DEF start, child
  <2>3. new \in ParkedTask
    BY <2>1, <2>2, SavedFields, FlagFields
  <2>4. new.context = start /\ new.task = child /\ new.fresh /\ ~new.waiting /\ ~new.runnable
    BY SMT DEF WowSchedSave
  <2> HIDE DEF new
  <2> QED
    BY <2>2, <2>3, <2>4
<1>4. /\ wowBorn \in Nat /\ child \notin TasksBorn /\ child # NoTask
      /\ TasksBorn' = TasksBorn \cup {child} /\ child \in Nat
  BY <1>0, <1>1 DEF TasksBorn, WowTypes, NoTask
<1> HIDE DEF new, start, child
<1>5. /\ CallDepth' = CallDepth /\ Frames' = Frames /\ CallDepth \in Nat
      /\ \A f : Borrowed(f)' = Borrowed(f) /\ Under(f)' = Under(f) /\ Locked(f)' = Locked(f)
      /\ \A c : OnItsStack(c)' = OnItsStack(c)
  BY <1>0, <1>1, DepthIsNat DEF CallDepth, Frames, TasksBorn, Borrowed, Under, Locked, OnItsStack
<1>6. /\ wowSlots' \in [SlotIds -> {FreeSlot} \cup ParkedTask]
      /\ \A j \in UsedSlots' : \/ j \in UsedSlots /\ wowSlots'[j] = wowSlots[j]
                               \/ j = free /\ wowSlots'[j] = new
  <2>1. CASE free \in SlotIds
    BY <1>0, <1>2, <1>3, <2>1 DEF WowTypes, UsedSlots
  <2>2. CASE free \notin SlotIds
    <3>1. wowSlots' = wowSlots
      BY <1>0, <1>2, <2>2 DEF WowTypes
    <3> QED
      BY <1>0, <3>1 DEF WowTypes, UsedSlots
  <2> QED
    BY <2>1, <2>2
<1>7. WowTypes'
  BY <1>0, <1>1, <1>3, <1>4, <1>5, <1>6 DEF WowTypes
<1>8. WowStacks'
  BY <1>0, <1>1, <1>3, <1>5, <1>6 DEF WowStacks, OnItsStack
<1>9. ParkedOnce'
  BY <1>0, <1>1, <1>3, <1>4, <1>5, <1>6 DEF ParkedOnce, WowTypes
<1>10. FramesApart'
  BY <1>0, <1>1, <1>3, <1>5, <1>6 DEF FramesApart
<1>11. FramesLocked'
  BY <1>0, <1>1, <1>3, <1>5, <1>6 DEF FramesLocked, LocksHold, Frames
<1>12. WowBases'
  BY <1>0, <1>1, <1>3, <1>5, <1>6 DEF WowBases, ParkedWell
<1>13. SavedInOrder'
  BY <1>0, <1>1, <1>3, <1>4, <1>5, <1>6 DEF SavedInOrder, WowTypes
<1> QED
  BY <1>7, <1>8, <1>9, <1>10, <1>11, <1>12, <1>13 DEF WowInv

(* A call of the host: the running context is saved in a new frame, and    *)
(* the procedure runs below it or on another task's stack below what is    *)
(* saved there.                                                            *)
Borrows(owner, frame) ==
    /\ frame.previous = wowNow
    /\ owner \in TasksBorn /\ owner # wowNow
    /\ wowRun'.stack = owner /\ wowNow' = owner /\ wowRun'.used \in Nat
    /\ \A i \in UsedSlots : wowSlots[i].task = owner => wowSlots[i].context.used < wowRun'.used
    /\ \A g \in Frames : wowFrames[g].entered = owner => wowFrames[g].saved.context.used < wowRun'.used

Grown(frame, top) ==
    /\ wowFrames' \in Seq(WowFrame) /\ CallDepth' = top /\ Frames' = Frames \cup {top} /\ top \notin Frames
    /\ wowFrames'[top] = frame /\ \A f \in Frames : wowFrames'[f] = wowFrames[f]

LEMMA PushFrame ==
    ASSUME WowTypes, NEW frame \in WowFrame, wowFrames' = Append(wowFrames, frame)
    PROVE  Grown(frame, CallDepth + 1)
<1> DEFINE D == Len(wowFrames)
<1>1. wowFrames \in Seq(WowFrame) /\ D \in Nat
  BY LenProperties DEF WowTypes
<1>2. /\ wowFrames' \in Seq(WowFrame) /\ Len(wowFrames') = D + 1
      /\ wowFrames'[D + 1] = frame /\ \A f \in 1 .. D : wowFrames'[f] = wowFrames[f]
  BY <1>1, AppendProperties
<1>3. 1 .. D + 1 = (1 .. D) \cup {D + 1} /\ D + 1 \notin 1 .. D
  BY <1>1
<1> QED
  BY <1>2, <1>3 DEF Grown, CallDepth, Frames

LEMMA EnterFrame ==
    ASSUME WowInv, NEW owner, NEW frame \in WowFrame, NEW top \in Nat, top = CallDepth + 1,
           Grown(frame, top),
           frame.entered = wowNow, frame.saved.context = wowRun, frame.saved.base = wowBase,
           wowRun' \in WowContext, wowRun'.frame = top,
           \/ Borrows(owner, frame)
           \/ /\ frame.previous = NoTask
              /\ wowRun'.stack = wowRun.stack /\ wowRun'.used = wowRun.used + 1 /\ wowNow' = wowNow,
           UNCHANGED <<wowTasks, wowBorn, wowBase, wowSlots, wowCursor, wowShell>>
    PROVE  WowInv'
<1>0. WowTypes /\ WowStacks /\ ParkedOnce /\ FramesApart /\ FramesLocked /\ WowBases /\ SavedInOrder
  BY DEF WowInv
<1>1. /\ CallDepth \in Nat /\ wowRun.frame \in Nat /\ wowRun.used \in Nat /\ wowBase \in Nat
      /\ wowRun \in WowContext
  BY <1>0, DepthIsNat DEF WowTypes
<1>d. top = CallDepth + 1
  OBVIOUS
<1>2. /\ wowFrames' \in Seq(WowFrame) /\ CallDepth' = top /\ Frames' = Frames \cup {top} /\ top \notin Frames
      /\ wowFrames'[top] = frame /\ \A f \in Frames : wowFrames'[f] = wowFrames[f]
  BY DEF Grown
<1>3. wowNow \in TasksBorn /\ wowNow # NoTask /\ TasksBorn' = TasksBorn /\ UsedSlots' = UsedSlots
  BY <1>0 DEF WowTypes, TasksBorn, NoTask, UsedSlots
<1>4. /\ \A f \in Frames : (Borrowed(f)' <=> Borrowed(f)) /\ (Locked(f)' <=> Locked(f))
      /\ Borrowed(top)' <=> frame.previous # NoTask
      /\ Locked(top)' <=> frame.previous # NoTask \/ frame.sync
  BY <1>2 DEF Borrowed, Locked
<1>5. /\ \A f \in Frames : (Under(f)' <=> Under(f)) /\ f < top
      /\ Under(top)' <=> (\E f \in Frames : Borrowed(f))
      /\ \A g \in Frames : \A h \in 1 .. g - 1 : h \in Frames
  BY <1>1, <1>d, <1>4 DEF Under, Frames
<1>6. frame.previous \in {NoTask, wowNow} /\ wowRun'.used \in Nat /\ wowNow' \in TasksBorn
  BY <1>1, <1>3 DEF Borrows
<1>7. WowTypes'
  BY <1>0, <1>2, <1>3, <1>4, <1>6 DEF WowTypes, Borrowed
<1>s. /\ \A g \in Frames' : \/ g \in Frames /\ g < top /\ wowFrames'[g] = wowFrames[g]
                            \/ g = top /\ wowFrames'[g] = frame
      /\ wowSlots' = wowSlots
  BY <1>2, <1>5
<1>8. WowStacks'
  <2> DEFINE Stays(c) ==
          c.frame # 0 /\ wowFrames'[c.frame].previous = NoTask => wowFrames'[c.frame].entered = c.stack
  <2>1. ASSUME NEW c \in WowContext, c.frame <= CallDepth, OnItsStack(c)
        PROVE  Stays(c)
    <3>1. c.frame \in Nat
      BY DEF WowContext
    <3>2. c.frame # 0 => c.frame \in Frames
      BY <1>1, <2>1, <3>1 DEF Frames
    <3> QED
      BY <1>2, <2>1, <3>2 DEF OnItsStack, Borrowed
  <2>2. ASSUME NEW i \in UsedSlots
        PROVE  OnItsStack(wowSlots[i].context)'
    <3>1. /\ wowSlots[i].context \in WowContext /\ wowSlots[i].context.frame <= CallDepth
          /\ OnItsStack(wowSlots[i].context)
      BY <1>0, SlotFields DEF WowStacks, FramesApart
    <3>2. Stays(wowSlots[i].context)
      BY <2>1, <3>1
    <3> QED
      BY <1>s, <3>2 DEF OnItsStack, Borrowed
  <2>3. ASSUME NEW g \in Frames'
        PROVE  OnItsStack(wowFrames[g].saved.context)'
    <3>1. CASE g \in Frames /\ wowFrames'[g] = wowFrames[g]
      <4>1. wowFrames[g].saved.context \in WowContext /\ OnItsStack(wowFrames[g].saved.context)
        BY <1>0, <3>1, FrameFields DEF WowStacks
      <4>3. wowFrames[g].saved.context.frame <= CallDepth
        <5>1. wowFrames[g].saved.context.frame \in {0, g - 1}
          BY <1>0, <3>1 DEF FramesApart
        <5> QED
          BY <1>1, <3>1, <5>1 DEF Frames
      <4>2. Stays(wowFrames[g].saved.context)
        BY <2>1, <4>1, <4>3
      <4> QED
        BY <3>1, <4>2 DEF OnItsStack, Borrowed
    <3>2. CASE g = top /\ wowFrames'[g] = frame
      <4>1. wowRun \in WowContext /\ wowRun.frame <= CallDepth /\ OnItsStack(wowRun)
        BY <1>0, <1>1 DEF WowStacks, FramesApart
      <4>2. Stays(wowRun)
        BY <2>1, <4>1
      <4> QED
        BY <3>2, <4>2 DEF OnItsStack, Borrowed
    <3> QED
      BY <1>s, <3>1, <3>2
  <2>4. OnItsStack(wowRun)'
    BY <1>0, <1>2, <1>d, <1>3 DEF OnItsStack, Borrowed, Borrows, WowStacks
  <2>5. wowNow' = wowRun'.stack
    BY <1>0 DEF Borrows, WowStacks
  <2> QED
    BY <1>0, <1>3, <1>s, <2>2, <2>3, <2>4, <2>5 DEF WowStacks
<1>w. wowSlots' = wowSlots
  BY <1>s
<1>n. \/ Borrows(owner, frame)
      \/ frame.previous = NoTask /\ wowRun'.stack = wowRun.stack /\ wowNow' = wowNow
         /\ wowRun'.used = wowRun.used + 1
  OBVIOUS
<1>9. ParkedOnce'
  <2>1. (\A f \in Frames' : ~Borrowed(f)') => \A i \in UsedSlots : wowSlots[i].task # wowNow'
    BY <1>0, <1>2, <1>3, <1>4, <1>n DEF ParkedOnce, Borrows
  <2>2. ASSUME NEW f \in Frames', Borrowed(f)', ~Under(f)', NEW i \in UsedSlots
        PROVE  wowSlots[i].task # wowFrames'[f].entered
    BY <1>0, <1>3, <1>4, <1>5, <1>6, <1>s, <2>2 DEF ParkedOnce
  <2> QED
    BY <1>0, <1>3, <1>w, <2>1, <2>2 DEF ParkedOnce
<1>10. FramesApart'
  <2>1. \A i \in UsedSlots :
           /\ wowSlots[i].context.frame \in Nat /\ wowSlots[i].context.frame <= top
           /\ wowSlots[i].context.frame # top
    BY <1>0, <1>1, <1>d, SlotFields DEF FramesApart
  <2>2. wowRun.frame \in {0, top - 1}
    BY <1>0, <1>1, <1>d DEF FramesApart
  <2>3. \A g \in Frames' : wowFrames'[g].saved.context.frame \in {0, g - 1}
    BY <1>0, <1>s, <2>2 DEF FramesApart
  <2>4. ASSUME NEW g \in Frames', NEW i \in UsedSlots, wowFrames'[g].saved.context.frame # 0
        PROVE  wowSlots[i].context.frame # wowFrames'[g].saved.context.frame
    BY <1>0, <1>s, <2>4, <2>1 DEF FramesApart
  <2>5. \A i, j \in UsedSlots :
          wowSlots[i].context.frame # 0 /\ wowSlots[i].context.frame = wowSlots[j].context.frame => i = j
    BY <1>0 DEF FramesApart
  <2> QED
    BY <1>2, <1>3, <1>d, <1>w, <2>1, <2>3, <2>4, <2>5 DEF FramesApart
<1>11. FramesLocked'
  <2>1. ASSUME NEW f \in Frames, Locked(f)
        PROVE  LocksHold(f)'
    <3>1. LocksHold(f)
      BY <1>0 DEF FramesLocked
    <3>2. ASSUME NEW g \in f + 1 .. top
          PROVE  /\ wowFrames'[g].saved.context.frame = g - 1
                 /\ (\A h \in f .. g - 1 : ~Borrowed(h)') => wowFrames'[g].entered = wowFrames'[f].entered
      <4>0. f \in Nat /\ f <= CallDepth /\ \A h \in f .. g - 1 : h \in Frames
        BY <1>1, <1>d, <3>2 DEF Frames
      <4>1. CASE g # top
        <5>1. g \in Frames /\ g \in f + 1 .. CallDepth
          BY <1>1, <1>d, <4>0, <4>1, <3>2 DEF Frames
        <5> QED
          BY <1>2, <1>4, <4>0, <5>1, <2>1, <3>1 DEF LocksHold
      <4>2. CASE g = top
        <5>1. wowFrames'[g].saved.context.frame = g - 1
          <6>1. wowRun.frame = CallDepth /\ g - 1 = CallDepth
            BY <1>1, <1>d, <4>2, <2>1, <3>1 DEF LocksHold
          <6> QED
            BY <1>2, <4>2, <6>1
        <5>2. ASSUME \A h \in f .. g - 1 : ~Borrowed(h)'
              PROVE  wowNow = wowFrames[f].entered
          <6>1. \A h \in f .. CallDepth : h \in Frames /\ ~Borrowed(h)
            BY <1>1, <1>4, <1>d, <4>0, <4>2, <5>2
          <6>2. CallDepth \in f .. CallDepth /\ CallDepth # 0 /\ wowRun.frame = CallDepth
            BY <1>1, <4>0, <2>1, <3>1 DEF LocksHold, Frames
          <6>3. wowNow = wowFrames[CallDepth].entered
            BY <1>0, <6>1, <6>2 DEF WowStacks, OnItsStack
          <6>4. CASE CallDepth = f
            BY <6>3, <6>4
          <6>5. CASE CallDepth # f
            <7>1. CallDepth \in f + 1 .. CallDepth /\ \A h \in f .. CallDepth - 1 : ~Borrowed(h)
              BY <1>1, <4>0, <6>1, <6>5
            <7> QED
              BY <6>3, <7>1, <2>1, <3>1 DEF LocksHold
          <6> QED
            BY <6>4, <6>5
        <5> QED
          BY <1>2, <4>2, <5>1, <5>2
      <4> QED
        BY <4>1, <4>2
    <3> QED
      BY <1>2, <1>3, <1>d, <1>w, <3>1, <3>2, <2>1 DEF LocksHold
  <2>2. LocksHold(top)'
    <3>1. \A i \in UsedSlots : wowSlots[i].context.frame < top
      BY <1>0, <1>1, <1>d, SlotFields DEF FramesApart
    <3> QED
      BY <1>2, <1>d, <1>3, <1>s, <3>1 DEF LocksHold
  <2>3. ASSUME NEW f \in Frames, ~Locked(f)
        PROVE  LocksHold(f)'
    BY <1>4, <2>3 DEF LocksHold
  <2> QED
    BY <1>2, <2>1, <2>2, <2>3 DEF FramesLocked
<1>12. WowBases'
  <2>1. wowNow' # wowShell /\ (\A f \in Frames' : ~Borrowed(f)') => Based(wowRun'.frame, wowBase, top)
    BY <1>0, <1>1, <1>2, <1>d, <1>3, <1>4, <1>n DEF WowBases, Based, Borrows
  <2>2. ASSUME NEW g \in Frames', wowFrames'[g].entered # wowShell, ~Under(g)'
        PROVE  Based(wowFrames'[g].saved.context.frame, wowFrames'[g].saved.base, g - 1)
    <3>1. CASE g \in Frames /\ wowFrames'[g] = wowFrames[g]
      BY <1>0, <1>5, <2>2, <3>1 DEF WowBases
    <3>2. CASE g = top /\ wowFrames'[g] = frame
      <4>1. wowNow # wowShell /\ \A f \in Frames : ~Borrowed(f)
        BY <1>5, <2>2, <3>2
      <4>2. Based(wowRun.frame, wowBase, CallDepth) /\ CallDepth = g - 1
        BY <1>0, <1>1, <1>d, <3>2, <4>1 DEF WowBases
      <4> QED
        BY <3>2, <4>2
    <3> QED
      BY <1>s, <3>1, <3>2
  <2>3. \A i \in UsedSlots' : ParkedWell(wowSlots[i])'
    BY <1>0, <1>3, <1>s DEF WowBases, ParkedWell
  <2> QED
    BY <1>2, <2>1, <2>2, <2>3 DEF WowBases
<1>13. SavedInOrder'
  <2>1. ASSUME NEW g \in Frames', NEW h \in Frames', h < g, wowFrames'[h].entered = wowFrames'[g].entered
        PROVE  wowFrames'[h].saved.context.used < wowFrames'[g].saved.context.used
    <3>1. h \in Frames /\ wowFrames'[h] = wowFrames[h]
      <4>1. g \in Nat /\ g <= top
        BY <1>1, <1>2, <1>d DEF Frames
      <4> QED
        BY <1>2, <2>1, <4>1
    <3>2. CASE g \in Frames /\ wowFrames'[g] = wowFrames[g]
      BY <1>0, <2>1, <3>1, <3>2 DEF SavedInOrder
    <3>3. CASE g = top /\ wowFrames'[g] = frame
      BY <1>0, <2>1, <3>1, <3>3 DEF SavedInOrder
    <3> QED
      BY <1>s, <3>2, <3>3
  <2>2. ASSUME NEW g \in Frames', NEW i \in UsedSlots, wowSlots[i].task = wowFrames'[g].entered
        PROVE  IF Under(g)' THEN wowSlots[i].context.used < wowFrames'[g].saved.context.used
               ELSE wowFrames'[g].saved.context.used < wowSlots[i].context.used
    <3>1. CASE g \in Frames /\ wowFrames'[g] = wowFrames[g]
      BY <1>0, <1>5, <2>2, <3>1 DEF SavedInOrder
    <3>2. CASE g = top /\ wowFrames'[g] = frame
      <4>1. wowSlots[i].task = wowNow /\ wowSlots[i].context.used < wowRun.used
        BY <1>0, <2>2, <3>2 DEF SavedInOrder
      <4>2. Under(g)'
        BY <1>0, <1>5, <3>2, <4>1 DEF ParkedOnce
      <4> QED
        BY <3>2, <4>1, <4>2
    <3> QED
      BY <1>s, <3>1, <3>2
  <2>3. ASSUME NEW i \in UsedSlots, wowSlots[i].task = wowNow'
        PROVE  wowSlots[i].context.used < wowRun'.used
    <3>1. wowSlots[i].context.used \in Nat
      BY <1>0, SlotFields
    <3> QED
      BY <1>0, <1>1, <1>n, <2>3, <3>1 DEF SavedInOrder, Borrows
  <2>4. ASSUME NEW g \in Frames', wowFrames'[g].entered = wowNow'
        PROVE  wowFrames'[g].saved.context.used < wowRun'.used
    <3>1. CASE g \in Frames /\ wowFrames'[g] = wowFrames[g]
      <4>1. wowFrames[g].saved.context.used \in Nat
        BY <1>0, <3>1, FrameFields
      <4> QED
        BY <1>0, <1>1, <1>n, <2>4, <3>1, <4>1 DEF SavedInOrder, Borrows
    <3>2. CASE g = top /\ wowFrames'[g] = frame
      BY <1>1, <1>n, <2>4, <3>2 DEF Borrows
    <3> QED
      BY <1>s, <3>1, <3>2
  <2> QED
    BY <1>3, <1>s, <2>1, <2>2, <2>3, <2>4 DEF SavedInOrder
<1> QED
  BY <1>7, <1>8, <1>9, <1>10, <1>11, <1>12, <1>13 DEF WowInv

(* A frame that can be left: the newest one, by its own callback, or one   *)
(* the host gives up on.  The task that entered it becomes current, and    *)
(* was not parked meanwhile.                                               *)
Leaves(f) == Locked(f) \/ (f = CallDepth /\ wowRun.frame # 0)

LEMMA BackToEntered ==
    ASSUME WowInv, NEW f \in Frames, Leaves(f), LeaveTo(f)
    PROVE  /\ wowNow' = wowFrames[f].entered
           /\ ~Under(f) => \A i \in UsedSlots : wowSlots[i].task # wowFrames[f].entered
<1> DEFINE borrowing == {g \in f .. CallDepth : Borrowed(g)}
<1>0. WowTypes /\ WowStacks /\ ParkedOnce /\ FramesApart /\ FramesLocked
  BY DEF WowInv
<1>1. CallDepth \in Nat /\ f \in Nat /\ 1 <= f /\ f <= CallDepth
  BY <1>0, DepthIsNat DEF Frames
<1>2. wowNow' = IF borrowing = {} THEN wowNow ELSE wowFrames[Min(borrowing)].previous
  BY DEF LeaveTo, Borrowed
<1>3. LocksHold(f)
  BY <1>0 DEF FramesLocked
<1> HIDE DEF borrowing
<1>4. CASE borrowing = {}
  <2>1. CallDepth \in Frames /\ ~Borrowed(CallDepth) /\ \A h \in f .. CallDepth : ~Borrowed(h)
    BY <1>1, <1>4 DEF borrowing, Frames
  <2>2. wowRun.frame = CallDepth /\ CallDepth # 0
    BY <1>0, <1>1, <1>3 DEF Leaves, LocksHold, FramesApart
  <2>3. wowNow = wowFrames[CallDepth].entered
    BY <1>0, <2>1, <2>2 DEF WowStacks, OnItsStack
  <2>4. wowNow = wowFrames[f].entered
    <3>1. CASE f = CallDepth
      BY <2>3, <3>1
    <3>2. CASE f # CallDepth
      <4>1. Locked(f) /\ CallDepth \in f + 1 .. CallDepth /\ \A h \in f .. CallDepth - 1 : ~Borrowed(h)
        BY <1>1, <2>1, <3>2 DEF Leaves
      <4> QED
        BY <1>3, <2>3, <4>1 DEF LocksHold
    <3> QED
      BY <3>1, <3>2
  <2>5. ASSUME ~Under(f)
        PROVE  \A h \in Frames : ~Borrowed(h)
    BY <1>1, <2>1, <2>5 DEF Under, Frames
  <2> QED
    BY <1>0, <1>2, <1>4, <2>4, <2>5 DEF ParkedOnce
<1>5. CASE borrowing # {}
  <2>1. PICK m \in Nat : m = Min(borrowing) /\ m \in borrowing /\ \A g \in borrowing : m <= g
    <3>1. borrowing \in SUBSET Nat
      BY <1>1 DEF borrowing
    <3> QED
      BY <1>5, <3>1, LeastIn
  <2>2. m \in Frames /\ f <= m /\ Borrowed(m) /\ \A h \in f .. m - 1 : ~Borrowed(h)
    BY <1>1, <2>1 DEF borrowing, Frames
  <2>3. wowNow' = wowFrames[m].entered
    BY <1>0, <1>2, <1>5, <2>1, <2>2 DEF WowTypes
  <2>4. wowFrames[m].entered = wowFrames[f].entered
    <3>1. CASE f = m
      BY <3>1
    <3>2. CASE f # m
      <4>1. m \in f + 1 .. CallDepth /\ f # CallDepth
        BY <1>1, <2>2, <3>2 DEF Frames
      <4> QED
        BY <1>3, <2>2, <4>1 DEF Leaves, LocksHold
    <3> QED
      BY <3>1, <3>2
  <2>5. ASSUME ~Under(f)
        PROVE  ~Under(m)
    BY <1>1, <2>1, <2>2, <2>5 DEF Under
  <2> QED
    BY <1>0, <2>2, <2>3, <2>4, <2>5 DEF ParkedOnce
<1> QED
  BY <1>4, <1>5

Cut(f) ==
    /\ wowFrames' \in Seq(WowFrame) /\ CallDepth' = f - 1
    /\ Frames' = 1 .. f - 1 /\ \A g \in 1 .. f - 1 : g \in Frames /\ wowFrames'[g] = wowFrames[g]

LEMMA CutFrames ==
    ASSUME WowTypes, NEW f \in Frames, wowFrames' = SubSeq(wowFrames, 1, f - 1)
    PROVE  Cut(f)
<1> DEFINE n == f - 1
<1>1. wowFrames \in Seq(WowFrame) /\ Len(wowFrames) \in Nat /\ f \in 1 .. Len(wowFrames)
  BY LenProperties DEF WowTypes, Frames, CallDepth
<1>2. n \in Nat /\ n + 1 = f /\ n <= Len(wowFrames) /\ \A g \in 1 .. n : wowFrames[g] \in WowFrame
  BY <1>1, ElementOfSeq
<1> HIDE DEF n
<1>3. /\ SubSeq(wowFrames, 1, n) \in Seq(WowFrame)
      /\ Len(SubSeq(wowFrames, 1, n)) = IF 1 <= n THEN n - 1 + 1 ELSE 0
      /\ \A g \in 1 .. n - 1 + 1 : SubSeq(wowFrames, 1, n)[g] = wowFrames[1 + g - 1]
  BY <1>2, SubSeqProperties
<1>4. /\ Len(SubSeq(wowFrames, 1, n)) = n
      /\ \A g \in 1 .. n : SubSeq(wowFrames, 1, n)[g] = wowFrames[g]
  BY <1>2, <1>3
<1>5. wowFrames' = SubSeq(wowFrames, 1, n) /\ n = f - 1
  BY DEF n
<1>6. \A g \in 1 .. n : g \in 1 .. Len(wowFrames)
  BY <1>1, <1>2
<1> QED
  BY <1>3, <1>4, <1>5, <1>6 DEF Cut, CallDepth, Frames

LEMMA LeaveStep ==
    ASSUME WowInv, NEW f \in Frames, Leaves(f), Cut(f),
           wowNow' = wowFrames[f].entered,
           ~Under(f) => \A i \in UsedSlots : wowSlots[i].task # wowFrames[f].entered,
           wowRun' = wowFrames[f].saved.context, wowBase' = wowFrames[f].saved.base,
           UNCHANGED <<wowTasks, wowBorn, wowSlots, wowCursor, wowShell>>
    PROVE  WowInv'
<1>0. WowTypes /\ WowStacks /\ ParkedOnce /\ FramesApart /\ FramesLocked /\ WowBases /\ SavedInOrder
  BY DEF WowInv
<1>1. CallDepth \in Nat /\ f \in Nat /\ 1 <= f /\ f <= CallDepth
  BY <1>0, DepthIsNat DEF Frames
<1>2. /\ wowFrames' \in Seq(WowFrame) /\ CallDepth' = f - 1 /\ Frames' = 1 .. f - 1
      /\ \A g \in 1 .. f - 1 : g \in Frames /\ g < f /\ wowFrames'[g] = wowFrames[g]
  BY <1>1 DEF Cut
<1>3. TasksBorn' = TasksBorn /\ UsedSlots' = UsedSlots /\ wowSlots' = wowSlots
  BY DEF TasksBorn, UsedSlots
<1>4. PICK c \in WowContext : c = wowFrames[f].saved.context
  BY <1>0, FrameFields
<1>5. PICK e \in TasksBorn : e = wowFrames[f].entered
  BY <1>0 DEF WowTypes
<1>6. \A g \in 1 .. f - 1 : (Borrowed(g)' <=> Borrowed(g)) /\ (Locked(g)' <=> Locked(g)) /\ g \in Nat
  BY <1>2 DEF Borrowed, Locked
<1>7. \A g \in 1 .. f - 1 : Under(g)' <=> Under(g)
  BY <1>1, <1>6 DEF Under
<1>8. (\A g \in 1 .. f - 1 : ~Borrowed(g)) <=> ~Under(f)
  BY DEF Under
<1>9. wowRun' = c /\ wowNow' = e /\ c.stack = e /\ OnItsStack(c)
  BY <1>0, <1>4, <1>5 DEF WowStacks
<1>10. c.frame \in {0, f - 1} /\ c.frame \in Nat /\ c.used \in Nat
  BY <1>0, <1>4 DEF FramesApart, WowContext
<1>11. \A i \in UsedSlots :
          /\ wowSlots[i].context.frame \in Nat /\ wowSlots[i].context.frame <= f - 1
          /\ c.frame # 0 => wowSlots[i].context.frame # c.frame
  BY <1>0, <1>1, <1>4, SlotFields DEF FramesApart, FramesLocked, LocksHold, Leaves
<1>12. WowTypes'
  <2>1. wowBase' \in Nat
    BY <1>0, FrameFields
  <2> QED
    BY <1>0, <1>2, <1>3, <1>6, <1>9, <2>1 DEF WowTypes, Borrowed
<1>13. WowStacks'
  <2> DEFINE Stays(x) ==
          x.frame # 0 /\ wowFrames'[x.frame].previous = NoTask => wowFrames'[x.frame].entered = x.stack
  <2>1. ASSUME NEW x, x.frame \in Nat, x.frame <= f - 1, OnItsStack(x)
        PROVE  Stays(x)
    BY <1>1, <1>2, <2>1 DEF OnItsStack, Borrowed
  <2>2. \A i \in UsedSlots : Stays(wowSlots[i].context)
    BY <1>0, <1>11, <2>1 DEF WowStacks
  <2>3. ASSUME NEW g \in 1 .. f - 1
        PROVE  Stays(wowFrames[g].saved.context)
    <3>1. g \in Frames /\ wowFrames[g].saved.context.frame \in {0, g - 1} /\ g <= f - 1 /\ g \in Nat
      BY <1>0, <1>1, <1>2 DEF FramesApart
    <3>2. wowFrames[g].saved.context.frame \in Nat /\ wowFrames[g].saved.context.frame <= f - 1
      BY <1>0, <1>1, <3>1, FrameFields
    <3> QED
      BY <1>0, <2>1, <3>1, <3>2 DEF WowStacks
  <2>4. Stays(c)
    BY <1>1, <1>9, <1>10, <2>1
  <2> HIDE DEF Stays
  <2>5. /\ OnItsStack(wowRun)'
        /\ \A i \in UsedSlots' : OnItsStack(wowSlots[i].context)'
        /\ \A g \in Frames' : OnItsStack(wowFrames[g].saved.context)'
    BY <1>2, <1>3, <1>9, <2>2, <2>3, <2>4 DEF Stays, OnItsStack, Borrowed
  <2> QED
    BY <1>0, <1>2, <1>3, <1>9, <2>5 DEF WowStacks
<1>14. ParkedOnce'
  BY <1>0, <1>2, <1>3, <1>5, <1>6, <1>7, <1>8, <1>9 DEF ParkedOnce
<1>15. FramesApart'
  BY <1>0, <1>2, <1>3, <1>9, <1>10, <1>11 DEF FramesApart
<1>16. FramesLocked'
  <2>1. ASSUME NEW g \in 1 .. f - 1
        PROVE  LocksHold(g)'
    <3>1. LocksHold(g) /\ f \in g + 1 .. CallDepth
      BY <1>0, <1>1, <1>2 DEF FramesLocked
    <3>2. ASSUME Locked(g)
          PROVE  c.frame = f - 1
      BY <1>4, <3>1, <3>2 DEF LocksHold
    <3>3. ASSUME NEW k \in g + 1 .. f - 1, Locked(g)
          PROVE  /\ wowFrames'[k].saved.context.frame = k - 1
                 /\ (\A h \in g .. k - 1 : ~Borrowed(h)') => wowFrames'[k].entered = wowFrames'[g].entered
      <4>1. k \in 1 .. f - 1 /\ k \in g + 1 .. CallDepth /\ \A h \in g .. k - 1 : h \in 1 .. f - 1
        BY <1>1, <3>3
      <4> QED
        BY <1>2, <1>6, <3>1, <3>3, <4>1 DEF LocksHold
    <3> QED
      BY <1>2, <1>3, <1>6, <1>9, <3>1, <3>2, <3>3 DEF LocksHold
  <2> QED
    BY <1>2, <2>1 DEF FramesLocked
<1>17. WowBases'
  <2>1. e # wowShell /\ ~Under(f) => Based(c.frame, wowBase', f - 1)
    BY <1>0, <1>4, <1>5 DEF WowBases
  <2>2. \A g \in 1 .. f - 1 :
          wowFrames[g].entered # wowShell /\ ~Under(g) =>
             Based(wowFrames[g].saved.context.frame, wowFrames[g].saved.base, g - 1)
    BY <1>0, <1>2 DEF WowBases
  <2>3. \A i \in UsedSlots' : ParkedWell(wowSlots[i])'
    BY <1>0, <1>3 DEF WowBases, ParkedWell
  <2> QED
    BY <1>2, <1>6, <1>7, <1>8, <1>9, <2>1, <2>2, <2>3 DEF WowBases
<1>18. SavedInOrder'
  <2>1. \A i \in UsedSlots : wowSlots[i].task = e => wowSlots[i].context.used < c.used
    BY <1>0, <1>4, <1>5 DEF SavedInOrder
  <2>2. \A g \in 1 .. f - 1 : wowFrames[g].entered = e => wowFrames[g].saved.context.used < c.used
    BY <1>0, <1>2, <1>4, <1>5 DEF SavedInOrder
  <2>3. /\ \A g, h \in 1 .. f - 1 :
              h < g /\ wowFrames[h].entered = wowFrames[g].entered =>
                 wowFrames[h].saved.context.used < wowFrames[g].saved.context.used
        /\ \A g \in 1 .. f - 1, i \in UsedSlots :
              wowSlots[i].task = wowFrames[g].entered =>
                 IF Under(g) THEN wowSlots[i].context.used < wowFrames[g].saved.context.used
                 ELSE wowFrames[g].saved.context.used < wowSlots[i].context.used
    BY <1>0, <1>2 DEF SavedInOrder
  <2> QED
    BY <1>2, <1>3, <1>7, <1>9, <2>1, <2>2, <2>3 DEF SavedInOrder
<1> QED
  BY <1>12, <1>13, <1>14, <1>15, <1>16, <1>17, <1>18 DEF WowInv

LEMMA FiniteImage ==
    ASSUME NEW S, IsFiniteSet(S), NEW f
    PROVE  IsFiniteSet({f[x] : x \in S})
<1> DEFINE T == {f[x] : x \in S}
           g == [x \in S |-> f[x]]
<1>1. g \in Surjection(S, T)
  BY DEF Surjection
<1> HIDE DEF T, g
<1>2. IsFiniteSet(T)
  BY <1>1, FS_Surjection
<1> QED
  BY <1>2 DEF T

(* A borrowed stack is used below everything that is saved on it.          *)
LEMMA RetargetIs ==
    ASSUME WowInv, WowAssumption, NEW owner, NEW r \in WowSchedRetarget(owner)
    PROVE  /\ owner # wowNow /\ WowSchedRetarget(owner) = {r}
           /\ r.stack = owner /\ r.used \in Nat
           /\ \A i \in UsedSlots : wowSlots[i].task = owner => wowSlots[i].context.used < r.used
           /\ \A g \in Frames : wowFrames[g].entered = owner => wowFrames[g].saved.context.used < r.used
<1> DEFINE contexts == KnownContexts(owner)
           stacks == {c.stack : c \in contexts}
           uses == {c.used : c \in contexts} \cup {0}
           slots == {i \in UsedSlots : wowSlots[i].task = owner}
           frames == {g \in Frames : wowFrames[g].entered = owner}
<1>0. WowTypes /\ WowStacks /\ CallDepth \in Nat
  BY DepthIsNat DEF WowInv
<1>1. contexts = {wowSlots[i].context : i \in slots} \cup {wowFrames[g].saved.context : g \in frames}
  <2>1. {j \in SlotIds : wowSlots[j].used /\ wowSlots[j].task = owner} = slots
    BY DEF UsedSlots
  <2> QED
    BY <2>1 DEF KnownContexts, Frames
<1> HIDE DEF contexts
<1>2. /\ owner # wowNow /\ Cardinality(stacks) = 1
      /\ WowSchedRetarget(owner) = {[stack |-> CHOOSE s \in stacks : TRUE, used |-> Max(uses) + 1]}
  BY DEF WowSchedRetarget, contexts
<1>3. \A c \in contexts : c.stack = owner
  BY <1>0, <1>1 DEF WowStacks
<1>4. stacks = {owner}
  <2>1. stacks # {}
    <3> HIDE DEF stacks
    <3> QED BY <1>2, FS_EmptySet
  <2> QED
    BY <1>3, <2>1
<1>5. uses \in SUBSET Nat
  BY <1>0, <1>1, SlotFields, FrameFields
<1>6. IsFiniteSet(uses)
  <2> DEFINE fs == [i \in slots |-> wowSlots[i].context.used]
             ff == [g \in frames |-> wowFrames[g].saved.context.used]
  <2>1. IsFiniteSet(slots) /\ IsFiniteSet(frames)
    <3>1. IsFiniteSet(SlotIds) /\ IsFiniteSet(Frames)
      BY <1>0, FS_Interval DEF SlotIds, Frames, WowAssumption
    <3>2. slots \in SUBSET SlotIds /\ frames \in SUBSET Frames
      BY DEF UsedSlots
    <3> HIDE DEF slots, frames
    <3> QED
      BY <3>1, <3>2, FS_Subset
  <2>2. IsFiniteSet({fs[i] : i \in slots}) /\ IsFiniteSet({ff[g] : g \in frames})
    <3> HIDE DEF slots, frames, fs, ff
    <3> QED BY <2>1, FiniteImage
  <2>3. uses = ({fs[i] : i \in slots} \cup {ff[g] : g \in frames}) \cup {0}
    <3>1. {fs[i] : i \in slots} = {wowSlots[i].context.used : i \in slots}
      OBVIOUS
    <3>2. {ff[g] : g \in frames} = {wowFrames[g].saved.context.used : g \in frames}
      OBVIOUS
    <3>3. {c.used : c \in contexts} =
             {wowSlots[i].context.used : i \in slots} \cup {wowFrames[g].saved.context.used : g \in frames}
      <4> HIDE DEF slots, frames, fs, ff
      <4> QED
        BY <1>1
    <3> HIDE DEF slots, frames, fs, ff
    <3> QED
      BY <3>1, <3>2, <3>3
  <2> HIDE DEF uses, slots, frames, fs, ff
  <2> QED
    BY <2>2, <2>3, FS_Union, FS_Singleton
<1>7. Max(uses) \in uses /\ \A y \in uses : y <= Max(uses)
  <2>1. uses # {}
    OBVIOUS
  <2> HIDE DEF uses
  <2> QED BY <1>5, <1>6, <2>1, GreatestIn
<1>8. r = [stack |-> CHOOSE s \in stacks : TRUE, used |-> Max(uses) + 1]
  BY <1>2
<1>9. r.stack = owner /\ r.used = Max(uses) + 1
  BY <1>4, <1>8
<1>10. /\ \A i \in slots : wowSlots[i].context.used \in uses
       /\ \A g \in frames : wowFrames[g].saved.context.used \in uses
  BY <1>1
<1>11. Max(uses) \in Nat /\ \A y \in uses : y \in Nat /\ y < Max(uses) + 1
  <2> HIDE DEF uses
  <2>1. Max(uses) \in Nat /\ \A y \in uses : y \in Nat /\ y <= Max(uses)
    BY <1>5, <1>7
  <2>2. \A m, y \in Nat : y <= m => y < m + 1
    OBVIOUS
  <2> QED
    BY <2>1, <2>2
<1> HIDE DEF uses
<1> QED
  BY <1>2, <1>8, <1>9, <1>10, <1>11

LEMMA CallStep ==
    ASSUME WowInv, WowAssumption, NEW owner \in wowTasks, NEW sync \in BOOLEAN, WowCallEnter(owner, sync)
    PROVE  WowInv'
<1> DEFINE target == WowSchedRetarget(owner)
           where == IF target # {} THEN CHOOSE r \in target : TRUE
                    ELSE [stack |-> wowRun.stack, used |-> wowRun.used + 1]
           frame == [saved |-> WowSchedSave(wowRun, NoTask), entered |-> wowNow,
                     previous |-> IF target # {} THEN wowNow ELSE NoTask, sync |-> sync]
<1>0. WowTypes
  BY DEF WowInv
<1>1. /\ CallDepth \in Nat /\ wowRun \in WowContext /\ wowBase \in Nat
      /\ wowRun.stack \in Nat /\ wowRun.used \in Nat
      /\ wowNow \in TasksBorn /\ wowNow \in Nat /\ owner \in TasksBorn /\ owner \in Nat
  BY <1>0, DepthIsNat DEF WowTypes, TasksBorn
<1>2. /\ wowFrames' = Append(wowFrames, frame)
      /\ wowRun' = [stack |-> where.stack, used |-> where.used, frame |-> CallDepth + 1]
      /\ wowNow' = IF target # {} THEN owner ELSE wowNow
      /\ UNCHANGED <<wowTasks, wowBorn, wowBase, wowSlots, wowCursor, wowShell>>
  BY DEF WowCallEnter
<1>3. /\ frame \in WowFrame /\ frame.entered = wowNow /\ frame.saved.context = wowRun
      /\ frame.saved.base = wowBase /\ frame.previous = IF target # {} THEN wowNow ELSE NoTask
  <2>1. NoTask \in Nat
    BY DEF NoTask
  <2>2. PICK kept \in ParkedTask : kept = WowSchedSave(wowRun, NoTask) /\ kept.context = wowRun /\ kept.base = wowBase
    BY <1>1, <2>1, SavedFields
  <2>3. PICK previous \in Nat : previous = IF target # {} THEN wowNow ELSE NoTask
    BY <1>1, <2>1
  <2> HIDE DEF target
  <2>4. frame = [saved |-> kept, entered |-> wowNow, previous |-> previous, sync |-> sync]
    BY <2>2, <2>3
  <2> HIDE DEF frame
  <2> QED
    BY <1>1, <2>2, <2>3, <2>4 DEF WowFrame
<1> HIDE DEF frame
<1>4. /\ wowRun' \in WowContext /\ wowRun'.frame = CallDepth + 1
      /\ \/ Borrows(owner, frame)
         \/ /\ frame.previous = NoTask
            /\ wowRun'.stack = wowRun.stack /\ wowRun'.used = wowRun.used + 1 /\ wowNow' = wowNow
  <2>1. CASE target # {}
    <3>1. PICK r \in WowSchedRetarget(owner) : TRUE
      BY <2>1
    <3>2. /\ owner # wowNow /\ target = {r} /\ r.stack = owner /\ r.used \in Nat
          /\ \A i \in UsedSlots : wowSlots[i].task = owner => wowSlots[i].context.used < r.used
          /\ \A g \in Frames : wowFrames[g].entered = owner => wowFrames[g].saved.context.used < r.used
      BY <3>1, RetargetIs
    <3> HIDE DEF target
    <3>3. where = r
      BY <3>2
    <3> HIDE DEF where
    <3>4. /\ wowRun' \in WowContext /\ wowRun'.frame = CallDepth + 1
          /\ wowRun'.stack = owner /\ wowRun'.used = r.used /\ wowNow' = owner
      <4>1. wowRun' = [stack |-> owner, used |-> r.used, frame |-> CallDepth + 1]
        BY <1>2, <3>2, <3>3
      <4>2. owner \in Nat /\ r.used \in Nat /\ CallDepth + 1 \in Nat
        BY <1>1, <3>2
      <4>3. wowNow' = owner
        BY <1>2, <2>1
      <4> QED
        BY <4>1, <4>2, <4>3 DEF WowContext
    <3> QED
      BY <1>1, <1>3, <2>1, <3>2, <3>4 DEF Borrows
  <2>2. CASE target = {}
    <3> HIDE DEF target
    <3>1. where = [stack |-> wowRun.stack, used |-> wowRun.used + 1]
      BY <2>2
    <3> HIDE DEF where
    <3>2. wowRun' = [stack |-> wowRun.stack, used |-> wowRun.used + 1, frame |-> CallDepth + 1]
      BY <1>2, <3>1
    <3> QED
      BY <1>1, <1>2, <1>3, <2>2, <3>2 DEF WowContext
  <2> QED
    BY <2>1, <2>2
<1>5. Grown(frame, CallDepth + 1)
  BY <1>0, <1>2, <1>3, PushFrame
<1> HIDE DEF target, where
<1>6. PICK top \in Nat : top = CallDepth + 1
  BY <1>1
<1> QED
  BY <1>2, <1>3, <1>4, <1>5, <1>6, EnterFrame

(* A switch puts what is kept of the running task where the other was.     *)
LEMMA SwapStep ==
    ASSUME WowInv, NEW i \in UsedSlots, \A f \in Frames : ~Locked(f), FitsHere(wowSlots[i]),
           NEW parked, GivesWay(parked), Swap(i, parked), wowCursor' \in SlotIds,
           UNCHANGED <<wowFrames, wowBorn, wowShell, wowTasks>>
    PROVE  WowInv'
<1>1. /\ wowSlots \in [SlotIds -> {FreeSlot} \cup ParkedTask] /\ wowTasks \subseteq TasksBorn
      /\ i \in SlotIds /\ parked \in ParkedTask
  BY DEF WowInv, WowTypes, UsedSlots, GivesWay
<1>2. wowSlots' = [wowSlots EXCEPT ![i] = parked] /\ Resume(wowSlots[i])
  BY DEF Swap
<1>3. /\ wowSlots' \in [SlotIds -> {FreeSlot} \cup ParkedTask] /\ wowSlots'[i] = parked
      /\ \A j \in SlotIds : j # i => wowSlots'[j] = wowSlots[j]
  BY <1>1, <1>2
<1> QED
  BY <1>1, <1>2, <1>3, ResumeStep

LEMMA NoLocks ==
    ASSUME WowInv, wowRun.frame = 0 \/ (~HostNested /\ ~WowSchedInterTaskLive)
    PROVE  \A f \in Frames : ~Locked(f)
<1>1. CASE wowRun.frame = 0
  BY <1>1, DepthIsNat DEF WowInv, FramesLocked, LocksHold, Frames
<1>2. CASE ~HostNested /\ ~WowSchedInterTaskLive
  BY <1>2 DEF HostNested, WowSchedInterTaskLive, Locked, Borrowed, Frames
<1> QED
  BY <1>1, <1>2

(* A task that is not the shell and is parked in a call may be resumed     *)
(* where it is.                                                            *)
LEMMA KeptHere ==
    ASSUME WowInv, wowNow # wowShell, \A f \in Frames : ~Locked(f), NEW flagged \in ParkedTask,
           flagged.context = wowRun, flagged.task = wowNow, flagged.base = wowBase,
           flagged.depth = CallDepth, ~flagged.fresh, flagged.waiting \/ flagged.runnable
    PROVE  GivesWay(flagged)
<1>1. Based(wowRun.frame, wowBase, CallDepth)
  BY DEF WowInv, WowBases, Locked
<1>2. wowRun.frame \in {0, CallDepth}
  BY DEF WowInv, FramesApart
<1> QED
  BY <1>1, <1>2 DEF GivesWay

LEMMA LaunchedFirstStep ==
    ASSUME WowInv, LaunchedFirst
    PROVE  WowInv'
<1> DEFINE kept == WowSchedSave(wowRun, wowNow)
           parked == [kept EXCEPT !.runnable = TRUE, !.depth = CallDepth]
<1>0. WowTypes /\ CallDepth \in Nat /\ wowRun \in WowContext /\ wowBase \in Nat /\ wowNow \in Nat
  BY DepthIsNat DEF WowInv, WowTypes, TasksBorn
<1>1. PICK i \in SlotIds :
          wowSlots[i].used /\ wowSlots[i].fresh /\ Swap(i, parked)
  BY DEF LaunchedFirst
<1>2. \A f \in Frames : ~Locked(f)
  BY NoLocks DEF LaunchedFirst, MayRunFirst
<1>3. i \in UsedSlots /\ FitsHere(wowSlots[i])
  BY <1>1 DEF UsedSlots, FitsHere, WowSchedTopLevel
<1>4. /\ parked \in ParkedTask /\ parked.context = wowRun /\ parked.task = wowNow
      /\ parked.base = wowBase /\ parked.depth = CallDepth /\ ~parked.fresh /\ parked.runnable
  <2>1. kept \in ParkedTask
    BY <1>0, SavedFields
  <2>2. parked \in ParkedTask
    <3> HIDE DEF kept
    <3>1. PICK q \in ParkedTask : q = [kept EXCEPT !.runnable = TRUE]
      BY <2>1, FlagFields
    <3>2. parked = [q EXCEPT !.depth = CallDepth]
      BY <3>1
    <3> QED
      BY <1>0, <3>1, <3>2, DepthField
  <2>3. /\ parked.context = wowRun /\ parked.task = wowNow
        /\ parked.base = wowBase /\ parked.depth = CallDepth /\ ~parked.fresh /\ parked.runnable
    BY SMT DEF WowSchedSave
  <2> QED
    BY <2>2, <2>3
<1> HIDE DEF parked
<1>5. GivesWay(parked)
  BY <1>2, <1>4, KeptHere DEF LaunchedFirst, MayRunFirst
<1>6. wowCursor' \in SlotIds /\ UNCHANGED <<wowFrames, wowBorn, wowShell, wowTasks>>
  BY <1>0 DEF LaunchedFirst, WowTypes
<1> QED
  BY <1>1, <1>2, <1>3, <1>5, <1>6, SwapStep

LEMMA YieldStep ==
    ASSUME WowInv, WowAssumption, GetMessageYields
    PROVE  WowInv'
<1> DEFINE kept == WowSchedSave(wowRun, wowNow)
           parked == [kept EXCEPT !.waiting = TRUE, !.depth = CallDepth]
           runnable == WowSchedRunnable(wowNow, CallDepth)
<1>0. WowTypes /\ CallDepth \in Nat /\ wowRun \in WowContext /\ wowBase \in Nat /\ wowNow \in Nat
  BY DepthIsNat DEF WowInv, WowTypes, TasksBorn
<1>1. runnable # {} /\ Swap(Min(runnable), parked)
  BY DEF GetMessageYields
<1>2. \A f \in Frames : ~Locked(f)
  BY NoLocks DEF GetMessageYields
<1>3. PICK i \in runnable : i = Min(runnable)
  <2>1. runnable \in SUBSET Nat
    BY DEF WowSchedRunnable, Parked, SlotIds, WowAssumption
  <2> HIDE DEF runnable
  <2> QED
    BY <1>1, <2>1, LeastIn
<1>4. i \in UsedSlots /\ FitsHere(wowSlots[i])
  BY DEF WowSchedRunnable, Parked, UsedSlots, FitsHere, WowSchedTopLevel
<1>5. /\ parked \in ParkedTask /\ parked.context = wowRun /\ parked.task = wowNow
      /\ parked.base = wowBase /\ parked.depth = CallDepth /\ ~parked.fresh /\ parked.waiting
  <2>1. kept \in ParkedTask
    BY <1>0, SavedFields
  <2>2. parked \in ParkedTask
    <3> HIDE DEF kept
    <3>1. PICK q \in ParkedTask : q = [kept EXCEPT !.waiting = TRUE]
      BY <2>1, FlagFields
    <3>2. parked = [q EXCEPT !.depth = CallDepth]
      BY <3>1
    <3> QED
      BY <1>0, <3>1, <3>2, DepthField
  <2>3. /\ parked.context = wowRun /\ parked.task = wowNow
        /\ parked.base = wowBase /\ parked.depth = CallDepth /\ ~parked.fresh /\ parked.waiting
    BY SMT DEF WowSchedSave
  <2> QED
    BY <2>2, <2>3
<1> HIDE DEF parked, runnable
<1>6. GivesWay(parked)
  BY <1>2, <1>5, KeptHere DEF GetMessageYields
<1>7. wowCursor' \in SlotIds /\ UNCHANGED <<wowFrames, wowBorn, wowShell, wowTasks>>
  BY <1>0 DEF GetMessageYields, WowTypes
<1>8. Swap(i, parked)
  BY <1>1, <1>3
<1> QED
  BY <1>2, <1>4, <1>6, <1>7, <1>8, SwapStep

LEMMA WaitStep ==
    ASSUME WowInv, WowAssumption, WaitForMsgAndEvent, FitsHere(wowSlots[WowSchedPick(wowNow)])
    PROVE  WowInv'
<1> DEFINE parked == WowSchedSave(wowRun, wowNow)
<1>0. /\ WowTypes /\ CallDepth \in Nat /\ wowRun \in WowContext /\ wowBase \in Nat /\ wowNow \in Nat
      /\ wowCursor \in SlotIds
  BY DepthIsNat DEF WowInv, WowTypes, TasksBorn
<1>1. PICK i \in Parked(wowNow) : i = WowSchedPick(wowNow)
  BY <1>0, PickIsParked DEF WaitForMsgAndEvent
<1>2. /\ wowCursor' = i /\ Swap(i, parked) /\ wowRun.frame = 0 /\ wowNow = wowShell
      /\ UNCHANGED <<wowFrames, wowBorn, wowShell, wowTasks>>
  BY <1>1 DEF WaitForMsgAndEvent
<1>3. i \in UsedSlots /\ i \in SlotIds
  BY DEF Parked, UsedSlots
<1>4. /\ parked \in ParkedTask /\ parked.context = wowRun /\ parked.task = wowNow
      /\ ~parked.fresh /\ ~parked.waiting /\ ~parked.runnable
  BY <1>0, SavedFields
<1> HIDE DEF parked
<1>5. GivesWay(parked)
  BY <1>2, <1>4 DEF GivesWay
<1> QED
  BY <1>1, <1>2, <1>3, <1>5, NoLocks, SwapStep

LEMMA RetireStep ==
    ASSUME WowInv, WowAssumption, Retire, FitsHere(wowSlots[WowSchedPick(NoTask)])
    PROVE  WowInv'
<1>0. /\ WowTypes /\ wowSlots \in [SlotIds -> {FreeSlot} \cup ParkedTask] /\ wowTasks \subseteq TasksBorn
      /\ wowCursor \in SlotIds
  BY DEF WowInv, WowTypes
<1>1. PICK i \in Parked(NoTask) : i = WowSchedPick(NoTask)
  BY <1>0, PickIsParked DEF Retire
<1>2. /\ wowCursor' = i /\ wowRun.frame = 0 /\ wowSlots' = [wowSlots EXCEPT ![i] = FreeSlot]
      /\ wowShell' = IF wowShell = NoTask THEN wowSlots[i].task ELSE wowShell
      /\ Resume(wowSlots[i]) /\ wowTasks' = wowTasks \ {wowNow}
      /\ UNCHANGED <<wowFrames, wowBorn>>
  BY <1>1 DEF Retire, MayRetire
<1>3. i \in UsedSlots /\ i \in SlotIds
  BY DEF Parked, UsedSlots
<1>4. /\ wowSlots' \in [SlotIds -> {FreeSlot} \cup ParkedTask] /\ ~wowSlots'[i].used
      /\ \A j \in SlotIds : j # i => wowSlots'[j] = wowSlots[j]
  <2>1. ~FreeSlot.used
    BY DEF FreeSlot
  <2> QED
    BY <1>0, <1>2, <1>3, <2>1
<1>5. wowTasks' \subseteq TasksBorn
  BY <1>0, <1>2
<1> QED
  BY <1>1, <1>2, <1>3, <1>4, <1>5, NoLocks, ResumeStep

LEMMA LeaveToStep ==
    ASSUME WowInv, NEW f \in Frames, Leaves(f), LeaveTo(f),
           UNCHANGED <<wowTasks, wowBorn, wowSlots, wowCursor, wowShell>>
    PROVE  WowInv'
<1>1. /\ wowRun' = wowFrames[f].saved.context /\ wowBase' = wowFrames[f].saved.base
      /\ wowFrames' = SubSeq(wowFrames, 1, f - 1)
  BY DEF LeaveTo
<1>2. Cut(f)
  BY <1>1, CutFrames DEF WowInv
<1> QED
  BY <1>1, <1>2, BackToEntered, LeaveStep

LEMMA CallLeaveStep ==
    ASSUME WowInv, WowCallLeave
    PROVE  WowInv'
<1>1. /\ wowRun.frame # 0 /\ LeaveTo(CallDepth)
      /\ UNCHANGED <<wowTasks, wowBorn, wowSlots, wowCursor, wowShell>>
  BY DEF WowCallLeave
<1>2. wowRun.frame \in {0, CallDepth} /\ CallDepth \in Nat
  BY DepthIsNat DEF WowInv, FramesApart
<1>3. PICK f \in Frames : f = CallDepth
  BY <1>1, <1>2 DEF Frames
<1>4. LeaveTo(f)
  BY <1>1, <1>3
<1> QED
  BY <1>1, <1>3, <1>4, LeaveToStep DEF Leaves

LEMMA GivesUpStep ==
    ASSUME WowInv, SyncGivesUp
    PROVE  WowInv'
<1> DEFINE syncs == {f \in 1 .. CallDepth : wowFrames[f].sync}
<1>0. CallDepth \in Nat
  BY DepthIsNat DEF WowInv
<1>1. /\ syncs # {} /\ LeaveTo(Max(syncs))
      /\ UNCHANGED <<wowTasks, wowBorn, wowSlots, wowCursor, wowShell>>
  BY DEF SyncGivesUp
<1>2. PICK f \in syncs : f = Max(syncs)
  <2>1. syncs \in SUBSET Nat /\ syncs \in SUBSET (1 .. CallDepth)
    BY <1>0
  <2> HIDE DEF syncs
  <2>2. IsFiniteSet(syncs)
    <3>1. IsFiniteSet(1 .. CallDepth)
      BY <1>0, FS_Interval
    <3> QED
      BY <2>1, <3>1, FS_Subset
  <2> QED
    BY <1>1, <2>1, <2>2, GreatestIn
<1>3. f \in Frames /\ Leaves(f)
  BY DEF Frames, Leaves, Locked
<1> HIDE DEF syncs
<1>4. LeaveTo(f)
  BY <1>1, <1>2
<1> QED
  BY <1>1, <1>3, <1>4, LeaveToStep

LEMMA SameTasks ==
    ASSUME WowInv,
           UNCHANGED <<wowTasks, wowBorn, wowNow, wowRun, wowBase, wowSlots, wowCursor, wowFrames, wowShell>>
    PROVE  WowInv'
<1>1. /\ CallDepth' = CallDepth /\ Frames' = Frames /\ TasksBorn' = TasksBorn /\ UsedSlots' = UsedSlots
      /\ \A f : (Borrowed(f)' <=> Borrowed(f)) /\ (Under(f)' <=> Under(f))
      /\ \A c : OnItsStack(c)' <=> OnItsStack(c)
  BY DEF CallDepth, Frames, TasksBorn, UsedSlots, Borrowed, Under, OnItsStack
<1>2. \A f : LocksHold(f)' <=> LocksHold(f)
  BY <1>1 DEF LocksHold, Locked, Borrowed
<1>3. \A s : ParkedWell(s)' <=> ParkedWell(s)
  BY DEF ParkedWell
<1>4. WowTypes' /\ WowStacks' /\ ParkedOnce'
  BY <1>1 DEF WowInv, WowTypes, WowStacks, ParkedOnce
<1>5. FramesApart' /\ FramesLocked' /\ WowBases' /\ SavedInOrder'
  BY <1>1, <1>2, <1>3 DEF WowInv, FramesApart, FramesLocked, WowBases, SavedInOrder
<1> QED
  BY <1>4, <1>5 DEF WowInv

LEMMA WowKeeps ==
    ASSUME WowInv, WowAssumption, [WowNext]_wowVars, RoundRobinFits
    PROVE  WowInv'
<1>1. CASE Launch
  BY <1>1, LaunchStep
<1>2. CASE LaunchedFirst
  BY <1>2, LaunchedFirstStep
<1>3. CASE LaunchedWaits
  BY <1>3, SameTasks DEF LaunchedWaits
<1>4. CASE WaitForMsgAndEvent
  BY <1>4, WaitStep DEF RoundRobinFits
<1>5. CASE GetMessage
  BY <1>5, SameTasks DEF GetMessage
<1>6. CASE GetMessageYields
  BY <1>6, YieldStep
<1>7. ASSUME NEW t \in WowTaskIds, PostMessage(t)
      PROVE  WowInv'
  BY <1>7, SameTasks DEF PostMessage
<1>8. CASE WowDlgPush
  BY <1>8, SameTasks DEF WowDlgPush
<1>9. CASE WowDlgUnwind
  BY <1>9, SameTasks DEF WowDlgUnwind
<1>10. CASE Retire
  BY <1>10, RetireStep DEF RoundRobinFits
<1>11. ASSUME NEW owner \in wowTasks, NEW sync \in BOOLEAN, WowCallEnter(owner, sync)
       PROVE  WowInv'
  BY <1>11, CallStep
<1>12. CASE WowCallLeave
  BY <1>12, CallLeaveStep
<1>13. CASE SyncGivesUp
  BY <1>13, GivesUpStep
<1>14. CASE UNCHANGED wowVars
  BY <1>14, SameTasks DEF wowVars
<1> QED
  BY <1>1, <1>2, <1>3, <1>4, <1>5, <1>6, <1>7, <1>8, <1>9, <1>10, <1>11, <1>12, <1>13, <1>14 DEF WowNext

(* Whatever tasks a session creates, and wherever they end, open dialogs   *)
(* or call each other: if the round robin of moments C and D resumes no    *)
(* task in the middle of a callback, or of its launch, at another depth    *)
(* than it left, then code in a callback runs in the newest frame.  Every  *)
(* other moment at which a task is switched sees to that itself.           *)
THEOREM CallbacksStayLifo ==
    WowSpec /\ [][RoundRobinFits]_wowVars => []CallbacksLifo
<1>1. WowInit => WowInv
  BY WowStart
<1>2. WowInv /\ [WowNext]_wowVars /\ [RoundRobinFits]_wowVars => WowInv'
  <2>1. CASE UNCHANGED wowVars
    BY <2>1, SameTasks DEF wowVars
  <2> QED
    BY <2>1, WowKeeps, WowAssumption
<1>3. WowInv => CallbacksLifo
  BY DEF WowInv, FramesApart, CallbacksLifo
<1> QED
  BY <1>1, <1>2, <1>3, PTL DEF WowSpec

(* Under the same condition nothing saved, of a parked task or of an       *)
(* interrupted one, lies where the running code pushes.                    *)
THEOREM StacksStayApart ==
    WowSpec /\ [][RoundRobinFits]_wowVars => []StacksApart
<1>1. WowInit => WowInv
  BY WowStart
<1>2. WowInv /\ [WowNext]_wowVars /\ [RoundRobinFits]_wowVars => WowInv'
  <2>1. CASE UNCHANGED wowVars
    BY <2>1, SameTasks DEF wowVars
  <2> QED
    BY <2>1, WowKeeps, WowAssumption
<1>3. WowInv => StacksApart
  <2> SUFFICES ASSUME WowInv PROVE StacksApart
    OBVIOUS
  <2>1. /\ \A i \in UsedSlots : wowSlots[i].context.stack = wowRun.stack => wowSlots[i].context.used < wowRun.used
        /\ \A g \in Frames :
              wowFrames[g].saved.context.stack = wowRun.stack => wowFrames[g].saved.context.used < wowRun.used
    BY DEF WowInv, WowStacks, SavedInOrder
  <2> QED
    BY <2>1 DEF StacksApart, UsedSlots, Frames
<1> QED
  BY <1>1, <1>2, <1>3, PTL DEF WowSpec

(* And krnl386 believes current the task on whose stack the code runs.     *)
THEOREM CurrentStaysRight ==
    WowSpec /\ [][RoundRobinFits]_wowVars => []CurrentFollows
<1>1. WowInit => WowInv
  BY WowStart
<1>2. WowInv /\ [WowNext]_wowVars /\ [RoundRobinFits]_wowVars => WowInv'
  <2>1. CASE UNCHANGED wowVars
    BY <2>1, SameTasks DEF wowVars
  <2> QED
    BY <2>1, WowKeeps, WowAssumption
<1>3. WowInv => CurrentFollows
  BY DEF WowInv, WowStacks, CurrentFollows
<1> QED
  BY <1>1, <1>2, <1>3, PTL DEF WowSpec

=============================================================================
