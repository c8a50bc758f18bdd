----------------------------- MODULE DosHandles -----------------------------
(***************************************************************************)
(* DOS file handles (dos_int21.c, dos_fh.h).  One table of host handles    *)
(* serves the running program; EXEC pushes the parent's table and the      *)
(* child works on a copy.  What a program can see is its PSP's job file    *)
(* table (JFT), and a shell redirects by editing that: EXEC applies what   *)
(* the program changed since DOS last wrote it.                            *)
(***************************************************************************)
EXTENDS Integers, SequencesExt

CONSTANTS
    MaxFiles,       \* DOS_MAX_FILES
    DevSlots,       \* DOS_DEV_SLOTS
    StdHandles,     \* DOS_INT21_STD_HANDLES
    HostHandles,    \* the values a Win32 handle can have, none of them 0
    SftIndexes,     \* DOS_INT21_SFT_FIRST_HOST .. DOS_INT21_SFT_LAST - 1
    Files,          \* the files there are
    HandleStackDepth,   \* DOS_HANDLE_STACK_DEPTH
    HandleGuests,   \* how programs redirect (see MayClose)
    MaxPrograms,    \* bound: programs running at once
    HandleCalls     \* bound: calls of all programs

Slots == 0 .. MaxFiles - 1

Con    == 1     \* DOS_DEVICE_CON, also its JFT value
Prn    == 2     \* DOS_DEVICE_PRN
Closed == 255   \* DOS_PSP_JFT_CLOSED

ASSUME HandlesAssumption ==
    /\ MaxFiles \in Nat /\ DevSlots \in 0 .. MaxFiles /\ StdHandles \in 0 .. DevSlots
    /\ 0 \notin HostHandles /\ HostHandles \subseteq Nat
    /\ SftIndexes # {} /\ SftIndexes \subseteq Prn + 1 .. Closed - 1
    /\ Files \cap {Con, Prn, Closed} = {}
    /\ HandleStackDepth \in Nat /\ MaxPrograms \in Nat \ {0}
    /\ HandleGuests \subseteq {"duplicates", "redirects", "redirectsAndCloses"}

VARIABLES
    handleGuest,    \* which of HandleGuests the programs are
    table,      \* the running program's: FileHandles, StdOpen, DeviceKind, JftKnown
    saved,      \* HandleStack
    depth,      \* HandleDepth
    sftHost,    \* SftHost
    jfts,       \* the JFT of every running program, the current one last
    host,       \* the open Win32 handles and their files
    leftBehind, \* host handles programs that stayed resident left open
    redirects,  \* per program: the JFT entry it moved, to be put back
    meant,      \* what every program put into its JFT entries
    handleCalls \* calls left

handleVars == <<handleGuest, table, saved, depth, sftHost, jfts, host, leftBehind, redirects, meant, handleCalls>>

Jft == Last(jfts)

DosDeviceDefault(h) == IF h = StdHandles - 1 THEN Prn ELSE Con

HandlesInit ==
    LET std == [h \in Slots |-> IF h < StdHandles THEN DosDeviceDefault(h) ELSE Closed]
    IN /\ handleGuest \in HandleGuests
       /\ table = [fh |-> [h \in Slots |-> 0], std |-> 0 .. StdHandles - 1,
                   kind |-> [h \in Slots |-> DosDeviceDefault(h)], known |-> std]
       /\ saved = <<>>
       /\ depth = 0
       /\ sftHost = [v \in SftIndexes |-> 0]
       /\ jfts = <<std>>
       /\ host = [x \in {} |-> x]
       /\ leftBehind = {}
       /\ redirects = <<{}>>
       /\ meant = <<std>>
       /\ handleCalls = HandleCalls

(* A shell that moved an entry puts it back before it does anything else.  *)
HandleCall ==
    /\ handleCalls > 0 /\ handleCalls' = handleCalls - 1
    /\ Last(redirects) = {}
    /\ UNCHANGED handleGuest

-----------------------------------------------------------------------------
DosHandleIsFile(t, h) == h \in Slots /\ t.fh[h] # 0

DosHandleIsDevice(t, h) == h < DevSlots /\ t.fh[h] = 0 /\ h \in t.std

(* DosHandleAllocate: MaxFiles when the table is full.                     *)
DosHandleAllocate(t) ==
    Min({h \in Slots : t.fh[h] = 0 /\ ~DosHandleIsDevice(t, h)} \cup {MaxFiles})

(* What a handle is to the program using it.                               *)
Target(t, h) ==
    IF DosHandleIsFile(t, h) THEN host[t.fh[h]]
    ELSE IF DosHandleIsDevice(t, h) THEN t.kind[h] ELSE Closed

DosHandleIsHeldByParent(x) == \E i \in DOMAIN saved : \E h \in Slots : saved[i].fh[h] = x

Without(f, xs) == [x \in DOMAIN f \ xs |-> f[x]]

(* Seeded fault: a child closes its parent's files.                        *)
Released_ParentIgnored(t, h) ==
    IF DosHandleIsFile(t, h) THEN Without(host, {t.fh[h]}) ELSE host

(* DosHandleRelease: the host's handles afterwards.                        *)
Released(t, h) ==
    IF DosHandleIsFile(t, h) /\ ~DosHandleIsHeldByParent(t.fh[h])
    THEN Without(host, {t.fh[h]}) ELSE host

(* DosSftValue: the index a handle has, or gets, in SftHost; a full table  *)
(* forgets all it holds.                                                   *)
SftFor(t, h) ==
    LET x       == t.fh[h]
        holding == {v \in SftIndexes : sftHost[v] = x}
        free    == {v \in SftIndexes : sftHost[v] = 0}
    IN IF ~DosHandleIsFile(t, h)
       THEN [value |-> IF DosHandleIsDevice(t, h) THEN t.kind[h] ELSE Closed, sft |-> sftHost]
       ELSE IF holding # {} THEN [value |-> Min(holding), sft |-> sftHost]
       ELSE IF free # {} THEN [value |-> Min(free), sft |-> [sftHost EXCEPT ![Min(free)] = x]]
       ELSE [value |-> Min(SftIndexes),
             sft |-> [v \in SftIndexes |-> IF v = Min(SftIndexes) THEN x ELSE 0]]

(* DosJftPut, into the program's JFT and what DOS knows of it.             *)
JftPut(t, h, value) ==
    /\ table' = [t EXCEPT !.known[h] = value]
    /\ jfts' = [jfts EXCEPT ![Len(jfts)][h] = value]

Means(h, what) == meant' = [meant EXCEPT ![Len(meant)][h] = what]

Unused == HostHandles \ DOMAIN host

SameHandles == UNCHANGED <<table, saved, depth, sftHost, jfts, host, leftBehind, redirects, meant>>

-----------------------------------------------------------------------------
(* AH=3Ch, 3Dh, 5Ah, 5Bh, 6Ch: the host opens the file first; the JFT is   *)
(* written on the way out of the call.                                     *)
DosOpen ==
    \E file \in Files :
        LET slot == DosHandleAllocate(table)
            new  == Min(Unused)
            t    == [table EXCEPT !.fh[slot] = new]
        IN /\ HandleCall
           /\ Unused # {}
           /\ \/ slot = MaxFiles /\ SameHandles
              \/ /\ slot < MaxFiles
                 /\ host' = [x \in DOMAIN host \cup {new} |-> IF x = new THEN file ELSE host[x]]
                 /\ JftPut(t, slot, SftFor(t, slot).value)
                 /\ sftHost' = SftFor(t, slot).sft
                 /\ Means(slot, file)
                 /\ UNCHANGED <<saved, depth, leftBehind, redirects>>

(* Programs redirect by duplicating handles or, like COMMAND.COM, in the   *)
(* JFT; a child of the latter may close a handle it was given redirected.  *)
MayClose(h) == handleGuest = "redirects" => Len(jfts) = 1 \/ h >= StdHandles

(* AH=3Eh: any handle, a device's slot included.                           *)
DosClose ==
    \E h \in {h \in Slots : MayClose(h)} :
        LET t == IF DosHandleIsFile(table, h) THEN [table EXCEPT !.fh[h] = 0]
                 ELSE [table EXCEPT !.std = @ \ {h}]
        IN /\ HandleCall
           /\ host' = Released(table, h)
           /\ JftPut(t, h, Closed)
           /\ Means(h, Closed)
           /\ UNCHANGED <<saved, depth, sftHost, leftBehind, redirects>>

(* AH=45h and AH=46h once the target is known: a file gets a second host   *)
(* handle, a device only its slot.  The JFT gets the source's index.       *)
Duplicate(source, h) ==
    LET isDevice == DosHandleIsDevice(table, source)
        new      == Min(Unused)
        closed   == Released(table, h)
        t        == IF isDevice
                    THEN [table EXCEPT !.fh[h] = 0, !.std = @ \cup {h}, !.kind[h] = table.kind[source]]
                    ELSE [table EXCEPT !.fh[h] = new, !.std = @ \ {h}]
    IN /\ h < MaxFiles
       /\ isDevice => h < DevSlots
       /\ host' = IF isDevice THEN closed
                  ELSE [x \in DOMAIN closed \cup {new} |-> IF x = new THEN host[table.fh[source]] ELSE closed[x]]
       /\ JftPut(t, h, SftFor(t, source).value)
       /\ sftHost' = SftFor(t, source).sft
       /\ Means(h, Last(meant)[source])
       /\ UNCHANGED <<saved, depth, leftBehind, redirects>>

(* The handles a program has, for the programs that duplicate.             *)
Own == {h \in Slots : handleGuest = "duplicates" /\ Last(meant)[h] # Closed}

DosDup ==
    \E source \in Own :
        /\ HandleCall
        /\ Unused # {}
        /\ DosHandleIsDevice(table, source) \/ DosHandleIsFile(table, source)
        /\ Duplicate(source, DosHandleAllocate(table))

DosDup2 ==
    \E source \in Own, h \in Slots :
        /\ HandleCall
        /\ Unused # {}
        /\ DosHandleIsDevice(table, source) \/ DosHandleIsFile(table, source)
        /\ Duplicate(source, h)

-----------------------------------------------------------------------------
(* DosJftExec: the standard entries the program changed since DOS wrote    *)
(* them, applied to the table; the child's JFT is a copy.                  *)
(* Seeded fault: the last standard handle is never looked at.              *)
Edited_OneShort(t, jft, h) == h + 1 < StdHandles /\ jft[h] # t.known[h]

Edited(t, jft, h) == h < StdHandles /\ jft[h] # t.known[h]

Applied(t, jft) ==
    [t EXCEPT
        !.fh = [h \in Slots |->
                  IF ~Edited(t, jft, h) THEN t.fh[h]
                  ELSE IF jft[h] = Closed \/ jft[h] <= Prn THEN 0
                  ELSE IF sftHost[jft[h]] # 0 THEN sftHost[jft[h]] ELSE t.fh[h]],
        !.std = {h \in Slots :
                  IF Edited(t, jft, h) /\ jft[h] \in {Closed, Con, Prn} THEN jft[h] # Closed ELSE h \in t.std},
        !.kind = [h \in Slots |-> IF Edited(t, jft, h) /\ jft[h] <= Prn THEN jft[h] ELSE t.kind[h]],
        !.known = jft]

(* DosHandlesPush, then DosJftExec.                                        *)
ExecWith(jft, means, undo) ==
    /\ Len(jfts) < MaxPrograms
    /\ saved' = IF depth < HandleStackDepth THEN Append(saved, table) ELSE saved
    /\ depth' = depth + 1
    /\ table' = Applied(table, jft)
    /\ jfts' = Append([jfts EXCEPT ![Len(jfts)] = jft], jft)
    /\ meant' = Append([meant EXCEPT ![Len(meant)] = means], means)
    /\ redirects' = Append([redirects EXCEPT ![Len(redirects)] = undo], {})
    /\ UNCHANGED <<sftHost, host, leftBehind>>

Exec == HandleCall /\ ExecWith(Jft, Last(meant), {})

(* COMMAND.COM's way to redirect a child: it opens the target, moves its   *)
(* JFT entry over a standard one, and runs the child.                      *)
Moved(s, to, from) == [s EXCEPT ![to] = s[from], ![from] = Closed]

ExecRedirected ==
    \E to \in 0 .. StdHandles - 1, from \in StdHandles .. MaxFiles - 1 :
        /\ HandleCall
        /\ handleGuest # "duplicates"
        /\ Last(meant)[from] \in Files
        /\ ExecWith(Moved(Jft, to, from), Moved(Last(meant), to, from),
                    {[to |-> to, from |-> from, entry |-> Jft[to], was |-> Last(meant)[to]]})

(* Back in the shell, it moves the entry back and restores its own.        *)
UndoRedirection ==
    \E u \in Last(redirects) :
        /\ jfts' = [jfts EXCEPT ![Len(jfts)][u.from] = Jft[u.to], ![Len(jfts)][u.to] = u.entry]
        /\ meant' = [meant EXCEPT ![Len(meant)][u.from] = Last(meant)[u.to], ![Len(meant)][u.to] = u.was]
        /\ redirects' = [redirects EXCEPT ![Len(redirects)] = {}]
        /\ UNCHANGED <<handleGuest, table, saved, depth, sftHost, host, leftBehind, handleCalls>>

(* What the program leaves open and no table of a parent's has.            *)
LeftOpen == {x \in {table.fh[h] : h \in Slots} \ {0} : ~DosHandleIsHeldByParent(x)}

(* DosHandlesPop: for a program that ends, and for one that stays resident *)
(* (AH=31h), which keeps its files.                                        *)
DosTerminate(isTsr) ==
    /\ Len(jfts) > 1
    /\ HandleCall
    /\ depth' = depth - 1
    /\ \/ /\ depth > HandleStackDepth           \* matched an unsaved push
          /\ UNCHANGED <<table, saved, host, leftBehind>>
       \/ /\ depth <= HandleStackDepth
          /\ host' = IF isTsr THEN host ELSE Without(host, LeftOpen)
          /\ leftBehind' = IF isTsr THEN leftBehind \cup LeftOpen ELSE leftBehind
          /\ table' = Last(saved)
          /\ saved' = Front(saved)
    /\ jfts' = Front(jfts) /\ meant' = Front(meant) /\ redirects' = Front(redirects)
    /\ UNCHANGED sftHost

HandlesNext ==
    \/ DosOpen
    \/ DosClose
    \/ DosDup
    \/ DosDup2
    \/ Exec
    \/ ExecRedirected
    \/ UndoRedirection
    \/ \E isTsr \in BOOLEAN : DosTerminate(isTsr)

HandlesSpec == HandlesInit /\ [][HandlesNext]_handleVars

-----------------------------------------------------------------------------
(* Whatever children closed, duplicated over or left open: a handle any    *)
(* program's table holds is open on the host, so that a parent always gets *)
(* its files back, and every handle open on the host is in a table or a    *)
(* resident program's.                                                     *)
HostHandlesExact ==
    LET held == (UNION {{t.fh[h] : h \in Slots} : t \in {table} \cup {saved[i] : i \in DOMAIN saved}}) \ {0}
    IN held \cup leftBehind = DOMAIN host

(* A program's standard handles reach what it put into its JFT: what it    *)
(* opened there, or what the shell that started it redirected them to.     *)
StandardHandlesReach ==
    Last(redirects) = {} =>
        \A h \in 0 .. StdHandles - 1 : Target(table, h) = Last(meant)[h]
=============================================================================
