-------------------------------- MODULE Ems --------------------------------
(***************************************************************************)
(* Expanded memory (dos_ems.h, HostEms).  The page frame is ordinary guest *)
(* memory: a window does not show a logical page but holds a copy of it,   *)
(* written back when the window is given another page.  A page's bytes     *)
(* are one value.                                                          *)
(***************************************************************************)
EXTENDS Naturals, Sequences, FiniteSetsExt

CONSTANTS
    EmsHandles,     \* 0 .. DOS_EMS_MAX_HANDLES - 1
    Windows,        \* 0 .. DOS_EMS_PHYSICAL_PAGES - 1
    TotalPages,     \* the pool (EMS_POOL_PAGES)
    PageCounts,     \* what the guest asks for
    PageValues,     \* what it stores; 0 is a fresh page
    EmsGuests,      \* how the guest uses the windows (see MayMap)
    EmsCalls        \* bound: calls of the guest

ASSUME EmsAssumption ==
    /\ EmsHandles \subseteq Nat
    /\ Max(Windows) \in Nat /\ Windows = 0 .. Max(Windows)
    /\ TotalPages \in Nat /\ PageCounts \subseteq Nat /\ 0 \in PageValues
    /\ EmsGuests \subseteq {"onePlace", "restores"}

Unmapped == <<>>

VARIABLES
    emsGuest,   \* which of EmsGuests this guest is
    owners,     \* Handles: InUse, IsMapSaved and SavedMap
    backing,    \* Handles[].Memory, a value per logical page
    usedPages,  \* UsedPages
    shown,      \* PhysicalPages: the handle and page, or Unmapped
    frame,      \* Frame: the bytes in the windows
    stored,     \* what the guest last stored in each logical page
    emsLeft     \* calls left to the guest

emsVars == <<emsGuest, owners, backing, usedPages, shown, frame, stored, emsLeft>>

Unowned == [inUse |-> FALSE, isMapSaved |-> FALSE, savedMap |-> [w \in Windows |-> Unmapped]]

EmsInit ==
    /\ emsGuest \in EmsGuests
    /\ owners = [h \in EmsHandles |-> Unowned]
    /\ backing = [h \in EmsHandles |-> <<>>]
    /\ usedPages = 0
    /\ shown = [w \in Windows |-> Unmapped]
    /\ frame = [w \in Windows |-> 0]
    /\ stored = [h \in EmsHandles |-> <<>>]
    /\ emsLeft = EmsCalls

EmsCall == emsLeft > 0 /\ emsLeft' = emsLeft - 1 /\ UNCHANGED emsGuest

EmsRefused == UNCHANGED <<owners, backing, usedPages, shown, frame, stored>>

DosEmsGetHandle(h) == owners[h].inUse

HasPage(back, h, page) == DosEmsGetHandle(h) /\ page \in DOMAIN back[h]

(* The windows, the frame and the backing store, which a map changes       *)
(* together.                                                               *)
Machine == [shown |-> shown, frame |-> frame, backing |-> backing]

DosEmsWriteBackWindow(m, w) ==
    IF m.shown[w] # Unmapped /\ HasPage(m.backing, m.shown[w][1], m.shown[w][2])
    THEN [m EXCEPT !.backing[m.shown[w][1]][m.shown[w][2]] = m.frame[w]]
    ELSE m

Unmap(m, w) == [DosEmsWriteBackWindow(m, w) EXCEPT !.shown[w] = Unmapped]

(* DosEmsMapPage once its arguments are found valid: out with the old      *)
(* page, in with the new.                                                  *)
CopyIn(m, w, h, page) ==
    LET n == DosEmsWriteBackWindow(m, w)
    IN [n EXCEPT !.frame[w] = n.backing[h][page], !.shown[w] = <<h, page>>]

Becomes(m) == shown' = m.shown /\ frame' = m.frame /\ backing' = m.backing

-----------------------------------------------------------------------------
(* AH=43h: the lowest free handle.  The host may have no memory.           *)
DosEmsAllocatePages ==
    \E n \in PageCounts :
        LET unused == {h \in EmsHandles : ~owners[h].inUse}
            h      == Min(unused)
            fits   == n > 0 /\ n <= TotalPages /\ usedPages + n <= TotalPages /\ unused # {}
        IN /\ EmsCall
           /\ \/ EmsRefused
              \/ /\ fits
                 /\ owners' = [owners EXCEPT ![h] = [Unowned EXCEPT !.inUse = TRUE]]
                 /\ backing' = [backing EXCEPT ![h] = [p \in 1 .. n |-> 0]]
                 /\ stored' = [stored EXCEPT ![h] = [p \in 1 .. n |-> 0]]
                 /\ usedPages' = usedPages + n
                 /\ UNCHANGED <<shown, frame>>

(* A careful guest shows a page in one window only, and so neither maps a  *)
(* page another window holds nor restores a map that would move one; or    *)
(* it restores what it saved, wherever the pages are now.                  *)
ShownElsewhere(w, at) == \E v \in Windows \ {w} : shown[v] = at

MayMap(w, at) == ~ShownElsewhere(w, at)

MayRestore(h) ==
    emsGuest = "onePlace" =>
        \A w \in Windows :
            owners[h].savedMap[w] # Unmapped => ~ShownElsewhere(w, owners[h].savedMap[w])

(* AH=44h, also with the page number that unmaps.                          *)
DosEmsMapPage ==
    \E w \in Windows, h \in EmsHandles, p \in 1 .. TotalPages :
        /\ EmsCall
        /\ MayMap(w, <<h, p>>)
        /\ \/ ~HasPage(backing, h, p) /\ EmsRefused
           \/ /\ HasPage(backing, h, p)
              /\ Becomes(CopyIn(Machine, w, h, p))
              /\ UNCHANGED <<owners, usedPages, stored>>

DosEmsUnmapPage ==
    \E w \in Windows, h \in EmsHandles :
        /\ EmsCall
        /\ DosEmsGetHandle(h)
        /\ Becomes(Unmap(Machine, w))
        /\ UNCHANGED <<owners, usedPages, stored>>

(* AH=45h: windows on the handle's pages are dropped, not written back.    *)
DosEmsDeallocatePages ==
    \E h \in EmsHandles :
        /\ EmsCall
        /\ \/ ~DosEmsGetHandle(h) /\ EmsRefused
           \/ /\ DosEmsGetHandle(h)
              /\ shown' = [w \in Windows |->
                             IF shown[w] # Unmapped /\ shown[w][1] = h THEN Unmapped ELSE shown[w]]
              /\ usedPages' = usedPages - Len(backing[h])
              /\ owners' = [owners EXCEPT ![h] = Unowned]
              /\ backing' = [backing EXCEPT ![h] = <<>>]
              /\ stored' = [stored EXCEPT ![h] = <<>>]
              /\ UNCHANGED frame

-----------------------------------------------------------------------------
(* Every window on the handle's pages written back, in order.              *)
Flushed(h) ==
    LET flush[i \in 0 .. Max(Windows) + 1] ==
            IF i = 0 THEN Machine
            ELSE IF shown[i - 1] # Unmapped /\ shown[i - 1][1] = h
                 THEN DosEmsWriteBackWindow(flush[i - 1], i - 1) ELSE flush[i - 1]
    IN flush[Max(Windows) + 1]

Kept(s, n) == [p \in 1 .. n |-> IF p <= Len(s) THEN s[p] ELSE 0]

(* Seeded fault: a window keeps showing a page that no longer exists.      *)
StillShown_Lost(h, n) == shown

StillShown(h, n) ==
    [w \in Windows |->
        IF shown[w] # Unmapped /\ shown[w][1] = h /\ shown[w][2] > n THEN Unmapped ELSE shown[w]]

(* AH=51h: into a new buffer.  The windows have been written back when the *)
(* host turns out to have no memory.                                       *)
DosEmsReallocatePages ==
    \E h \in EmsHandles, n \in PageCounts :
        LET old  == Len(backing[h])
            fits == n < old \/ usedPages - old + n <= TotalPages
        IN /\ EmsCall
           /\ \/ /\ ~DosEmsGetHandle(h) \/ n = old \/ ~fits
                 /\ EmsRefused
              \/ /\ DosEmsGetHandle(h) /\ n # old /\ fits /\ n > 0
                 /\ backing' = Flushed(h).backing
                 /\ UNCHANGED <<owners, usedPages, shown, frame, stored>>
              \/ /\ DosEmsGetHandle(h) /\ n # old /\ fits
                 /\ backing' = [Flushed(h).backing EXCEPT ![h] = Kept(@, n)]
                 /\ stored' = [stored EXCEPT ![h] = Kept(@, n)]
                 /\ shown' = StillShown(h, n)
                 /\ usedPages' = usedPages - old + n
                 /\ UNCHANGED <<owners, frame>>

-----------------------------------------------------------------------------
(* AH=47h.                                                                 *)
DosEmsSavePageMap ==
    \E h \in EmsHandles :
        /\ EmsCall
        /\ \/ /\ ~DosEmsGetHandle(h) \/ owners[h].isMapSaved
              /\ EmsRefused
           \/ /\ DosEmsGetHandle(h) /\ ~owners[h].isMapSaved
              /\ owners' = [owners EXCEPT ![h].isMapSaved = TRUE, ![h].savedMap = shown]
              /\ UNCHANGED <<backing, usedPages, shown, frame, stored>>

(* The windows one after the other; a page that is gone leaves its window  *)
(* as it is.                                                               *)
Restored(h) ==
    LET saved == owners[h].savedMap
        restore[i \in 0 .. Max(Windows) + 1] ==
            IF i = 0 THEN Machine
            ELSE LET m  == restore[i - 1]
                     w  == i - 1
                 IN IF saved[w] = Unmapped THEN Unmap(m, w)
                    ELSE IF HasPage(m.backing, saved[w][1], saved[w][2])
                         THEN CopyIn(m, w, saved[w][1], saved[w][2])
                         ELSE m
    IN restore[Max(Windows) + 1]

(* AH=48h.                                                                 *)
DosEmsRestorePageMap ==
    \E h \in EmsHandles :
        /\ EmsCall
        /\ MayRestore(h)
        /\ \/ /\ ~DosEmsGetHandle(h) \/ ~owners[h].isMapSaved
              /\ EmsRefused
           \/ /\ DosEmsGetHandle(h) /\ owners[h].isMapSaved
              /\ Becomes(Restored(h))
              /\ owners' = [owners EXCEPT ![h] = [Unowned EXCEPT !.inUse = TRUE]]
              /\ UNCHANGED <<usedPages, stored>>

(* The guest's program stores into the page a window shows: to it, the     *)
(* window is the page.                                                     *)
GuestStores ==
    \E w \in Windows, v \in PageValues :
        /\ shown[w] # Unmapped
        /\ v # frame[w]
        /\ frame' = [frame EXCEPT ![w] = v]
        /\ stored' = [stored EXCEPT ![shown[w][1]][shown[w][2]] = v]
        /\ EmsCall
        /\ UNCHANGED <<owners, backing, usedPages, shown>>

EmsNext ==
    \/ DosEmsAllocatePages
    \/ DosEmsMapPage
    \/ DosEmsUnmapPage
    \/ DosEmsDeallocatePages
    \/ DosEmsReallocatePages
    \/ DosEmsSavePageMap
    \/ DosEmsRestorePageMap
    \/ GuestStores

EmsSpec == EmsInit /\ [][EmsNext]_emsVars

-----------------------------------------------------------------------------
(* What the guest stored through any window survives every remapping,      *)
(* reallocation and restored map: a window shows its page's last stored    *)
(* value, and a page no window holds has it in the backing store.          *)
WritesSurvive ==
    /\ \A w \in Windows :
          shown[w] # Unmapped =>
              /\ HasPage(backing, shown[w][1], shown[w][2])
              /\ frame[w] = stored[shown[w][1]][shown[w][2]]
    /\ \A h \in EmsHandles : \A p \in DOMAIN stored[h] :
          (\A w \in Windows : shown[w] # <<h, p>>) => backing[h][p] = stored[h][p]
=============================================================================
