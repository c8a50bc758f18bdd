----------------------------- MODULE WowTasks ------------------------------
(***************************************************************************)
(* The cooperative scheduler of Win16 tasks and the calls the host makes   *)
(* into 16-bit code.  krnl386 keeps the tasks and says which is current;   *)
(* the host parks the tasks that do not run in a table of slots           *)
(* (g_WowSchedSlots) and, when it calls a window procedure, saves the      *)
(* interrupted context in a stack of frames (g_WowCallFrames) that all     *)
(* tasks share.  A task switched in at the wrong depth of that stack       *)
(* returns through another task's frame.  A call for a window of a task    *)
(* that is not current borrows that task's stack below where it is parked. *)
(*                                                                         *)
(* A register context is abstracted to the task whose stack it is on, how  *)
(* far that stack is used, and the number of the frame whose callback the  *)
(* code runs in (0 at the top level of its task).                          *)
(***************************************************************************)
EXTENDS Naturals, Sequences, FiniteSetsExt

CONSTANTS
    WowTaskCount,   \* bound: the tasks ever created; task 1 boots the system
    WowSchedMax,    \* WOWSCHED_MAX
    WowCallMax,     \* WOWCALL_MAX_DEPTH
    WowStackRoom,   \* how far a stack can be used before WOW_RETARGET_STACK_MIN
    WowQueueMax,    \* bound: messages queued for one task
    WowGuests       \* the guests considered: see WowGuest

WowTaskIds == 1 .. WowTaskCount

NoTask == 0

SlotIds == 0 .. WowSchedMax - 1

(* What the tasks of a session do: how many are created, whether one ends  *)
(* while callbacks of others are in flight, whether they open modal        *)
(* dialogs, whether windows are called synchronously, and how deep the     *)
(* calls go.                                                               *)
WowGuest ==
    [tasks : WowTaskIds, retiresAnywhere : BOOLEAN, dialogs : BOOLEAN, syncs : SUBSET BOOLEAN,
     depth : 0 .. WowCallMax]

ASSUME WowAssumption ==
    /\ WowTaskCount \in Nat /\ WowTaskCount >= 2
    /\ WowSchedMax \in Nat /\ WowSchedMax >= WowTaskCount - 1
    /\ WowCallMax \in Nat /\ WowStackRoom \in Nat /\ WowQueueMax \in Nat
    /\ WowGuests \subseteq WowGuest

VARIABLES
    wowGuest,       \* what the session does
    wowTasks,       \* the tasks that exist
    wowBorn,        \* how many were created
    wowNow,         \* krnl386's current-task word
    wowRun,         \* the context the processor runs
    wowBase,        \* g_WowSchedCurrentBase
    wowSlots,       \* g_WowSchedSlots
    wowCursor,      \* g_WowSchedRoundRobin
    wowFrames,      \* g_WowCallFrames up to g_WowCallDepth
    wowChild,       \* g_WowSchedLaunchChild
    wowShell,       \* g_WowSchedShell
    wowQueue,       \* WowMsgCountFor each task
    wowDialogs      \* the tasks with a modal dialog open

wowVars == <<wowGuest, wowTasks, wowBorn, wowNow, wowRun, wowBase, wowSlots, wowCursor,
             wowFrames, wowChild, wowShell, wowQueue, wowDialogs>>

FreeSlot == [used |-> FALSE]

CallDepth == Len(wowFrames)

(* WowSchedSave: what is kept of the running task.                         *)
WowSchedSave(context, task) ==
    [used |-> TRUE, context |-> context, task |-> task, fresh |-> FALSE, runnable |-> FALSE,
     depth |-> 0, waiting |-> FALSE, base |-> wowBase]

WowInit ==
    /\ wowGuest \in WowGuests
    /\ wowTasks = {1} /\ wowBorn = 1 /\ wowNow = 1
    /\ wowRun = [stack |-> 1, used |-> 1, frame |-> 0]
    /\ wowBase = 0
    /\ wowSlots = [i \in SlotIds |-> FreeSlot] /\ wowCursor = 0
    /\ wowFrames = <<>>
    /\ wowChild = NoTask /\ wowShell = NoTask
    /\ wowQueue = [t \in WowTaskIds |-> 0]
    /\ wowDialogs = {}

-----------------------------------------------------------------------------
(* The table of parked tasks.                                              *)

Parked(current) == {i \in SlotIds : wowSlots[i].used /\ wowSlots[i].task # current}

(* WowSchedPick: the next parked task after the round-robin cursor.        *)
WowSchedPick(current) ==
    CHOOSE i \in Parked(current) :
        \E step \in 1 .. WowSchedMax :
            /\ i = (wowCursor + step) % WowSchedMax
            /\ \A earlier \in 1 .. step - 1 : (wowCursor + earlier) % WowSchedMax \notin Parked(current)

(* WowSchedTopLevel: parked holding no frame of the host's.                *)
WowSchedTopLevel(s) == s.fresh \/ (s.waiting /\ s.depth = s.base)

(* WowSchedRunnable: the parked tasks that may take the processor from one *)
(* that idles at this depth of callbacks; the code takes the first.        *)
WowSchedRunnable_AnyDepth(current, depth) ==
    {i \in Parked(current) :
        LET s == wowSlots[i] IN
        s.runnable \/ (s.fresh /\ depth = 0) \/ (s.waiting /\ wowQueue[s.task] > 0)}

WowSchedRunnable(current, depth) ==
    {i \in Parked(current) :
        LET s == wowSlots[i] IN
        \/ s.runnable /\ s.depth = depth
        \/ s.fresh /\ depth = 0
        \/ s.waiting /\ wowQueue[s.task] > 0 /\ (s.depth = s.base \/ s.depth = depth)}

(* WowSchedInterTaskLive: a call borrows another task's stack.             *)
WowSchedInterTaskLive == \E f \in 1 .. CallDepth : wowFrames[f].previous # NoTask

(* A call the host waits for on its own stack is in flight                 *)
(* (g_WowWindowNested), or a modal dialog is open (WowDlgActive).          *)
HostNested == (\E f \in 1 .. CallDepth : wowFrames[f].sync) \/ wowDialogs # {}

(* WowSchedRestore with what each switch does after it: a task that held   *)
(* no frame is based at the present depth, and the current-task word       *)
(* follows the context.                                                    *)
Resume(s) ==
    /\ wowRun' = s.context
    /\ wowBase' = IF WowSchedTopLevel(s) THEN CallDepth ELSE s.base
    /\ wowNow' = s.task

(* WowSchedSwap: the running task is parked where the other one was.       *)
Swap(i, parked) ==
    /\ wowSlots' = [wowSlots EXCEPT ![i] = parked]
    /\ Resume(wowSlots[i])

-----------------------------------------------------------------------------
(* The calls of a task into the host.  The first one of a parent after a   *)
(* launch is where its child is run: LaunchedFirst or LaunchedWaits comes  *)
(* before any other.                                                       *)

MayCall == wowNow # NoTask /\ wowChild = NoTask

(* krnl386 has made a task and is on its stack: it is parked there and its *)
(* creator sent back (moment A).  The boot task launches only the shell.   *)
Launch ==
    /\ MayCall
    /\ wowBorn < wowGuest.tasks
    /\ wowNow = 1 => wowBorn = 1
    /\ LET child == wowBorn + 1
           free  == Min({i \in SlotIds : ~wowSlots[i].used})
           start == [stack |-> child, used |-> 1, frame |-> 0] IN
       /\ wowSlots' = [wowSlots EXCEPT ![free] = [WowSchedSave(start, child) EXCEPT !.fresh = TRUE]]
       /\ wowTasks' = wowTasks \cup {child} /\ wowBorn' = child
       /\ wowChild' = child
    /\ UNCHANGED <<wowGuest, wowNow, wowRun, wowBase, wowCursor, wowFrames, wowShell, wowQueue, wowDialogs>>

MayRunFirst == wowShell # NoTask /\ wowNow # wowShell /\ ~HostNested /\ ~WowSchedInterTaskLive

(* Launch-first: the parent is parked mid-work at its call and the child   *)
(* runs (moment F).                                                        *)
LaunchedFirst ==
    /\ wowChild # NoTask /\ wowNow \notin {NoTask, wowChild}
    /\ MayRunFirst
    /\ \E i \in SlotIds :
          /\ wowSlots[i].used /\ wowSlots[i].fresh /\ wowSlots[i].task = wowChild
          /\ Swap(i, [WowSchedSave(wowRun, wowNow) EXCEPT !.runnable = TRUE, !.depth = CallDepth])
    /\ wowChild' = NoTask
    /\ UNCHANGED <<wowGuest, wowTasks, wowBorn, wowCursor, wowFrames, wowShell, wowQueue, wowDialogs>>

(* The boot creator, the shell, and a parent in the middle of a dialog or  *)
(* an inter-task call go on; the child stays parked.                       *)
LaunchedWaits ==
    /\ wowChild # NoTask /\ wowNow \notin {NoTask, wowChild}
    /\ ~MayRunFirst
    /\ wowChild' = NoTask
    /\ UNCHANGED <<wowGuest, wowTasks, wowBorn, wowNow, wowRun, wowBase, wowSlots, wowCursor,
                   wowFrames, wowShell, wowQueue, wowDialogs>>

(* WowWaitForMsgAndEvent, which only the shell's message loop calls: round *)
(* robin to any parked task (moment D).                                    *)
WaitForMsgAndEvent ==
    /\ MayCall /\ wowNow = wowShell /\ wowRun.frame = 0 /\ wowNow \notin wowDialogs
    /\ ~WowSchedInterTaskLive
    /\ Parked(wowNow) # {}
    /\ LET i == WowSchedPick(wowNow) IN
       /\ wowCursor' = i
       /\ Swap(i, WowSchedSave(wowRun, wowNow))
    /\ UNCHANGED <<wowGuest, wowTasks, wowBorn, wowFrames, wowChild, wowShell, wowQueue, wowDialogs>>

(* An application's GetMessage with a message to get.                      *)
GetMessage ==
    /\ MayCall /\ wowNow # wowShell
    /\ wowQueue[wowNow] > 0
    /\ wowQueue' = [wowQueue EXCEPT ![wowNow] = @ - 1]
    /\ UNCHANGED <<wowGuest, wowTasks, wowBorn, wowNow, wowRun, wowBase, wowSlots, wowCursor,
                   wowFrames, wowChild, wowShell, wowDialogs>>

(* And with none: the task is parked at the call, to issue it again, and   *)
(* one that may run does (moment E).  With none to run it blocks until a   *)
(* message is posted.                                                      *)
GetMessageYields ==
    /\ MayCall /\ wowNow # wowShell
    /\ wowQueue[wowNow] = 0
    /\ ~HostNested /\ ~WowSchedInterTaskLive
    /\ WowSchedRunnable(wowNow, CallDepth) # {}
    /\ Swap(Min(WowSchedRunnable(wowNow, CallDepth)),
            [WowSchedSave(wowRun, wowNow) EXCEPT !.waiting = TRUE, !.depth = CallDepth])
    /\ UNCHANGED <<wowGuest, wowTasks, wowBorn, wowCursor, wowFrames, wowChild, wowShell, wowQueue, wowDialogs>>

(* A message for a task: posted by a task, or input from its window.       *)
PostMessage(t) ==
    /\ t \in wowTasks /\ t # 1 /\ t # wowShell
    /\ wowQueue[t] < WowQueueMax
    /\ wowQueue' = [wowQueue EXCEPT ![t] = @ + 1]
    /\ UNCHANGED <<wowGuest, wowTasks, wowBorn, wowNow, wowRun, wowBase, wowSlots, wowCursor,
                   wowFrames, wowChild, wowShell, wowDialogs>>

WowDlgPush ==
    /\ MayCall /\ wowGuest.dialogs /\ wowNow \notin wowDialogs
    /\ wowDialogs' = wowDialogs \cup {wowNow}
    /\ UNCHANGED <<wowGuest, wowTasks, wowBorn, wowNow, wowRun, wowBase, wowSlots, wowCursor,
                   wowFrames, wowChild, wowShell, wowQueue>>

WowDlgUnwind ==
    /\ MayCall /\ wowNow \in wowDialogs
    /\ wowDialogs' = wowDialogs \ {wowNow}
    /\ UNCHANGED <<wowGuest, wowTasks, wowBorn, wowNow, wowRun, wowBase, wowSlots, wowCursor,
                   wowFrames, wowChild, wowShell, wowQueue>>

(* When a task ends: at its own top level, and unless tasks retire         *)
(* anywhere only when no callback of any task is in flight.                *)
MayRetire ==
    /\ MayCall /\ wowRun.frame = 0
    /\ wowNow \notin wowDialogs
    /\ wowNow # wowShell
    /\ wowGuest.retiresAnywhere \/ wowFrames = <<>>

(* The task leaves krnl386's list and no task is current; the fault that   *)
(* follows resumes a parked one (moment C).  The first is the shell.       *)
Retire ==
    /\ MayRetire
    /\ Parked(NoTask) # {}
    /\ LET i == WowSchedPick(NoTask) IN
       /\ wowCursor' = i
       /\ wowShell' = IF wowShell = NoTask THEN wowSlots[i].task ELSE wowShell
       /\ wowSlots' = [wowSlots EXCEPT ![i] = FreeSlot]
       /\ Resume(wowSlots[i])
    /\ wowTasks' = wowTasks \ {wowNow}
    /\ wowQueue' = [wowQueue EXCEPT ![wowNow] = 0]
    /\ UNCHANGED <<wowGuest, wowBorn, wowFrames, wowChild, wowDialogs>>

-----------------------------------------------------------------------------
(* Calls of the host into 16-bit code.                                     *)

(* The contexts of a task the host knows: parked, or saved when the task   *)
(* entered a call (the newest frame is the one being built).               *)
KnownContexts(owner) ==
    {wowSlots[i].context : i \in {j \in SlotIds : wowSlots[j].used /\ wowSlots[j].task = owner}}
      \cup {wowFrames[f].saved.context : f \in {g \in 1 .. CallDepth : wowFrames[g].entered = owner}}

(* WowSchedRetarget: where a call for a window of this task runs on the    *)
(* task's own stack; the set is empty if it runs where the caller is.      *)
WowSchedRetarget_ParkedOnly(owner) ==
    LET contexts == {wowSlots[i].context : i \in {j \in SlotIds : wowSlots[j].used /\ wowSlots[j].task = owner}}
        deepest  == Max({c.used : c \in contexts} \cup {0}) IN
    IF owner # wowNow /\ contexts # {} /\ deepest < WowStackRoom
    THEN {[stack |-> owner, used |-> deepest + 1]} ELSE {}

WowSchedRetarget(owner) ==
    LET contexts == KnownContexts(owner)
        stacks   == {c.stack : c \in contexts}
        deepest  == Max({c.used : c \in contexts} \cup {0}) IN
    IF owner # wowNow /\ Cardinality(stacks) = 1 /\ deepest < WowStackRoom
    THEN {[stack |-> CHOOSE s \in stacks : TRUE, used |-> deepest + 1]} ELSE {}

(* WowCallEnter, for a window of the given task; sync if the host waits    *)
(* for the call on its own stack (WowCall16SyncEx).                        *)
WowCallEnter(owner, sync) ==
    /\ MayCall
    /\ sync \in wowGuest.syncs /\ CallDepth < wowGuest.depth
    /\ CallDepth < IF sync THEN WowCallMax - 1 ELSE WowCallMax
    /\ LET target   == WowSchedRetarget(owner)
           borrowed == target # {}
           where    == IF borrowed THEN CHOOSE r \in target : TRUE
                       ELSE [stack |-> wowRun.stack, used |-> wowRun.used + 1] IN
       /\ wowFrames' = Append(wowFrames,
                              [saved    |-> WowSchedSave(wowRun, NoTask),
                               entered  |-> wowNow,
                               previous |-> IF borrowed THEN wowNow ELSE NoTask,
                               sync     |-> sync])
       /\ wowRun' = [stack |-> where.stack, used |-> where.used, frame |-> CallDepth + 1]
       /\ wowNow' = IF borrowed THEN owner ELSE wowNow
    /\ UNCHANGED <<wowGuest, wowTasks, wowBorn, wowBase, wowSlots, wowCursor, wowChild,
                   wowShell, wowQueue, wowDialogs>>

(* WowCallLeave for the frames down to this one, the newest first.         *)
LeaveTo_KeepsBorrowed(f) ==
    /\ wowRun' = wowFrames[f].saved.context
    /\ wowBase' = wowFrames[f].saved.base
    /\ wowNow' = wowNow
    /\ wowFrames' = SubSeq(wowFrames, 1, f - 1)

LeaveTo(f) ==
    LET borrowing == {g \in f .. CallDepth : wowFrames[g].previous # NoTask} IN
    /\ wowRun' = wowFrames[f].saved.context
    /\ wowBase' = wowFrames[f].saved.base
    /\ wowNow' = IF borrowing = {} THEN wowNow ELSE wowFrames[Min(borrowing)].previous
    /\ wowFrames' = SubSeq(wowFrames, 1, f - 1)

(* The procedure returns to the host.                                      *)
WowCallLeave ==
    /\ wowRun.frame # 0
    /\ wowFrames # <<>>
    /\ LeaveTo(CallDepth)
    /\ UNCHANGED <<wowGuest, wowTasks, wowBorn, wowSlots, wowCursor, wowChild, wowShell, wowQueue, wowDialogs>>

(* WowCall16SyncEx gives up on a call that does not return: its frame and  *)
(* the ones above it are unwound.                                          *)
SyncGivesUp ==
    /\ MayCall
    /\ LET syncs == {f \in 1 .. CallDepth : wowFrames[f].sync} IN
       /\ syncs # {}
       /\ LeaveTo(Max(syncs))
    /\ UNCHANGED <<wowGuest, wowTasks, wowBorn, wowSlots, wowCursor, wowChild, wowShell, wowQueue, wowDialogs>>

-----------------------------------------------------------------------------
WowNext ==
    \/ Launch \/ LaunchedFirst \/ LaunchedWaits
    \/ WaitForMsgAndEvent \/ GetMessage \/ GetMessageYields
    \/ \E t \in WowTaskIds : PostMessage(t)
    \/ WowDlgPush \/ WowDlgUnwind
    \/ Retire
    \/ \E owner \in wowTasks, sync \in BOOLEAN : WowCallEnter(owner, sync)
    \/ WowCallLeave \/ SyncGivesUp

WowSpec == WowInit /\ [][WowNext]_wowVars

-----------------------------------------------------------------------------
(* Code that runs in a callback runs in the innermost frame: a task is     *)
(* switched in only at the depth of callbacks it left (host_wow.c, "so the *)
(* host's callback frames stay last-in first-out across the swap"), and    *)
(* its return pops its own frame.                                          *)
CallbacksLifo == wowRun.frame # 0 => wowRun.frame = CallDepth

(* Nothing saved lies where the running code pushes: on a stack in use,    *)
(* every parked or interrupted context is above the running one, however   *)
(* calls bounce between two tasks (WowSchedRetarget: "the lowest SP known  *)
(* is the free edge").                                                     *)
StacksApart ==
    LET saved == {wowSlots[i].context : i \in {j \in SlotIds : wowSlots[j].used}}
                   \cup {wowFrames[f].saved.context : f \in 1 .. CallDepth} IN
    \A c \in saved : c.stack = wowRun.stack => c.used < wowRun.used

(* krnl386 believes current the task on whose stack the code runs, through *)
(* switches, borrowed stacks and unwound calls.                            *)
CurrentFollows == wowNow = wowRun.stack
=============================================================================
