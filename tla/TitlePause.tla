----------------------------- MODULE TitlePause -----------------------------
(***************************************************************************)
(* Pausing a running title and saving its memory (IOSTitlePause.cpp,       *)
(* IOSSaveState.cpp) against the emulated cores and their busy flags       *)
(* (__OSFiberThreadEntry, __OSAllCoresIdle in coreinit_Thread.cpp).        *)
(*                                                                         *)
(* Two host queues call in: the player interface pauses and resumes, and   *)
(* the save queue pauses, waits until no core is busy, writes the memory   *)
(* and resumes.  A step under the scheduler lock is one action; what a     *)
(* caller does before it gets the lock is an action of its own.            *)
(*                                                                         *)
(* The threads are those of CoreScheduler without priorities and queues:   *)
(* what matters here is whether one may run and where its fiber stopped.   *)
(***************************************************************************)
EXTENDS Integers, FiniteSets

CONSTANTS
    Thread,       \* guest threads
    Boot,         \* the thread that a title starts with
    NumCores,     \* emulated cores, numbered from 0
    MainCore,     \* the one whose idle loop fires alarms
    MaxSuspend,   \* bound on the suspensions that the guest asks for
    MaxCrossings, \* bound on the calls that overtake one of the other queue
    None

ASSUME TitleAssumption ==
    /\ Boot \in Thread /\ None \notin Thread
    /\ NumCores \in Nat \ {0} /\ MainCore \in 0 .. NumCores - 1
    /\ MaxSuspend \in Nat \ {0} /\ MaxCrossings \in Nat

Core == 0 .. NumCores - 1

VARIABLES
    status,          \* OSThread_t::state; "none" is not on the active list
    suspendCounter,  \* OSThread_t::suspendCounter
    inCall,          \* the fiber stopped inside a call out of attemptEnterThread
    current,         \* the thread of a core
    place,           \* where the host thread of a core is
    g_coreIsBusy,    \* the flag that each core publishes
    sTitlePaused,    \* IOSTitlePause.cpp
    isPaused,        \* what the player interface shows
    ui,              \* the player's call, when it still waits for the lock
    save,            \* IOSSaveState_Save: phase, the flag it read, cores polled
    asked,           \* history: the suspensions that the guest itself asked for
    pausedInSave,    \* history: the player paused while a save had the title paused
    crossings        \* history: how often a call changed the flag while one of the
                     \* other queue still waited for the lock

guestVars == <<status, inCall, current, place, g_coreIsBusy>>
history   == <<pausedInSave, crossings>>
hostVars  == <<sTitlePaused, isPaused, ui, save, history>>
vars == <<guestVars, suspendCounter, asked, hostVars>>

\* "idle": in the idle fiber.  "entry": a fiber was switched to and has not
\* set the flag yet (a thermal sleep lies in between).  "guest": inside
\* attemptEnterThread.  "leaving": the flag is cleared and the lock not taken.
Places == {"idle", "entry", "guest", "leaving"}
SavePhases == {"none", "pause", "pauseLock", "poll", "io", "resume", "resumeLock"}
UiCalls == {"none", "pauseLock", "resumeLock"}
-----------------------------------------------------------------------------
(* The emulated cores.                                                      *)

\* Mutant: a suspended thread is dispatched.
RunnableSuspended(t) == status[t] = "ready"

Runnable(t) == status[t] = "ready" /\ suspendCounter[t] = 0

\* A fiber that stopped in a call goes on with the guest code behind it: the
\* flag of the core is what the last fiber left.
Dispatch(c, t) ==
    /\ place[c] = "idle" /\ Runnable(t)
    /\ status' = [status EXCEPT ![t] = "running"]
    /\ current' = [current EXCEPT ![c] = t]
    /\ place' = [place EXCEPT ![c] = IF inCall[t] THEN "guest" ELSE "entry"]
    /\ inCall' = [inCall EXCEPT ![t] = FALSE]
    /\ UNCHANGED <<g_coreIsBusy, suspendCounter, asked, hostVars>>

EnterTimeslice(c) ==
    /\ place[c] = "entry"
    /\ place' = [place EXCEPT ![c] = "guest"]
    /\ g_coreIsBusy' = [g_coreIsBusy EXCEPT ![c] = TRUE]
    /\ UNCHANGED <<status, inCall, current, suspendCounter, asked, hostVars>>

EndTimeslice(c) ==
    /\ place[c] = "guest"
    /\ place' = [place EXCEPT ![c] = "leaving"]
    /\ g_coreIsBusy' = [g_coreIsBusy EXCEPT ![c] = FALSE]
    /\ UNCHANGED <<status, inCall, current, suspendCounter, asked, hostVars>>

\* __OSStoreThread writes the registers into guest memory, then the core idles.
StoreAndIdle(c, st, call) ==
    /\ status' = [status EXCEPT ![current[c]] = st]
    /\ inCall' = [inCall EXCEPT ![current[c]] = call]
    /\ current' = [current EXCEPT ![c] = None]
    /\ place' = [place EXCEPT ![c] = "idle"]
    /\ UNCHANGED g_coreIsBusy

Reschedule(c) ==
    /\ place[c] = "leaving"
    /\ StoreAndIdle(c, "ready", FALSE)
    /\ UNCHANGED <<suspendCounter, asked, hostVars>>

\* A call of the guest gives up the core: it waits, or it lets others run.
SwitchInCall(c) ==
    /\ place[c] = "guest"
    /\ \E st \in {"ready", "waiting"} : StoreAndIdle(c, st, TRUE)
    /\ UNCHANGED <<suspendCounter, asked, hostVars>>

\* A detached thread ends; its fiber never returns to __OSFiberThreadEntry.
OSExitThread(c) ==
    /\ place[c] = "guest" /\ current[c] # Boot
    /\ StoreAndIdle(c, "none", FALSE)
    /\ UNCHANGED <<suspendCounter, asked, hostVars>>

\* A guest call, or an alarm that the main core's idle loop fires.
WakeUp(t) ==
    /\ status[t] = "waiting"
    /\ place[MainCore] = "idle" \/ \E c \in Core : place[c] = "guest"
    /\ status' = [status EXCEPT ![t] = "ready"]
    /\ UNCHANGED <<inCall, current, place, g_coreIsBusy, suspendCounter, asked, hostVars>>

OSCreateThread(c, t) ==
    /\ place[c] = "guest" /\ status[t] = "none"
    /\ status' = [status EXCEPT ![t] = "ready"]
    /\ suspendCounter' = [suspendCounter EXCEPT ![t] = 1]
    /\ asked' = [asked EXCEPT ![t] = 1]
    /\ UNCHANGED <<inCall, current, place, g_coreIsBusy, hostVars>>

\* The thread that runs suspends itself inside the call.
OSSuspendThread(c, t) ==
    /\ place[c] = "guest" /\ status[t] # "none" /\ asked[t] < MaxSuspend
    /\ suspendCounter' = [suspendCounter EXCEPT ![t] = @ + 1]
    /\ asked' = [asked EXCEPT ![t] = @ + 1]
    /\ IF t = current[c] THEN StoreAndIdle(c, "ready", TRUE) ELSE UNCHANGED guestVars
    /\ UNCHANGED hostVars

\* A more urgent thread that becomes runnable takes the core at once.
OSResumeThread(c, t) ==
    /\ place[c] = "guest" /\ status[t] # "none" /\ suspendCounter[t] > 0
    /\ suspendCounter' = [suspendCounter EXCEPT ![t] = @ - 1]
    /\ asked' = [asked EXCEPT ![t] = IF @ = 0 THEN 0 ELSE @ - 1]
    /\ \/ UNCHANGED guestVars
       \/ suspendCounter'[t] = 0 /\ t # current[c] /\ StoreAndIdle(c, "ready", TRUE)
    /\ UNCHANGED hostVars
-----------------------------------------------------------------------------
(* IOSTitlePause_Pause and _Resume: the flag first, then the lock.          *)

SuspendAll ==
    suspendCounter' = [t \in Thread |->
        IF status[t] = "none" THEN suspendCounter[t] ELSE suspendCounter[t] + 1]

\* Mutant: only threads that wait for a core are resumed.
ResumeReady ==
    suspendCounter' = [t \in Thread |->
        IF status[t] # "ready" \/ suspendCounter[t] = 0 THEN suspendCounter[t]
        ELSE suspendCounter[t] - 1]

\* Mutant: the clamp at zero is missing.
ResumeUnclamped ==
    suspendCounter' = [t \in Thread |->
        IF status[t] = "none" THEN suspendCounter[t] ELSE suspendCounter[t] - 1]

\* A thread that is not suspended is left alone.
ResumeAll ==
    suspendCounter' = [t \in Thread |->
        IF status[t] = "none" \/ suspendCounter[t] = 0 THEN suspendCounter[t]
        ELSE suspendCounter[t] - 1]

\* The exchange of the flag, by a call of one queue while the call of the other
\* one is at "at".
Exchange(paused, at) ==
    /\ sTitlePaused' = paused
    /\ crossings' = IF sTitlePaused # paused /\ at \in {"pauseLock", "resumeLock"}
                    THEN crossings + 1 ELSE crossings
    /\ crossings' <= MaxCrossings

\* The title is paused on behalf of a save, which is going to resume it.
SaveHolds == save.phase \in {"pauseLock", "poll", "io", "resume"} /\ ~save.wasAlreadyPaused

\* The player toggles (isPaused of ContentView.swift:1545, :2050), and the calls
\* run one after the other on titlePauseQueue: the flag first.
UiPause ==
    /\ ui = "none" /\ ~isPaused
    /\ isPaused' = TRUE
    /\ Exchange(TRUE, save.phase)
    /\ ui' = IF sTitlePaused THEN "none" ELSE "pauseLock"
    /\ pausedInSave' = SaveHolds
    /\ UNCHANGED <<guestVars, suspendCounter, asked, save>>

UiResume ==
    /\ ui = "none" /\ isPaused
    /\ isPaused' = FALSE
    /\ Exchange(FALSE, save.phase)
    /\ ui' = IF sTitlePaused THEN "resumeLock" ELSE "none"
    /\ pausedInSave' = FALSE
    /\ UNCHANGED <<guestVars, suspendCounter, asked, save>>

UiLock ==
    /\ ui # "none"
    /\ IF ui = "pauseLock" THEN SuspendAll ELSE ResumeAll
    /\ ui' = "none"
    /\ UNCHANGED <<guestVars, asked, sTitlePaused, isPaused, save, history>>
-----------------------------------------------------------------------------
(* IOSSaveState_Save; one runs at a time (saveStateBusySlot).                *)

SaveBegin ==
    /\ save.phase = "none"
    /\ save' = [phase |-> IF sTitlePaused THEN "poll" ELSE "pause",
                wasAlreadyPaused |-> sTitlePaused, polled |-> 0]
    /\ UNCHANGED <<guestVars, suspendCounter, asked, sTitlePaused, isPaused, ui, history>>

SavePause ==
    /\ save.phase = "pause"
    /\ Exchange(TRUE, ui)
    /\ save' = [save EXCEPT !.phase = IF sTitlePaused THEN "none" ELSE "pauseLock"]
    /\ UNCHANGED <<guestVars, suspendCounter, asked, isPaused, ui, pausedInSave>>

SavePauseLock ==
    /\ save.phase = "pauseLock"
    /\ SuspendAll
    /\ save' = [save EXCEPT !.phase = "poll"]
    /\ UNCHANGED <<guestVars, asked, sTitlePaused, isPaused, ui, history>>

\* __OSAllCoresIdle loads the flags one after the other.
PollCore ==
    /\ save.phase = "poll"
    /\ save' = IF g_coreIsBusy[save.polled] THEN [save EXCEPT !.polled = 0]
               ELSE IF save.polled + 1 < NumCores THEN [save EXCEPT !.polled = @ + 1]
               ELSE [save EXCEPT !.phase = "io", !.polled = 0]
    /\ UNCHANGED <<guestVars, suspendCounter, asked, sTitlePaused, isPaused, ui, history>>

\* Mutant: a save resumes a title that the player had paused.
SaveEndsResuming ==
    /\ save.phase \in {"poll", "io"}
    /\ save' = [save EXCEPT !.polled = 0, !.phase = "resume"]
    /\ UNCHANGED <<guestVars, suspendCounter, asked, sTitlePaused, isPaused, ui, history>>

\* The wait times out, or the memory has been written.
SaveEnds ==
    /\ save.phase \in {"poll", "io"}
    /\ save' = [save EXCEPT !.polled = 0,
                            !.phase = IF save.wasAlreadyPaused THEN "none" ELSE "resume"]
    /\ UNCHANGED <<guestVars, suspendCounter, asked, sTitlePaused, isPaused, ui, history>>

SaveResume ==
    /\ save.phase = "resume"
    /\ Exchange(FALSE, ui)
    /\ save' = [save EXCEPT !.phase = IF sTitlePaused THEN "resumeLock" ELSE "none"]
    /\ UNCHANGED <<guestVars, suspendCounter, asked, isPaused, ui, pausedInSave>>

SaveResumeLock ==
    /\ save.phase = "resumeLock"
    /\ ResumeAll
    /\ save' = [save EXCEPT !.phase = "none"]
    /\ UNCHANGED <<guestVars, asked, sTitlePaused, isPaused, ui, history>>
-----------------------------------------------------------------------------
Init ==
    /\ status = [t \in Thread |-> IF t = Boot THEN "ready" ELSE "none"]
    /\ suspendCounter = [t \in Thread |-> 0]
    /\ asked = [t \in Thread |-> 0]
    /\ inCall = [t \in Thread |-> FALSE]
    /\ current = [c \in Core |-> None]
    /\ place = [c \in Core |-> "idle"]
    /\ g_coreIsBusy = [c \in Core |-> FALSE]
    /\ sTitlePaused = FALSE /\ isPaused = FALSE /\ ui = "none"
    /\ save = [phase |-> "none", wasAlreadyPaused |-> FALSE, polled |-> 0]
    /\ pausedInSave = FALSE /\ crossings = 0

CoreStep(c) ==
    \/ EnterTimeslice(c) \/ EndTimeslice(c) \/ Reschedule(c) \/ SwitchInCall(c) \/ OSExitThread(c)
    \/ \E t \in Thread : \/ Dispatch(c, t) \/ OSCreateThread(c, t)
                         \/ OSSuspendThread(c, t) \/ OSResumeThread(c, t)

HostStep ==
    \/ UiPause \/ UiResume \/ UiLock
    \/ SaveBegin \/ SavePause \/ SavePauseLock \/ PollCore \/ SaveEnds
    \/ SaveResume \/ SaveResumeLock

Next ==
    \/ HostStep
    \/ \E c \in Core : CoreStep(c)
    \/ \E t \in Thread : WakeUp(t)

Spec == Init /\ [][Next]_vars

\* A timeslice ends when its cycles are used up, whatever calls it makes.
Fairness ==
    \A c \in Core : WF_vars(EnterTimeslice(c)) /\ WF_vars(EndTimeslice(c)) /\ WF_vars(Reschedule(c))

FairSpec == Spec /\ Fairness
-----------------------------------------------------------------------------
(* Properties.                                                              *)

\* Every variable has its type, and a core has a thread exactly when it is
\* not idle.
TypeOK ==
    /\ status \in [Thread -> {"none", "ready", "running", "waiting"}]
    /\ suspendCounter \in [Thread -> Nat]
    /\ asked \in [Thread -> 0 .. MaxSuspend]
    /\ inCall \in [Thread -> BOOLEAN]
    /\ current \in [Core -> Thread \union {None}]
    /\ place \in [Core -> Places]
    /\ g_coreIsBusy \in [Core -> BOOLEAN]
    /\ sTitlePaused \in BOOLEAN /\ isPaused \in BOOLEAN /\ ui \in UiCalls
    /\ save \in [phase : SavePhases, wasAlreadyPaused : BOOLEAN, polled : Core]
    /\ pausedInSave \in BOOLEAN /\ crossings \in 0 .. MaxCrossings
    /\ \A c \in Core : current[c] = None <=> place[c] = "idle"

NoHostCall == ui = "none" /\ save.phase = "none"

\* Whatever the two queues do to the flag and in whatever order: a title is
\* paused only for a player who sees it paused or for a save that will resume
\* it, and the pause of a player ends unasked only if it was made while a save
\* had the title paused (that save's resume ends both).
PauseIsWhatPlayerSees ==
    /\ sTitlePaused => isPaused \/ SaveHolds
    /\ isPaused => sTitlePaused \/ pausedInSave

\* Between host calls in a title that is not paused, no thread is held by
\* more suspensions than the guest asked for: no pause is left behind.
NoThreadLeftSuspended ==
    NoHostCall /\ ~sTitlePaused =>
      \A t \in Thread : status[t] # "none" => suspendCounter[t] <= asked[t]

\* That is so also with pauses and resumes in the middle of a save, unless one
\* of them changed the flag between the exchange of another call and its lock.
OnlyCrossingsLeaveSuspensions == crossings = 0 => NoThreadLeftSuspended

\* "Everything IOSSaveState touches assumes this already holds"
\* (IOSSaveState.cpp:126): while the memory is written, no core
\* executes guest code.
QuiescentDuringSave == save.phase = "io" => \A c \in Core : place[c] # "guest"

\* Once a pause holds every thread, every core gets to its idle fiber, unless
\* the player or a thread that still runs lets a thread go again.
AllHeld == sTitlePaused /\ \A t \in Thread : status[t] # "none" => suspendCounter[t] > 0
PauseSettles == AllHeld ~> (~AllHeld \/ \A c \in Core : place[c] = "idle")
=============================================================================
