------------------------- MODULE TitlePause_proofs -------------------------
(***************************************************************************)
(* The inductive invariant of TitlePause for any number of threads and     *)
(* cores, with calls of the player in the middle of a save: whom a pause   *)
(* belongs to and who ends it.  As long as no call has overtaken another   *)
(* one between its flag and its lock, no thread keeps a suspension that    *)
(* the guest did not ask for.                                              *)
(***************************************************************************)
EXTENDS TitlePause, TLAPS

\* The flag is the player's or that of a save; a save that has something to
\* take back found the title running.
FlagOK ==
    /\ PauseIsWhatPlayerSees
    /\ SaveHolds /\ isPaused => pausedInSave
    /\ save.phase \in {"pause", "pauseLock", "resume", "resumeLock"} => ~save.wasAlreadyPaused

\* A call that waits for the lock on behalf of either queue.
Pending(call) == ui = call \/ save.phase = call

\* No call has been overtaken: the flag is still as the one that waits set it.
InTurn ==
    /\ Pending("pauseLock") => sTitlePaused
    /\ Pending("resumeLock") => ~sTitlePaused
    /\ ui = "none" \/ save.phase \notin {"pauseLock", "resumeLock"}

\* A pass of SuspendAll over the threads has been made and not undone.
HostHolds == (sTitlePaused /\ ~Pending("pauseLock")) \/ Pending("resumeLock")

\* The suspensions of a thread are its own and at most that one.
SuspensionsOK ==
    \A t \in Thread :
       status[t] # "none" => suspendCounter[t] <= asked[t] + (IF HostHolds THEN 1 ELSE 0)

CallsOK == crossings = 0 => InTurn /\ SuspensionsOK

\* A core that is not idle runs a thread of its own.
RunningOK ==
    /\ \A c \in Core : place[c] # "idle" => status[current[c]] = "running"
    /\ \A c, d \in Core : current[c] = current[d] /\ place[c] # "idle" => c = d

IInv == TypeOK /\ RunningOK /\ FlagOK /\ CallsOK
-----------------------------------------------------------------------------
(* The emulated cores.                                                      *)

\* The types of what the guest's steps change.
GuestTypes ==
    /\ status \in [Thread -> {"none", "ready", "running", "waiting"}]
    /\ inCall \in [Thread -> BOOLEAN]
    /\ current \in [Core -> Thread \union {None}]
    /\ place \in [Core -> Places] /\ g_coreIsBusy \in [Core -> BOOLEAN]
    /\ \A c \in Core : current[c] = None <=> place[c] = "idle"

\* No thread comes into being.
NoneCreated == \A t \in Thread : status'[t] # "none" => status[t] # "none"

\* __OSStoreThread and the way back to the idle fiber.
LEMMA StoreProperties ==
    ASSUME GuestTypes, RunningOK, NEW c \in Core, place[c] # "idle",
           NEW st \in {"none", "ready", "waiting"}, NEW inside \in BOOLEAN,
           StoreAndIdle(c, st, inside)
    PROVE  GuestTypes' /\ RunningOK' /\ NoneCreated
<1>1. /\ current[c] \in Thread /\ status[current[c]] = "running"
      /\ status' = [status EXCEPT ![current[c]] = st]
      /\ inCall' = [inCall EXCEPT ![current[c]] = inside]
      /\ current' = [current EXCEPT ![c] = None]
      /\ place' = [place EXCEPT ![c] = "idle"]
      /\ g_coreIsBusy' = g_coreIsBusy
  BY DEF GuestTypes, RunningOK, StoreAndIdle
<1>2. GuestTypes'
  BY <1>1, TitleAssumption DEF GuestTypes, Places
<1>3. RunningOK'
  <2>1. ASSUME NEW d \in Core, place'[d] # "idle"
        PROVE  d # c /\ place[d] # "idle" /\ current'[d] = current[d] /\ current[d] # current[c]
    BY <1>1, <2>1 DEF GuestTypes, RunningOK
  <2>2. \A d \in Core : place'[d] # "idle" => status'[current'[d]] = "running"
    BY <1>1, <2>1 DEF GuestTypes, RunningOK
  <2>3. ASSUME NEW d \in Core, NEW e \in Core, current'[d] = current'[e], place'[d] # "idle"
        PROVE d = e
    <3>1. d # c /\ current[d] \in Thread /\ current'[d] = current[d]
      BY <2>1, <2>3 DEF GuestTypes
    <3>2. e # c
      BY <1>1, <2>3, <3>1, TitleAssumption DEF GuestTypes
    <3> QED BY <1>1, <2>1, <2>3, <3>1, <3>2 DEF GuestTypes, RunningOK
  <2> QED BY <2>2, <2>3 DEF RunningOK
<1>4. NoneCreated
  BY <1>1 DEF NoneCreated, GuestTypes
<1> QED BY <1>2, <1>3, <1>4

\* A core takes a thread that is ready, which no core has.
LEMMA DispatchProperties ==
    ASSUME GuestTypes, RunningOK, NEW c \in Core, NEW t \in Thread, Dispatch(c, t)
    PROVE  GuestTypes' /\ RunningOK' /\ NoneCreated
<1>1. /\ place[c] = "idle" /\ status[t] = "ready"
      /\ status' = [status EXCEPT ![t] = "running"]
      /\ current' = [current EXCEPT ![c] = t]
      /\ place' = [place EXCEPT ![c] = IF inCall[t] THEN "guest" ELSE "entry"]
      /\ inCall' = [inCall EXCEPT ![t] = FALSE] /\ UNCHANGED g_coreIsBusy
  BY DEF Dispatch, Runnable
<1>2. \A d \in Core : current[d] # t
  BY <1>1, TitleAssumption DEF GuestTypes, RunningOK
<1>3. GuestTypes'
  BY <1>1, TitleAssumption DEF GuestTypes, Places
<1>4. RunningOK' /\ NoneCreated
  BY <1>1, <1>2, TitleAssumption DEF GuestTypes, RunningOK, NoneCreated
<1> QED BY <1>3, <1>4

\* What is said about the host's calls rests on the host's variables alone.
LEMMA HostFrame ==
    ASSUME UNCHANGED hostVars
    PROVE  /\ FlagOK => FlagOK'
           /\ crossings' = crossings
           /\ InTurn' <=> InTurn
           /\ HostHolds' <=> HostHolds
BY DEF hostVars, history, FlagOK, PauseIsWhatPlayerSees, SaveHolds, InTurn, HostHolds, Pending

\* The parts of the invariant that a step of the guest without new threads or
\* suspensions has to look after.
LEMMA GuestStep ==
    ASSUME IInv, GuestTypes', RunningOK', NoneCreated,
           UNCHANGED <<suspendCounter, asked, hostVars>>
    PROVE  IInv'
<1>1. UNCHANGED <<suspendCounter, asked>> /\ UNCHANGED hostVars
  OBVIOUS
<1>2. TypeOK'
  BY <1>1 DEF IInv, TypeOK, GuestTypes, hostVars, history
<1>3. FlagOK' /\ crossings' = crossings /\ (InTurn' <=> InTurn) /\ (HostHolds' <=> HostHolds)
  BY <1>1, HostFrame DEF IInv
<1>4. SuspensionsOK => SuspensionsOK'
  BY <1>1, <1>3 DEF SuspensionsOK, NoneCreated
<1> QED BY <1>2, <1>3, <1>4 DEF IInv, CallsOK

\* Steps of the cores and threads that leave the suspensions alone.
LEMMA CoreInvariant ==
    ASSUME IInv, NEW c \in Core, NEW t \in Thread,
           \/ Dispatch(c, t) \/ EnterTimeslice(c) \/ EndTimeslice(c) \/ Reschedule(c)
           \/ SwitchInCall(c) \/ OSExitThread(c) \/ WakeUp(t)
    PROVE  IInv'
<1>1. GuestTypes /\ RunningOK
  BY DEF IInv, TypeOK, GuestTypes
<1>2. UNCHANGED <<suspendCounter, asked, hostVars>>
  BY DEF Dispatch, EnterTimeslice, EndTimeslice, Reschedule, SwitchInCall, OSExitThread, WakeUp
<1>3. CASE Dispatch(c, t)
  BY <1>1, <1>2, <1>3, DispatchProperties, GuestStep
<1>4. CASE EnterTimeslice(c) \/ EndTimeslice(c)
  <2>1. GuestTypes' /\ RunningOK' /\ NoneCreated
    BY <1>1, <1>4 DEF EnterTimeslice, EndTimeslice, GuestTypes, RunningOK, NoneCreated, Places
  <2> QED BY <1>2, <2>1, GuestStep
<1>5. CASE Reschedule(c)
  <2>1. place[c] # "idle" /\ StoreAndIdle(c, "ready", FALSE) BY <1>5 DEF Reschedule
  <2> QED BY <1>1, <1>2, <2>1, StoreProperties, GuestStep
<1>6. CASE SwitchInCall(c)
  <2>1. place[c] # "idle" /\ \E st \in {"ready", "waiting"} : StoreAndIdle(c, st, TRUE)
    BY <1>6 DEF SwitchInCall
  <2> QED BY <1>1, <1>2, <2>1, StoreProperties, GuestStep
<1>7. CASE OSExitThread(c)
  <2>1. place[c] # "idle" /\ StoreAndIdle(c, "none", FALSE) BY <1>7 DEF OSExitThread
  <2> QED BY <1>1, <1>2, <2>1, StoreProperties, GuestStep
<1>8. CASE WakeUp(t)
  <2>1. GuestTypes' /\ RunningOK' /\ NoneCreated
    BY <1>1, <1>8, TitleAssumption DEF WakeUp, GuestTypes, RunningOK, NoneCreated
  <2> QED BY <1>2, <2>1, GuestStep
<1> QED BY <1>3, <1>4, <1>5, <1>6, <1>7, <1>8

\* The guest's own suspensions are counted in both counters.
LEMMA SuspensionInvariant ==
    ASSUME IInv, NEW c \in Core, NEW t \in Thread,
           OSCreateThread(c, t) \/ OSSuspendThread(c, t) \/ OSResumeThread(c, t)
    PROVE  IInv'
<1>1. GuestTypes /\ RunningOK /\ TypeOK
  BY DEF IInv, TypeOK, GuestTypes
<1>2. UNCHANGED hostVars
  BY DEF OSCreateThread, OSSuspendThread, OSResumeThread
<1>3. FlagOK' /\ crossings' = crossings /\ (InTurn' <=> InTurn) /\ (HostHolds' <=> HostHolds)
  BY <1>2, HostFrame DEF IInv
<1>4. GuestTypes' /\ RunningOK' /\ \A u \in Thread \ {t} : status'[u] # "none" => status[u] # "none"
  <2>1. CASE OSCreateThread(c, t)
    BY <1>1, <2>1, TitleAssumption DEF OSCreateThread, GuestTypes, RunningOK
  <2>2. CASE UNCHANGED guestVars
    BY <1>1, <2>2 DEF guestVars, GuestTypes, RunningOK
  <2>3. CASE place[c] # "idle" /\ StoreAndIdle(c, "ready", TRUE)
    BY <1>1, <2>3, StoreProperties DEF NoneCreated
  <2>4. OSSuspendThread(c, t) \/ OSResumeThread(c, t)
           => UNCHANGED guestVars \/ (place[c] # "idle" /\ StoreAndIdle(c, "ready", TRUE))
    BY DEF OSSuspendThread, OSResumeThread
  <2> QED BY <2>1, <2>2, <2>3, <2>4
<1>5. /\ suspendCounter \in [Thread -> Nat] /\ asked \in [Thread -> 0 .. MaxSuspend]
      /\ MaxSuspend \in Nat /\ MaxSuspend >= 1
  BY <1>1, TitleAssumption DEF TypeOK
<1> DEFINE extra == IF HostHolds THEN 1 ELSE 0
<1>6. /\ extra \in {0, 1}
      /\ SuspensionsOK <=> \A u \in Thread : status[u] # "none" => suspendCounter[u] <= asked[u] + extra
      /\ SuspensionsOK' <=> \A u \in Thread : status'[u] # "none" => suspendCounter'[u] <= asked'[u] + extra
  BY <1>3 DEF SuspensionsOK
<1> HIDE DEF extra
<1>7. /\ suspendCounter' \in [Thread -> Nat] /\ asked' \in [Thread -> 0 .. MaxSuspend]
      /\ \A u \in Thread \ {t} : suspendCounter'[u] = suspendCounter[u] /\ asked'[u] = asked[u]
      /\ \/ suspendCounter'[t] <= asked'[t] + extra
         \/ /\ suspendCounter'[t] = suspendCounter[t] + 1 /\ asked'[t] = asked[t] + 1
            /\ status[t] # "none"
         \/ /\ suspendCounter'[t] = suspendCounter[t] - 1 /\ status[t] # "none"
            /\ asked'[t] = IF asked[t] = 0 THEN 0 ELSE asked[t] - 1
  <2>1. CASE OSCreateThread(c, t)
    BY <1>5, <1>6, <2>1 DEF OSCreateThread
  <2>2. CASE OSSuspendThread(c, t)
    BY <1>5, <2>2 DEF OSSuspendThread
  <2>3. CASE OSResumeThread(c, t)
    BY <1>5, <2>3 DEF OSResumeThread
  <2> QED BY <2>1, <2>2, <2>3
<1>8. TypeOK'
  BY <1>1, <1>2, <1>4, <1>7 DEF TypeOK, GuestTypes, hostVars, history
<1>9. SuspensionsOK => SuspensionsOK'
  <2> SUFFICES ASSUME SuspensionsOK, NEW u \in Thread, status'[u] # "none"
               PROVE  suspendCounter'[u] <= asked'[u] + extra
    BY <1>6
  <2>1. CASE u # t
    BY <1>4, <1>6, <1>7, <2>1
  <2>2. CASE u = t
    BY <1>5, <1>6, <1>7, <2>2
  <2> QED BY <2>1, <2>2
<1> QED BY <1>3, <1>4, <1>8, <1>9 DEF IInv, CallsOK
-----------------------------------------------------------------------------
(* The two host queues.                                                     *)

\* The types of what the host's steps change, apart from the counters.
HostTypes ==
    /\ sTitlePaused \in BOOLEAN /\ isPaused \in BOOLEAN /\ ui \in UiCalls
    /\ save \in [phase : SavePhases, wasAlreadyPaused : BOOLEAN, polled : Core]
    /\ pausedInSave \in BOOLEAN /\ crossings \in 0 .. MaxCrossings

\* A step of the host that changes no counter: what it does to the flag keeps a
\* pass that was made before on record.
LEMMA FlagStepFrame ==
    ASSUME IInv, UNCHANGED <<guestVars, suspendCounter, asked>>, HostTypes', FlagOK',
           crossings' = 0 => /\ crossings = 0
                             /\ InTurn => InTurn' /\ (HostHolds => HostHolds')
    PROVE  IInv'
<1>1. UNCHANGED <<status, inCall, current, place, g_coreIsBusy, suspendCounter, asked>>
  BY DEF guestVars
<1>2. TypeOK' /\ RunningOK'
  BY <1>1 DEF IInv, TypeOK, HostTypes, RunningOK
<1>3. CallsOK'
  <2>1. \A t \in Thread : suspendCounter[t] \in Nat /\ asked[t] \in Nat
    BY TitleAssumption DEF IInv, TypeOK
  <2> QED BY <1>1, <2>1 DEF IInv, CallsOK, SuspensionsOK
<1> QED BY <1>2, <1>3 DEF IInv

\* An exchange that overtakes no call leaves the flag, or meets no call.
LEMMA ExchangeProperties ==
    ASSUME crossings \in 0 .. MaxCrossings, sTitlePaused \in BOOLEAN,
           NEW paused \in BOOLEAN, NEW at, Exchange(paused, at)
    PROVE  /\ sTitlePaused' = paused /\ crossings' \in 0 .. MaxCrossings
           /\ crossings' = 0 => /\ crossings = 0
                                /\ \/ sTitlePaused = paused
                                   \/ at # "pauseLock" /\ at # "resumeLock"
BY TitleAssumption DEF Exchange

\* A host step in which no pass over the threads is made.
LEMMA FlagStep ==
    ASSUME IInv,
           \/ UiPause \/ UiResume \/ SaveBegin \/ SavePause \/ PollCore
           \/ SaveEnds \/ SaveResume
    PROVE  IInv'
<1>1. HostTypes /\ FlagOK /\ crossings \in Nat /\ MaxCrossings \in Nat
  BY TitleAssumption DEF IInv, TypeOK, HostTypes
<1>2. UNCHANGED <<guestVars, suspendCounter, asked>>
  BY DEF UiPause, UiResume, SaveBegin, SavePause, PollCore, SaveEnds, SaveResume
<1>3. /\ HostTypes' /\ FlagOK'
      /\ crossings' = 0 => crossings = 0 /\ (InTurn => InTurn' /\ (HostHolds => HostHolds'))
  <2>1. CASE UiPause
    <3>1. Exchange(TRUE, save.phase)
      BY <2>1 DEF UiPause
    <3>2. /\ sTitlePaused' = TRUE /\ crossings' \in 0 .. MaxCrossings
          /\ crossings' = 0 => /\ crossings = 0
                               /\ \/ sTitlePaused = TRUE
                                  \/ save.phase # "pauseLock" /\ save.phase # "resumeLock"
      BY <1>1, <3>1, ExchangeProperties DEF HostTypes
    <3>3. HostTypes'
      BY <1>1, <2>1, <3>2 DEF UiPause, HostTypes, SavePhases, UiCalls, SaveHolds
    <3>4. FlagOK'
      BY <1>1, <2>1, <3>2 DEF UiPause, HostTypes, FlagOK, PauseIsWhatPlayerSees, SaveHolds
    <3>5. crossings' = 0 => crossings = 0 /\ (InTurn => InTurn' /\ (HostHolds => HostHolds'))
      BY <1>1, <2>1, <3>2 DEF UiPause, HostTypes, InTurn, HostHolds, Pending, UiCalls
    <3> QED BY <3>3, <3>4, <3>5
  <2>2. CASE UiResume
    <3>1. Exchange(FALSE, save.phase)
      BY <2>2 DEF UiResume
    <3>2. /\ sTitlePaused' = FALSE /\ crossings' \in 0 .. MaxCrossings
          /\ crossings' = 0 => /\ crossings = 0
                               /\ \/ sTitlePaused = FALSE
                                  \/ save.phase # "pauseLock" /\ save.phase # "resumeLock"
      BY <1>1, <3>1, ExchangeProperties DEF HostTypes
    <3>3. HostTypes'
      BY <1>1, <2>2, <3>2 DEF UiResume, HostTypes, SavePhases, UiCalls, SaveHolds
    <3>4. FlagOK'
      BY <1>1, <2>2, <3>2 DEF UiResume, HostTypes, FlagOK, PauseIsWhatPlayerSees, SaveHolds
    <3>5. crossings' = 0 => crossings = 0 /\ (InTurn => InTurn' /\ (HostHolds => HostHolds'))
      BY <1>1, <2>2, <3>2 DEF UiResume, HostTypes, InTurn, HostHolds, Pending, UiCalls
    <3> QED BY <3>3, <3>4, <3>5
  <2>3. CASE SaveBegin
    BY <1>1, <2>3, TitleAssumption
       DEF SaveBegin, HostTypes, FlagOK, PauseIsWhatPlayerSees, SaveHolds, InTurn, HostHolds, Pending,
           SavePhases, Core, history
  <2>4. CASE SavePause
    <3>1. Exchange(TRUE, ui)
      BY <2>4 DEF SavePause
    <3>2. /\ sTitlePaused' = TRUE /\ crossings' \in 0 .. MaxCrossings
          /\ crossings' = 0 => /\ crossings = 0
                               /\ \/ sTitlePaused = TRUE
                                  \/ ui # "pauseLock" /\ ui # "resumeLock"
      BY <1>1, <3>1, ExchangeProperties DEF HostTypes
    <3>3. HostTypes'
      BY <1>1, <2>4, <3>2 DEF SavePause, HostTypes, SavePhases, UiCalls
    <3>4. FlagOK'
      BY <1>1, <2>4, <3>2 DEF SavePause, HostTypes, FlagOK, PauseIsWhatPlayerSees, SaveHolds
    <3>5. crossings' = 0 => crossings = 0 /\ (InTurn => InTurn' /\ (HostHolds => HostHolds'))
      BY <1>1, <2>4, <3>2 DEF SavePause, HostTypes, InTurn, HostHolds, Pending, UiCalls
    <3> QED BY <3>3, <3>4, <3>5
  <2>5. CASE PollCore
    <3>1. /\ save.phase = "poll" /\ save'.phase \in {"poll", "io"}
          /\ save'.wasAlreadyPaused = save.wasAlreadyPaused
          /\ save' \in [phase : SavePhases, wasAlreadyPaused : BOOLEAN, polled : Core]
          /\ UNCHANGED <<sTitlePaused, isPaused, ui, pausedInSave, crossings>>
      <4>1. save.polled \in Core /\ 0 \in Core
            /\ (save.polled + 1 < NumCores => save.polled + 1 \in Core)
        BY <1>1, TitleAssumption DEF HostTypes, Core
      <4> QED BY <1>1, <2>5, <4>1 DEF PollCore, SavePhases, HostTypes, history
    <3> QED BY <1>1, <3>1
         DEF HostTypes, FlagOK, PauseIsWhatPlayerSees, SaveHolds, InTurn, HostHolds, Pending
  <2>6. CASE SaveEnds
    <3>1. /\ save.phase \in {"poll", "io"}
          /\ save'.phase = IF save.wasAlreadyPaused THEN "none" ELSE "resume"
          /\ save'.wasAlreadyPaused = save.wasAlreadyPaused
          /\ UNCHANGED <<sTitlePaused, isPaused, ui, pausedInSave, crossings>>
      BY <1>1, <2>6 DEF SaveEnds, HostTypes, history
    <3>2. save' \in [phase : SavePhases, wasAlreadyPaused : BOOLEAN, polled : Core]
      <4>1. 0 \in Core BY TitleAssumption DEF Core
      <4> QED BY <1>1, <2>6, <4>1 DEF SaveEnds, SavePhases, HostTypes
    <3> QED BY <1>1, <3>1, <3>2
         DEF HostTypes, FlagOK, PauseIsWhatPlayerSees, SaveHolds, InTurn, HostHolds, Pending
  <2>7. CASE SaveResume
    <3>1. Exchange(FALSE, ui)
      BY <2>7 DEF SaveResume
    <3>2. /\ sTitlePaused' = FALSE /\ crossings' \in 0 .. MaxCrossings
          /\ crossings' = 0 => /\ crossings = 0
                               /\ \/ sTitlePaused = FALSE
                                  \/ ui # "pauseLock" /\ ui # "resumeLock"
      BY <1>1, <3>1, ExchangeProperties DEF HostTypes
    <3>3. HostTypes'
      BY <1>1, <2>7, <3>2 DEF SaveResume, HostTypes, SavePhases, UiCalls
    <3>4. FlagOK'
      BY <1>1, <2>7, <3>2 DEF SaveResume, HostTypes, FlagOK, PauseIsWhatPlayerSees, SaveHolds
    <3>5. crossings' = 0 => crossings = 0 /\ (InTurn => InTurn' /\ (HostHolds => HostHolds'))
      BY <1>1, <2>7, <3>2 DEF SaveResume, HostTypes, InTurn, HostHolds, Pending, UiCalls
    <3> QED BY <3>3, <3>4, <3>5
  <2> QED BY <2>1, <2>2, <2>3, <2>4, <2>5, <2>6, <2>7
<1> QED BY <1>2, <1>3, FlagStepFrame

\* A pass that suspends every thread, or one that takes it back.  In turn, the
\* first is made when none is on record, and the second when one is.
LEMMA PassStep ==
    ASSUME IInv, UNCHANGED <<guestVars, asked, history>>, HostTypes', FlagOK',
           SuspendAll \/ ResumeAll,
           InTurn => /\ InTurn'
                     /\ \/ SuspendAll /\ ~HostHolds /\ HostHolds'
                        \/ ResumeAll /\ HostHolds /\ ~HostHolds'
    PROVE  IInv'
<1>1. /\ TypeOK /\ RunningOK /\ CallsOK
      /\ \A t \in Thread : suspendCounter[t] \in Nat /\ asked[t] \in Nat
  BY TitleAssumption DEF IInv, TypeOK
<1>2. UNCHANGED <<status, inCall, current, place, g_coreIsBusy, asked>> /\ crossings' = crossings
  BY DEF guestVars, history
<1>3. suspendCounter' \in [Thread -> Nat]
  <2>1. CASE SuspendAll BY <1>1, <2>1 DEF SuspendAll
  <2>2. CASE ResumeAll BY <1>1, <2>2 DEF ResumeAll
  <2> QED BY <2>1, <2>2
<1>4. TypeOK' /\ RunningOK'
  BY <1>1, <1>2, <1>3 DEF TypeOK, RunningOK, HostTypes
<1>5. ASSUME InTurn, SuspensionsOK PROVE SuspensionsOK'
  <2>1. CASE SuspendAll /\ ~HostHolds /\ HostHolds'
    <3>1. \A t \in Thread : status[t] # "none" => suspendCounter[t] <= asked[t]
      BY <1>1, <1>5, <2>1 DEF SuspensionsOK
    <3>2. \A t \in Thread :
             suspendCounter'[t] = IF status[t] = "none" THEN suspendCounter[t]
                                  ELSE suspendCounter[t] + 1
      BY <2>1 DEF SuspendAll
    <3>3. \A t \in Thread : status'[t] # "none" => suspendCounter'[t] <= asked'[t] + 1
      BY <1>1, <1>2, <3>1, <3>2
    <3> QED BY <2>1, <3>3 DEF SuspensionsOK
  <2>2. CASE ResumeAll /\ HostHolds /\ ~HostHolds'
    <3>1. \A t \in Thread : status[t] # "none" => suspendCounter[t] <= asked[t] + 1
      BY <1>1, <1>5, <2>2 DEF SuspensionsOK
    <3>2. \A t \in Thread :
             suspendCounter'[t] = IF status[t] = "none" \/ suspendCounter[t] = 0
                                  THEN suspendCounter[t] ELSE suspendCounter[t] - 1
      BY <2>2 DEF ResumeAll
    <3>3. \A t \in Thread : status'[t] # "none" => suspendCounter'[t] <= asked'[t] + 0
      BY <1>1, <1>2, <3>1, <3>2
    <3> QED BY <2>2, <3>3 DEF SuspensionsOK
  <2> QED BY <1>5, <2>1, <2>2
<1>6. CallsOK'
  BY <1>1, <1>2, <1>5 DEF CallsOK
<1> QED BY <1>4, <1>6 DEF IInv

\* The steps of the host queues that hold the scheduler lock.
LEMMA LockStep ==
    ASSUME IInv, UiLock \/ SavePauseLock \/ SaveResumeLock
    PROVE  IInv'
<1>1. HostTypes /\ FlagOK
  BY DEF IInv, TypeOK, HostTypes
<1>2. UNCHANGED <<guestVars, asked, sTitlePaused, isPaused, history>>
  BY DEF UiLock, SavePauseLock, SaveResumeLock
<1>3. CASE UiLock
  <2>1. HostTypes' /\ FlagOK'
    BY <1>1, <1>2, <1>3 DEF UiLock, HostTypes, FlagOK, PauseIsWhatPlayerSees, SaveHolds, UiCalls, history
  <2>2. /\ SuspendAll \/ ResumeAll
        /\ InTurn => /\ InTurn'
                     /\ \/ SuspendAll /\ ~HostHolds /\ HostHolds'
                        \/ ResumeAll /\ HostHolds /\ ~HostHolds'
    BY <1>1, <1>3 DEF UiLock, HostTypes, InTurn, HostHolds, Pending, UiCalls
  <2> QED BY <1>2, <2>1, <2>2, PassStep
<1>4. CASE SavePauseLock
  <2>1. HostTypes' /\ FlagOK'
    BY <1>1, <1>2, <1>4
       DEF SavePauseLock, HostTypes, FlagOK, PauseIsWhatPlayerSees, SaveHolds, SavePhases, history
  <2>2. /\ SuspendAll
        /\ InTurn => InTurn' /\ ~HostHolds /\ HostHolds'
    BY <1>1, <1>4 DEF SavePauseLock, HostTypes, InTurn, HostHolds, Pending, SavePhases
  <2> QED BY <1>2, <2>1, <2>2, PassStep
<1>5. CASE SaveResumeLock
  <2>1. HostTypes' /\ FlagOK'
    BY <1>1, <1>2, <1>5
       DEF SaveResumeLock, HostTypes, FlagOK, PauseIsWhatPlayerSees, SaveHolds, SavePhases, history
  <2>2. /\ ResumeAll
        /\ InTurn => InTurn' /\ HostHolds /\ ~HostHolds'
    BY <1>1, <1>5 DEF SaveResumeLock, HostTypes, InTurn, HostHolds, Pending, SavePhases
  <2> QED BY <1>2, <2>1, <2>2, PassStep
<1> QED BY <1>3, <1>4, <1>5
-----------------------------------------------------------------------------
(* The specification.                                                       *)

\* A title starts with its first thread ready and nothing paused.
LEMMA InitInvariant == Init => IInv
<1> SUFFICES ASSUME Init PROVE IInv
  OBVIOUS
<1>1. TypeOK
  <2>1. 0 \in Core /\ 0 \in 0 .. MaxSuspend /\ 0 \in 0 .. MaxCrossings
    BY TitleAssumption DEF Core
  <2>2. save \in [phase : SavePhases, wasAlreadyPaused : BOOLEAN, polled : Core]
    BY <2>1 DEF Init, SavePhases
  <2>3. /\ suspendCounter \in [Thread -> Nat]
        /\ asked \in [Thread -> 0 .. MaxSuspend]
    BY <2>1 DEF Init
  <2> QED BY <2>1, <2>2, <2>3 DEF Init, TypeOK, Places, UiCalls
<1>2. RunningOK /\ FlagOK /\ InTurn
  BY DEF Init, RunningOK, FlagOK, PauseIsWhatPlayerSees, SaveHolds, InTurn, Pending
<1>3. SuspensionsOK
  BY TitleAssumption DEF Init, SuspensionsOK
<1> QED BY <1>1, <1>2, <1>3 DEF IInv, CallsOK

\* Every step keeps the invariant.
LEMMA NextInvariant == IInv /\ [Next]_vars => IInv'
<1> SUFFICES ASSUME IInv, [Next]_vars PROVE IInv'
  OBVIOUS
<1>1. CASE HostStep
  BY <1>1, FlagStep, LockStep DEF HostStep
<1>2. ASSUME NEW c \in Core, CoreStep(c) PROVE IInv'
  <2>1. \A t \in Thread : (\/ Dispatch(c, t) \/ EnterTimeslice(c) \/ EndTimeslice(c)
                           \/ Reschedule(c) \/ SwitchInCall(c) \/ OSExitThread(c)) => IInv'
    BY CoreInvariant
  <2>2. \A t \in Thread :
           OSCreateThread(c, t) \/ OSSuspendThread(c, t) \/ OSResumeThread(c, t) => IInv'
    BY SuspensionInvariant
  <2>3. CASE EnterTimeslice(c) \/ EndTimeslice(c) \/ Reschedule(c) \/ SwitchInCall(c)
             \/ OSExitThread(c)
    <3>1. Boot \in Thread BY TitleAssumption
    <3> QED BY <2>1, <2>3, <3>1
  <2>4. ASSUME NEW t \in Thread, \/ Dispatch(c, t) \/ OSCreateThread(c, t)
                                 \/ OSSuspendThread(c, t) \/ OSResumeThread(c, t)
        PROVE IInv'
    BY <2>1, <2>2, <2>4
  <2> QED BY <1>2, <2>3, <2>4 DEF CoreStep
<1>3. ASSUME NEW t \in Thread, WakeUp(t) PROVE IInv'
  <2>1. 0 \in Core BY TitleAssumption DEF Core
  <2> QED BY <1>3, <2>1, CoreInvariant
<1>4. CASE UNCHANGED vars
  <2>1. UNCHANGED <<status, inCall, current, place, g_coreIsBusy, suspendCounter, asked,
                    sTitlePaused, isPaused, ui, save, pausedInSave, crossings>>
    BY <1>4 DEF vars, guestVars, hostVars, history
  <2>2. FlagOK' /\ (InTurn' <=> InTurn) /\ (HostHolds' <=> HostHolds)
    BY <1>4, HostFrame DEF vars, IInv
  <2> QED BY <2>1, <2>2 DEF IInv, TypeOK, RunningOK, CallsOK, SuspensionsOK
<1> QED BY <1>1, <1>2, <1>3, <1>4 DEF Next

\* The flag, the phases of the callers and, until a call is overtaken, the
\* suspensions of the threads stay in step.
THEOREM TitlePauseInvariant == Spec => []IInv
<1>1. Init => IInv BY InitInvariant
<1>2. IInv /\ [Next]_vars => IInv' BY NextInvariant
<1> QED BY <1>1, <1>2, PTL DEF Spec

\* Every variable keeps its type: the suspend counters stay natural numbers.
THEOREM TypeCorrect == Spec => []TypeOK
<1>1. Spec => []IInv BY TitlePauseInvariant
<1>2. IInv => TypeOK BY DEF IInv
<1> QED BY <1>1, <1>2, PTL

\* However the player's calls fall into those of a save (the two queues of
\* ContentView.swift do not wait for each other), a pause has an owner, and the
\* player's own pause ends only by a resume or with a save it was made in.
THEOREM PauseStaysWhatPlayerSees == Spec => []PauseIsWhatPlayerSees
<1>1. Spec => []IInv BY TitlePauseInvariant
<1>2. IInv => PauseIsWhatPlayerSees BY DEF IInv, FlagOK
<1> QED BY <1>1, <1>2, PTL

\* IOSTitlePause_Resume takes back what IOSTitlePause_Pause added, although
\* threads are created, resumed and exit in between and pauses are made in the
\* middle of saves: only a call that is overtaken leaves suspensions behind.
THEOREM NoSuspensionLeftBehind == Spec => []OnlyCrossingsLeaveSuspensions
<1>1. Spec => []IInv BY TitlePauseInvariant
<1>2. ASSUME IInv, crossings = 0, NoHostCall, ~sTitlePaused, NEW t \in Thread, status[t] # "none"
      PROVE  suspendCounter[t] <= asked[t]
  <2>1. ~HostHolds BY <1>2 DEF HostHolds, Pending, NoHostCall
  <2>2. asked[t] \in Nat BY <1>2 DEF IInv, TypeOK
  <2> QED BY <1>2, <2>1, <2>2 DEF IInv, CallsOK, SuspensionsOK
<1>3. IInv => OnlyCrossingsLeaveSuspensions
  BY <1>2 DEF OnlyCrossingsLeaveSuspensions, NoThreadLeftSuspended
<1> QED BY <1>1, <1>3, PTL
-----------------------------------------------------------------------------
(* What a pause that has settled is worth.                                  *)

\* Every thread is held and every core is back in its idle fiber.
Settled == AllHeld /\ \A c \in Core : place[c] = "idle"

\* The title stays at rest for as long as it stays paused.  A resume that was
\* overtaken by a pause still takes its suspensions back.
StaysQuiet == [][Settled /\ sTitlePaused' /\ crossings' = 0 => Settled']_vars

\* PauseSettles says that a paused title comes to rest; from there no alarm, no
\* dispatch and no step of a save sets it in motion while it stays paused.  A
\* save that starts to write memory then writes it while nothing runs.
THEOREM PausedStaysQuiet == Spec => StaysQuiet
<1> DEFINE Quiet == Settled /\ sTitlePaused' /\ crossings' = 0 => Settled'
<1>1. ASSUME IInv, Next, Settled, sTitlePaused', crossings' = 0 PROVE Settled'
  <2>1. /\ \A t \in Thread : status[t] # "none" => suspendCounter[t] > 0
        /\ \A c \in Core : place[c] = "idle"
        /\ suspendCounter \in [Thread -> Nat] /\ MainCore \in Core
    BY <1>1, TitleAssumption DEF Settled, AllHeld, IInv, TypeOK, Core
  <2>2. ASSUME UNCHANGED <<status, suspendCounter, place>> PROVE Settled'
    BY <1>1, <2>1, <2>2 DEF Settled, AllHeld
  <2>3. CASE HostStep
    <3>1. status' = status /\ place' = place
      BY <2>3 DEF HostStep, UiPause, UiResume, UiLock, SaveBegin, SavePause, SavePauseLock, PollCore,
         SaveEnds, SaveResume, SaveResumeLock, guestVars
    <3>2. SuspendAll \/ UNCHANGED suspendCounter
      <4>1. CASE UiLock \/ SaveResumeLock
        <5>1. sTitlePaused /\ crossings = 0 /\ ui \in UiCalls
          BY <1>1, <4>1 DEF IInv, TypeOK, UiLock, SaveResumeLock, history
        <5> QED BY <1>1, <4>1, <5>1
             DEF IInv, CallsOK, InTurn, Pending, UiLock, UiCalls, SaveResumeLock
      <4>2. CASE SavePauseLock BY <4>2 DEF SavePauseLock
      <4>3. CASE UiPause \/ UiResume \/ SaveBegin \/ SavePause \/ PollCore \/ SaveEnds \/ SaveResume
        BY <4>3 DEF UiPause, UiResume, SaveBegin, SavePause, PollCore, SaveEnds, SaveResume
      <4> QED BY <2>3, <4>1, <4>2, <4>3 DEF HostStep
    <3>3. CASE SuspendAll
      BY <1>1, <2>1, <3>1, <3>3 DEF SuspendAll, Settled, AllHeld
    <3> QED BY <2>2, <3>1, <3>2, <3>3
  <2>4. ASSUME NEW c \in Core, CoreStep(c) PROVE FALSE
    <3>1. ASSUME NEW t \in Thread, Dispatch(c, t) PROVE FALSE
      BY <2>1, <3>1 DEF Dispatch, Runnable
    <3> QED BY <2>1, <2>4, <3>1 DEF CoreStep, EnterTimeslice, EndTimeslice, Reschedule, SwitchInCall,
              OSExitThread, OSCreateThread, OSSuspendThread, OSResumeThread
  <2>5. ASSUME NEW t \in Thread, WakeUp(t) PROVE Settled'
    <3>1. /\ status[t] = "waiting" /\ status' = [status EXCEPT ![t] = "ready"]
          /\ UNCHANGED <<suspendCounter, place>>
      BY <2>5 DEF WakeUp
    <3>2. \A u \in Thread : status'[u] # "none" => status[u] # "none"
      BY <1>1, <3>1 DEF IInv, TypeOK
    <3> QED BY <1>1, <2>1, <3>1, <3>2 DEF Settled, AllHeld
  <2> QED BY <1>1, <2>3, <2>4, <2>5 DEF Next
<1>2. IInv /\ [Next]_vars => [Quiet]_vars BY <1>1
<1>3. Spec => []IInv BY TitlePauseInvariant
<1> QED BY <1>2, <1>3, PTL DEF Spec, StaysQuiet
=============================================================================
