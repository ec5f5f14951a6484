------------------------------- MODULE Alarm -------------------------------
(***************************************************************************)
(* coreinit_Alarm.cpp: host alarms, the guest alarms and the alarm thread  *)
(* built on them, and the calls that wait with a host alarm (OSSleepTicks, *)
(* OSWaitEventWithTimeout).  Everything but the quick check of             *)
(* alarm_update, the clock and the guest's callbacks runs under the        *)
(* scheduler lock; updateAlarms is one action per host alarm that it       *)
(* fires, and holds the lock in between.                                   *)
(***************************************************************************)
EXTENDS Integers

CONSTANTS
    Host,            \* OSHostAlarm objects
    Alarm, Ticker,   \* guest alarms, and those that padscore and vpad start
    Thread, None,
    memory,          \* bound: the objects that new returns for an alarm or a thread
    Delays,          \* delays that titles ask for
    Starts, Periods, \* the same for periodic alarms
    TickerPeriod,
    Word,            \* ticks are counted modulo Word
    MaxTime          \* bound of the clock

ASSUME AlarmAssumption ==
    /\ Ticker \subseteq Alarm
    /\ None \notin Host \union Thread \union Nat
    /\ "alarmEvent" \notin Thread \union {None}
    /\ memory \in [Alarm \union Thread -> SUBSET Host]
    /\ Word \in Nat \ {0} /\ MaxTime \in Nat
    /\ Delays \subseteq 0 .. Word - 1 /\ Starts \subseteq 0 .. Word - 1
    /\ \A p \in Periods \union {TickerPeriod} : p \in Nat \ {0} /\ MaxTime + p < Word - 1

VARIABLES
    now,             \* OSGetTime
    host,            \* g_activeAlarmList: the host alarms in it, Unlisted for the others
    g_soonestAlarm,
    alarm,           \* OSAlarm_t with its entry in g_activeAlarms
    signaled,        \* g_alarmEvent is signaled
    alarmThread,     \* where _OSAlarmThread is, and its currentTick
    update,          \* where alarm_update is, and its currentTick
    call,            \* the wait with a host alarm a thread is in
    waiting,         \* the threads whose wait nothing has ended
    undefined        \* what the program has done that C++ does not define

vars == <<now, host, g_soonestAlarm, alarm, signaled, alarmThread, update, call, waiting,
          undefined>>

Ticks == 0 .. Word - 1
Never == Word - 1                \* numeric_limits<uint64>::max()
Unlisted == [nextFire |-> 0, period |-> 0, handler |-> None]
NoCall == [host |-> None, timed |-> FALSE]
Created == [host |-> None, nextTime |-> 0, period |-> 0]

Listed(h) == host[h] # Unlisted
Active(a) == alarm[a].host # None

\* The program goes on, and nobody has the scheduler lock.
Running == undefined = "no"
Unlocked == Running /\ update.at # "firing"
-----------------------------------------------------------------------------
(* The list of host alarms.                                                 *)

\* A new object is none that is in the list or that somebody still holds,
\* or it is the old one that was deleted just before.
IsNew(h) ==
    /\ ~Listed(h)
    /\ \A a \in Alarm : alarm[a].host # h
    /\ \A t \in Thread : call[t].host # h
HasNew(x, old) == \E h \in memory[x] : IsNew(h) \/ h = old
New(x, old) == CHOOSE h \in memory[x] : IsNew(h) \/ h = old

\* The alarm at begin() of the list in the next state.
updateEarliestAlarmAtomic ==
    \/ (\A h \in Host : ~Listed(h)') /\ g_soonestAlarm' = Never
    \/ \E h \in Host :
          /\ Listed(h)' /\ \A g \in Host : Listed(g)' => host'[h].nextFire <= host'[g].nextFire
          /\ g_soonestAlarm' = host'[h].nextFire

\* Mutant: the time of the first alarm is not kept up to date.
CreateOnly(h, old, hostAlarm) ==
    /\ host' = [x \in Host |-> IF x = h THEN hostAlarm ELSE IF x = old THEN Unlisted ELSE host[x]]
    /\ UNCHANGED g_soonestAlarm

\* OSHostAlarmCreate after OSHostAlarmDestroy of old.
OSHostAlarmCreate(h, old, hostAlarm) ==
    /\ host' = [x \in Host |-> IF x = h THEN hostAlarm ELSE IF x = old THEN Unlisted ELSE host[x]]
    /\ updateEarliestAlarmAtomic

\* An object that has left the list before is only freed.
OSHostAlarmDestroy(h) ==
    \/ /\ Listed(h) /\ host' = [host EXCEPT ![h] = Unlisted]
       /\ updateEarliestAlarmAtomic
    \/ ~Listed(h) /\ UNCHANGED <<host, g_soonestAlarm>>
-----------------------------------------------------------------------------
(* alarm_update, on the main core between two threads or while it is idle.  *)

Tick == Running /\ now < MaxTime /\ now' = now + 1
        /\ UNCHANGED <<host, g_soonestAlarm, alarm, signaled, alarmThread, update, call, waiting,
                       undefined>>

\* The time is read and compared before the lock is taken.
quickCheckForAlarm ==
    /\ Running /\ update.at = "idle" /\ now >= g_soonestAlarm
    /\ update' = [at |-> "checked", tick |-> now]
    /\ UNCHANGED <<now, host, g_soonestAlarm, alarm, signaled, alarmThread, call, waiting, undefined>>

Idle == [at |-> "idle", tick |-> 0]

updateAlarmsStarts ==
    /\ Running /\ update.at = "checked"
    /\ update' = IF \E h \in Host : Listed(h) THEN [update EXCEPT !.at = "firing"] ELSE Idle
    /\ UNCHANGED <<now, host, g_soonestAlarm, alarm, signaled, alarmThread, call, waiting, undefined>>

\* OSSignalEventInternal for g_alarmEvent, whose one waiter is the alarm thread.
__OSHostAlarmTriggered ==
    /\ \/ /\ ~signaled /\ alarmThread.at = "waiting"
          /\ alarmThread' = [alarmThread EXCEPT !.at = "ready"]
          /\ UNCHANGED signaled
       \/ /\ signaled \/ alarmThread.at # "waiting"
          /\ signaled' = TRUE
          /\ UNCHANGED alarmThread
    /\ UNCHANGED <<waiting, undefined>>

\* _OSSleepTicks_alarmHandler and _OSWaitEventWithTimeoutHandler end the wait
\* of the thread that made the host alarm, if nothing else has ended it.  Their
\* context is on the stack of that call.
WaitHandler(h, t) ==
    /\ IF call[t].host = h THEN waiting' = waiting \ {t} /\ UNCHANGED undefined
       ELSE undefined' = "staleContext" /\ UNCHANGED waiting
    /\ UNCHANGED <<signaled, alarmThread>>

triggerAlarm(h) ==
    IF host[h].handler = "alarmEvent" THEN __OSHostAlarmTriggered ELSE WaitHandler(h, host[h].handler)

IsFirst(h) == Listed(h) /\ \A g \in Host : Listed(g) => host[h].nextFire <= host[g].nextFire

\* Mutant: a periodic alarm is not put back.
FireOnce(h) ==
    /\ Running /\ update.at = "firing"
    /\ IsFirst(h) /\ host[h].nextFire <= update.tick
    /\ triggerAlarm(h)
    /\ host' = [host EXCEPT ![h] = Unlisted]
    /\ updateEarliestAlarmAtomic
    /\ UNCHANGED <<now, alarm, update, call>>

\* A periodic host alarm is put back into the list for its next period.
Requeued(hostAlarm) ==
    IF hostAlarm.period = 0 THEN Unlisted
    ELSE [hostAlarm EXCEPT !.nextFire = @ + hostAlarm.period]

\* The first alarm of the list is due.
updateAlarmsFires(h) ==
    /\ Running /\ update.at = "firing"
    /\ IsFirst(h) /\ host[h].nextFire <= update.tick
    /\ triggerAlarm(h)
    /\ host' = [host EXCEPT ![h] = Requeued(@)]
    /\ updateEarliestAlarmAtomic
    /\ UNCHANGED <<now, alarm, update, call>>

\* No further alarm is due.  The loop does not look whether there is one:
\* begin() of an empty list is undefined.
updateAlarmsEnds ==
    /\ Running /\ update.at = "firing"
    /\ \A h \in Host : Listed(h) => host[h].nextFire > update.tick
    /\ update' = Idle
    /\ undefined' = IF \E h \in Host : Listed(h) THEN undefined ELSE "emptyList"
    /\ UNCHANGED <<now, host, g_soonestAlarm, alarm, signaled, alarmThread, call, waiting>>
-----------------------------------------------------------------------------
(* Guest alarms.                                                            *)

\* The rest of the state an alarm call leaves alone.
alarmUnchanged == UNCHANGED <<now, signaled, alarmThread, update, call, waiting, undefined>>

\* What is in an alarm that is not active is never read before it is set anew.
OSCancelAlarm(a) ==
    /\ Unlocked /\ Active(a)
    /\ OSHostAlarmDestroy(alarm[a].host)
    /\ alarm' = [alarm EXCEPT ![a] = Created]
    /\ alarmUnchanged

\* An alarm that is active is set anew.
__OSInitiateAlarm(a, nextTime, period) ==
    /\ Unlocked /\ now < MaxTime
    /\ HasNew(a, alarm[a].host)
    /\ LET h == New(a, alarm[a].host) IN
       /\ OSHostAlarmCreate(h, alarm[a].host,
              [nextFire |-> nextTime, period |-> period, handler |-> "alarmEvent"])
       /\ alarm' = [alarm EXCEPT ![a] = [host |-> h, nextTime |-> nextTime, period |-> period]]
    /\ alarmUnchanged

\* Mutant: the sum is not an uint64.
SetWithoutWrap(a, delayInTicks) == __OSInitiateAlarm(a, now + delayInTicks, 0)
OSSetAlarm(a, delayInTicks) == __OSInitiateAlarm(a, (now + delayInTicks) % Word, 0)

\* Mutant: one period too many.
OnePeriodLater(startTime, period) ==
    LET ticksSinceStart == (now - startTime) % Word IN
    (startTime + (ticksSinceStart \div period + 2) * period) % Word

\* With a start in the future, ticksSinceStart wraps around.  A period of 0
\* is refused.
nextPeriod(startTime, period) ==
    LET ticksSinceStart == (now - startTime) % Word IN
    (startTime + (ticksSinceStart \div period + 1) * period) % Word

OSSetPeriodicAlarm(a, startTime, period) ==
    __OSInitiateAlarm(a, nextPeriod(startTime, period), period)

\* padscore::start and vpad::start, after the initialization code of the title has run.
start(a) == ~Active(a) /\ OSSetPeriodicAlarm(a, now, TickerPeriod)
-----------------------------------------------------------------------------
(* _OSAlarmThread.                                                          *)

alarmThreadUnchanged == UNCHANGED <<now, host, g_soonestAlarm, update, call, waiting, undefined>>
GoesTo(place) == alarmThread' = [alarmThread EXCEPT !.at = place]

AlarmThreadWaits ==
    /\ Unlocked /\ alarmThread.at = "call"
    /\ GoesTo(IF signaled THEN "ready" ELSE "waiting") /\ signaled' = FALSE
    /\ UNCHANGED alarm /\ alarmThreadUnchanged

AlarmThreadReadsTime ==
    /\ Running /\ alarmThread.at = "ready"
    /\ alarmThread' = [at |-> "scan", tick |-> now]
    /\ UNCHANGED <<alarm, signaled>> /\ alarmThreadUnchanged

IsDue(a) == Active(a) /\ alarm[a].nextTime <= alarmThread.tick

Fired(guestAlarm) ==
    IF guestAlarm.period = 0 THEN Created
    ELSE [guestAlarm EXCEPT !.nextTime = @ + guestAlarm.period]

\* An alarm that fires once leaves g_activeAlarms here, and its host alarm to
\* itself: if that has not fired yet it will still signal the event.
AlarmThreadFires(a) ==
    /\ Unlocked /\ alarmThread.at = "scan" /\ IsDue(a) /\ GoesTo("callback")
    /\ alarm' = [alarm EXCEPT ![a] = Fired(@)]
    /\ UNCHANGED signaled /\ alarmThreadUnchanged

\* Mutant: the event is reset after the scan.
EndsScanWithReset ==
    /\ Unlocked /\ alarmThread.at = "scan"
    /\ \A a \in Alarm : ~IsDue(a)
    /\ alarmThread' = [at |-> "call", tick |-> 0] /\ signaled' = FALSE
    /\ UNCHANGED alarm /\ alarmThreadUnchanged

AlarmThreadEndsScan ==
    /\ Unlocked /\ alarmThread.at = "scan"
    /\ \A a \in Alarm : ~IsDue(a)
    /\ alarmThread' = [at |-> "call", tick |-> 0]
    /\ UNCHANGED <<alarm, signaled>> /\ alarmThreadUnchanged

\* The callback of the title returns.  What it calls it could call from any thread.
CallbackReturns ==
    /\ Running /\ alarmThread.at = "callback" /\ GoesTo("scan")
    /\ UNCHANGED <<alarm, signaled>> /\ alarmThreadUnchanged
-----------------------------------------------------------------------------
(* Waits with a host alarm.                                                 *)

waitUnchanged == UNCHANGED <<now, alarm, signaled, alarmThread, update, undefined>>

\* OSSleepTicks, or OSWaitEventWithTimeout where it has to wait.
WaitsFor(t, ticks, timed) ==
    /\ Unlocked /\ now < MaxTime /\ call[t] = NoCall
    /\ HasNew(t, None)
    /\ LET h == New(t, None) IN
       /\ OSHostAlarmCreate(h, None,
              [nextFire |-> (now + ticks) % Word, period |-> 0, handler |-> t])
       /\ call' = [call EXCEPT ![t] = [host |-> h, timed |-> timed]]
    /\ waiting' = waiting \union {t}
    /\ waitUnchanged

\* The event that OSWaitEventWithTimeout waits for is signaled.
WaitIsSignaled(t) ==
    /\ Unlocked /\ t \in waiting /\ call[t].timed
    /\ waiting' = waiting \ {t}
    /\ UNCHANGED <<host, g_soonestAlarm, call>> /\ waitUnchanged

\* Mutant: only a wait that has timed out ends its host alarm.
ReturnWithoutDestroy(t) ==
    /\ Unlocked /\ call[t] # NoCall /\ t \notin waiting
    /\ call' = [call EXCEPT ![t] = NoCall]
    /\ UNCHANGED <<host, g_soonestAlarm, waiting>> /\ waitUnchanged

\* The thread runs again.
WaitReturns(t) ==
    /\ Unlocked /\ call[t] # NoCall /\ t \notin waiting
    /\ OSHostAlarmDestroy(call[t].host)
    /\ call' = [call EXCEPT ![t] = NoCall]
    /\ UNCHANGED waiting /\ waitUnchanged
-----------------------------------------------------------------------------
(* The end of a title and the start of the next one.                        *)

\* OSAlarm_Shutdown, with the cores stopped: without active alarms the list
\* is left as it is.
OSAlarm_Shutdown ==
    \/ (\A a \in Alarm : ~Active(a)) /\ UNCHANGED <<host, g_soonestAlarm>>
    \/ /\ \E a \in Alarm : Active(a)
       /\ host' = [h \in Host |-> Unlisted] /\ g_soonestAlarm' = 0

\* The threads are deleted with what is on their stacks; InitializeAlarm
\* makes the event and the alarm thread of the next title.
ShutdownTitle ==
    /\ Running /\ update = Idle
    /\ OSAlarm_Shutdown
    /\ alarm' = [a \in Alarm |-> Created]
    /\ signaled' = FALSE /\ alarmThread' = [at |-> "call", tick |-> 0]
    /\ call' = [t \in Thread |-> NoCall] /\ waiting' = {}
    /\ UNCHANGED <<now, update, undefined>>
-----------------------------------------------------------------------------
Init ==
    /\ now = 0
    /\ host = [h \in Host |-> Unlisted] /\ g_soonestAlarm = 0
    /\ alarm = [a \in Alarm |-> Created]
    /\ signaled = FALSE /\ alarmThread = [at |-> "call", tick |-> 0]
    /\ update = Idle
    /\ call = [t \in Thread |-> NoCall] /\ waiting = {}
    /\ undefined = "no"

alarm_update ==
    quickCheckForAlarm \/ updateAlarmsStarts \/ (\E h \in Host : updateAlarmsFires(h)) \/ updateAlarmsEnds

_OSAlarmThread ==
    \/ AlarmThreadWaits \/ AlarmThreadReadsTime \/ AlarmThreadEndsScan \/ CallbackReturns
    \/ \E a \in Alarm : AlarmThreadFires(a)

GuestAlarms(a) ==
    \/ OSCancelAlarm(a)
    \/ \E d \in Delays : OSSetAlarm(a, d)
    \/ \E s \in Starts, p \in Periods : OSSetPeriodicAlarm(a, s, p)

GuestWaits(t) ==
    \/ \E d \in Delays, timed \in BOOLEAN : WaitsFor(t, d, timed)
    \/ WaitIsSignaled(t) \/ WaitReturns(t)

Next ==
    \/ Tick \/ alarm_update \/ _OSAlarmThread \/ ShutdownTitle
    \/ \E a \in Ticker : start(a)
    \/ \E a \in Alarm \ Ticker : GuestAlarms(a)
    \/ \E t \in Thread : GuestWaits(t)

Spec == Init /\ [][Next]_vars

\* Time passes, the main core comes by its idle loop, the alarm thread runs
\* and the callbacks of the title return.
FairSpec == Spec /\ WF_vars(Tick) /\ WF_vars(alarm_update) /\ WF_vars(_OSAlarmThread)
-----------------------------------------------------------------------------
Period == Periods \union {TickerPeriod, 0}
HostAlarm == [nextFire : Ticks, period : Period,
              handler : Thread \union {"alarmEvent", None}]

TypeOK ==
    /\ now \in 0 .. MaxTime
    /\ host \in [Host -> HostAlarm] /\ g_soonestAlarm \in Ticks
    /\ alarm \in [Alarm -> [host : Host \union {None}, nextTime : Ticks, period : Period]]
    /\ signaled \in BOOLEAN
    /\ alarmThread \in [at : {"call", "waiting", "ready", "scan", "callback"}, tick : 0 .. now]
    /\ update \in [at : {"idle", "checked", "firing"}, tick : 0 .. now]
    /\ call \in [Thread -> [host : Host \union {None}, timed : BOOLEAN]]
    /\ waiting \subseteq Thread
    /\ undefined \in {"no", "emptyList", "staleContext"}

\* Every active alarm still has somebody who will look at it when it is due:
\* a host alarm that fires no later, or else the alarm thread, which is
\* signaled, is about to read the time or scans with a time that reaches it;
\* and every thread that waits has its host alarm in the list
\* (updateAlarms re-lists periodic alarms, Alarm.cpp:95; the alarm thread
\* reads the time once per wake-up, :313).
AlarmThreadComesFor(time) ==
    \/ signaled /\ alarmThread.at # "waiting"
    \/ alarmThread.at = "ready"
    \/ alarmThread.at \in {"scan", "callback"} /\ time <= alarmThread.tick

HostAlarmFiresFor(a) ==
    Listed(alarm[a].host) /\ host[alarm[a].host].nextFire <= alarm[a].nextTime

NoAlarmIsLost ==
    /\ \A a \in Alarm : Active(a) => HostAlarmFiresFor(a) \/ AlarmThreadComesFor(alarm[a].nextTime)
    /\ \A t \in waiting : Listed(call[t].host) /\ host[call[t].host].handler = t

\* begin() of the empty list is read only as long as the alarms of padscore
\* and vpad do not run: they keep the list from getting empty, which the loop
\* of updateAlarms relies on without saying so (Alarm.cpp:85).
EmptyListOnlyBeforeTickers == undefined = "emptyList" => \A a \in Ticker : ~Active(a)

\* No host alarm outlives the wait it was made for, with its context on the
\* stack of the waiting thread: only a title that ends without any active
\* alarm leaves such host alarms to the next one (the early return of
\* OSAlarm_Shutdown, Alarm.cpp:294).
Stale == {h \in Host : /\ Listed(h) /\ host[h].handler # "alarmEvent"
                       /\ call[host[h].handler].host # h}
WaitsEndTheirAlarms == [][(\E a \in Alarm : Active(a)) => Stale' \subseteq Stale]_vars

\* A periodic alarm is never more than a period away, also when its start is
\* in the future and the ticks since then wrap around (Alarm.cpp:237), and
\* however late the alarm thread has fired it before (:333).
PeriodicWithinAPeriod ==
    \A a \in Alarm : Active(a) /\ alarm[a].period # 0 => alarm[a].nextTime <= now + alarm[a].period

\* What is due happens: an alarm fires (or is set anew or cancelled), and a
\* wait with a host alarm ends (alarm_update and _OSAlarmThread).
Due(a) == Active(a) /\ alarm[a].nextTime <= now
WaitIsDue(t) == t \in waiting /\ host[call[t].host].nextFire <= now
DueIsServed ==
    /\ \A a \in Alarm : Due(a) ~> ~Due(a) \/ ~Running
    /\ \A t \in Thread : WaitIsDue(t) ~> ~WaitIsDue(t) \/ ~Running
=============================================================================
