---------------------------- MODULE Alarm_proofs ----------------------------
(* The invariants of Alarm for every number of alarms, threads and ticks.    *)
EXTENDS Alarm, TLAPS

\* Whose the host alarms are.
HostsOwned ==
    /\ \A a \in Alarm : Active(a) /\ Listed(alarm[a].host) =>
          /\ host[alarm[a].host].handler = "alarmEvent"
          /\ host[alarm[a].host].period = alarm[a].period
    /\ \A a \in Alarm : Active(a) /\ alarm[a].period # 0 => Listed(alarm[a].host)
    /\ \A a, b \in Alarm : Active(a) /\ Active(b) /\ a # b => alarm[a].host # alarm[b].host
    /\ \A a \in Alarm, t \in Thread : Active(a) => call[t].host # alarm[a].host
    /\ \A t, u \in Thread : t # u /\ call[t].host # None => call[t].host # call[u].host
    /\ \A t \in waiting : Listed(call[t].host) /\ host[call[t].host].handler = t
    /\ \A t \in Thread : call[t] # NoCall => call[t].host # None
    /\ \A t \in waiting : call[t] # NoCall
    /\ \A h \in Host : Listed(h) => host[h].handler # None

TickersRepeat == \A a \in Ticker : Active(a) => alarm[a].period # 0
SignalFindsThread == signaled => alarmThread.at # "waiting"

\* The alarm and its host alarm are a number of periods apart.
InStep ==
    \A a \in Alarm : Active(a) /\ Listed(alarm[a].host) =>
       \E k \in Int : alarm[a].nextTime = host[alarm[a].host].nextFire + k * alarm[a].period

\* The last time for which the host alarm of a has fired, if it is not still to come.
reached(a) ==
    IF alarm[a].period = 0 THEN alarm[a].nextTime
    ELSE host[alarm[a].host].nextFire - alarm[a].period

Covered(a) ==
    HostAlarmFiresFor(a) \/ (reached(a) <= now /\ AlarmThreadComesFor(reached(a)))
Coverage == \A a \in Alarm : Active(a) => Covered(a)

IInv ==
    /\ TypeOK /\ HostsOwned /\ TickersRepeat /\ SignalFindsThread /\ InStep /\ Coverage
    /\ PeriodicWithinAPeriod /\ EmptyListOnlyBeforeTickers
-----------------------------------------------------------------------------
(* Arithmetic.                                                              *)

LEMMA Remainder ==
  ASSUME NEW W \in Nat \ {0}, NEW x \in Int
  PROVE  /\ x % W \in 0 .. W - 1
         /\ x \in 0 .. W - 1 => x % W = x
         /\ -W < x /\ x < 0 => x % W = x + W
         /\ W <= x /\ x < 2 * W => x % W = x - W
  OBVIOUS

LEMMA Quotient ==
  ASSUME NEW p \in Nat \ {0}, NEW x \in Nat
  PROVE  x \div p \in Nat /\ (x \div p) * p <= x /\ x < (x \div p + 1) * p
  OBVIOUS

LEMMA Multiples ==
  ASSUME NEW p \in Nat \ {0}, NEW k \in Int
  PROVE  /\ (k + 1) * p = k * p + p /\ (k - 1) * p = k * p - p
         /\ k * p < 0 => k * p <= -p
  OBVIOUS

\* Wherever startTime is, nextPeriod is the next period or less away from now.
LEMMA NextPeriodIsNear ==
  ASSUME NEW startTime \in Ticks, NEW period \in Nat \ {0},
         Word \in Nat \ {0}, MaxTime \in Nat, now \in 0 .. MaxTime, MaxTime + period < Word - 1
  PROVE  /\ nextPeriod(startTime, period) \in Ticks
         /\ now < nextPeriod(startTime, period) /\ nextPeriod(startTime, period) <= now + period
<1> DEFINE since == (now - startTime) % Word
           q == since \div period
           sum == startTime + (q + 1) * period
<1>1. since \in Nat /\ (since = now - startTime \/ since = now - startTime + Word)
  <2> DEFINE d == now - startTime
  <2>1. d \in Int /\ -Word < d /\ d < Word  BY DEF Ticks
  <2> HIDE DEF d
  <2>2. d % Word \in Nat /\ (d % Word = d \/ d % Word = d + Word)
    <3>1. CASE d >= 0
      <4>1. d \in 0 .. Word - 1  BY <2>1, <3>1
      <4>2. d % Word = d  BY <4>1, <2>1, Remainder
      <4> QED  BY <4>2, <2>1, <3>1
    <3>2. CASE d < 0
      <4>1. d % Word = d + Word  BY <2>1, <3>2, Remainder
      <4> QED  BY <2>1, <4>1
    <3> QED  BY <2>1, <3>1, <3>2
  <2> QED  BY <2>2 DEF d
<1>2. q \in Nat /\ q * period <= since /\ since < (q + 1) * period
  BY <1>1, Quotient
<1>3. (q + 1) * period = q * period + period /\ q * period \in Nat
  BY <1>2
<1>4. /\ sum \in Nat
      /\ \/ now < sum /\ sum <= now + period
         \/ now + Word < sum /\ sum <= now + Word + period
  <2> HIDE DEF q, since
  <2> QED  BY <1>1, <1>2, <1>3 DEF Ticks
<1>5. sum % Word \in Ticks /\ now < sum % Word /\ sum % Word <= now + period
  <2> HIDE DEF sum
  <2>1. CASE now < sum /\ sum <= now + period
    <3>1. sum \in 0 .. Word - 1  BY <1>4, <2>1
    <3>2. sum % Word = sum  BY <3>1, Remainder
    <3> QED  BY <1>4, <2>1, <3>1, <3>2 DEF Ticks
  <2>2. CASE now + Word < sum /\ sum <= now + Word + period
    <3>1. sum \in Int /\ Word <= sum /\ sum < 2 * Word  BY <1>4, <2>2
    <3>2. sum % Word = sum - Word  BY <3>1, Remainder
    <3> QED  BY <1>4, <2>2, <3>2 DEF Ticks
  <2> QED  BY <1>4, <2>1, <2>2
<1> QED  BY <1>5 DEF nextPeriod
-----------------------------------------------------------------------------
(* Types.                                                                   *)

LEMMA NewObject ==
  ASSUME NEW x \in Alarm \union Thread, NEW old, AlarmAssumption, HasNew(x, old)
  PROVE  New(x, old) \in Host /\ (IsNew(New(x, old)) \/ New(x, old) = old)
  BY DEF AlarmAssumption, HasNew, New

LEMMA EarliestIsTick ==
  ASSUME AlarmAssumption, updateEarliestAlarmAtomic, host' \in [Host -> HostAlarm]
  PROVE  g_soonestAlarm' \in Ticks
  BY DEF AlarmAssumption, updateEarliestAlarmAtomic, HostAlarm, Ticks, Never

LEMMA DestroyType ==
  ASSUME AlarmAssumption, TypeOK, NEW h \in Host, OSHostAlarmDestroy(h)
  PROVE  host' \in [Host -> HostAlarm] /\ g_soonestAlarm' \in Ticks
<1>1. Unlisted \in HostAlarm  BY DEF AlarmAssumption, Unlisted, HostAlarm, Ticks, Period
<1>2. host' \in [Host -> HostAlarm]  BY <1>1 DEF TypeOK, OSHostAlarmDestroy
<1> QED  BY <1>2, EarliestIsTick DEF TypeOK, OSHostAlarmDestroy

LEMMA CreateType ==
  ASSUME AlarmAssumption, TypeOK, NEW h \in Host, NEW old, NEW new \in HostAlarm,
         OSHostAlarmCreate(h, old, new)
  PROVE  host' \in [Host -> HostAlarm] /\ g_soonestAlarm' \in Ticks
<1>1. Unlisted \in HostAlarm  BY DEF AlarmAssumption, Unlisted, HostAlarm, Ticks, Period
<1>2. host' \in [Host -> HostAlarm]  BY <1>1 DEF TypeOK, OSHostAlarmCreate
<1> QED  BY <1>2, EarliestIsTick DEF OSHostAlarmCreate

LEMMA TypeInit == ASSUME AlarmAssumption, Init PROVE TypeOK
<1>1. Unlisted \in HostAlarm /\ Created.nextTime \in Ticks /\ 0 \in Ticks /\ 0 \in 0 .. MaxTime
  BY DEF AlarmAssumption, Unlisted, Created, HostAlarm, Ticks, Period
<1>2. alarm \in [Alarm -> [host : Host \union {None}, nextTime : Ticks, period : Period]]
  BY <1>1 DEF Init, Created, Period
<1>3. host \in [Host -> HostAlarm]  BY <1>1 DEF Init
<1>4. call \in [Thread -> [host : Host \union {None}, timed : BOOLEAN]]  BY DEF Init, NoCall
<1>5. now \in 0 .. MaxTime /\ g_soonestAlarm \in Ticks  BY <1>1 DEF Init
<1>6. /\ alarmThread \in [at : {"call", "waiting", "ready", "scan", "callback"}, tick : 0 .. now]
      /\ update \in [at : {"idle", "checked", "firing"}, tick : 0 .. now]
  BY DEF Init, Idle
<1> QED  BY <1>2, <1>3, <1>4, <1>5, <1>6 DEF Init, TypeOK

LEMMA UpdateTypes ==
  ASSUME AlarmAssumption, TypeOK, alarm_update
  PROVE  TypeOK'
<1>1. CASE quickCheckForAlarm
  BY <1>1 DEF TypeOK, quickCheckForAlarm
<1>2. CASE updateAlarmsStarts
  BY <1>2 DEF TypeOK, updateAlarmsStarts, Idle
<1>3. CASE updateAlarmsEnds
  BY <1>3 DEF TypeOK, updateAlarmsEnds, Idle
<1>4. ASSUME NEW h \in Host, updateAlarmsFires(h) PROVE TypeOK'
  <2>1. Unlisted \in HostAlarm  BY DEF AlarmAssumption, Unlisted, HostAlarm, Ticks, Period
  <2>2. Requeued(host[h]) \in HostAlarm
    <3>1. host[h] \in HostAlarm /\ host[h].nextFire <= MaxTime /\ host[h].period \in Period
      <4>1. host[h] \in HostAlarm /\ update.tick \in 0 .. now /\ now \in 0 .. MaxTime
        BY DEF TypeOK
      <4> QED  BY <1>4, <4>1 DEF AlarmAssumption, updateAlarmsFires, HostAlarm, Ticks
    <3>0. MaxTime \in Nat /\ host[h].nextFire \in Nat /\ Word \in Nat /\
          (host[h].period # 0 => host[h].period \in Nat /\ MaxTime + host[h].period < Word - 1)
      BY <3>1 DEF AlarmAssumption, HostAlarm, Period, Ticks
    <3>2. host[h].period # 0 => host[h].nextFire + host[h].period \in Ticks
      BY <3>0, <3>1 DEF Ticks
    <3> QED  BY <2>1, <3>1, <3>2 DEF HostAlarm, Requeued
  <2>3. host' \in [Host -> HostAlarm]
    BY <1>4, <2>2 DEF TypeOK, updateAlarmsFires
  <2>4. g_soonestAlarm' \in Ticks
    BY <1>4, <2>3, EarliestIsTick DEF updateAlarmsFires
  <2>5. /\ signaled' \in BOOLEAN /\ waiting' \subseteq Thread
        /\ undefined' \in {"no", "emptyList", "staleContext"}
        /\ alarmThread' \in [at : {"call", "waiting", "ready", "scan", "callback"}, tick : 0 .. now]
    BY <1>4 DEF TypeOK, updateAlarmsFires, triggerAlarm, __OSHostAlarmTriggered, WaitHandler
  <2> QED  BY <1>4, <2>3, <2>4, <2>5 DEF TypeOK, updateAlarmsFires
<1> QED  BY <1>1, <1>2, <1>3, <1>4 DEF alarm_update

LEMMA AlarmThreadTypes ==
  ASSUME AlarmAssumption, TypeOK, _OSAlarmThread
  PROVE  TypeOK'
<1>1. CASE AlarmThreadWaits
  BY <1>1 DEF TypeOK, AlarmThreadWaits, GoesTo, alarmThreadUnchanged
<1>2. CASE AlarmThreadReadsTime
  BY <1>2 DEF TypeOK, AlarmThreadReadsTime, alarmThreadUnchanged
<1>3. CASE AlarmThreadEndsScan
  BY <1>3 DEF TypeOK, AlarmThreadEndsScan, alarmThreadUnchanged
<1>4. CASE CallbackReturns
  BY <1>4 DEF TypeOK, CallbackReturns, GoesTo, alarmThreadUnchanged
<1>5. ASSUME NEW a \in Alarm, AlarmThreadFires(a) PROVE TypeOK'
  <2>1. alarm[a].nextTime <= MaxTime
    <3>1. alarm[a].nextTime \in Ticks /\ alarmThread.tick \in 0 .. now /\ now \in 0 .. MaxTime
      BY DEF TypeOK
    <3> QED  BY <1>5, <3>1 DEF AlarmThreadFires, IsDue, Ticks, AlarmAssumption
  <2>2. alarm[a].period # 0 => alarm[a].nextTime + alarm[a].period \in Ticks
    <3>1. alarm[a].nextTime \in Ticks /\ alarm[a].period \in Period  BY DEF TypeOK
    <3> QED  BY <2>1, <3>1 DEF AlarmAssumption, Ticks, Period
  <2>3. Fired(alarm[a]) \in [host : Host \union {None}, nextTime : Ticks, period : Period]
    <3>1. 0 \in Ticks /\ 0 \in Period  BY DEF AlarmAssumption, Ticks, Period
    <3> QED  BY <2>2, <3>1 DEF TypeOK, Fired, Created
  <2>4. alarm' \in [Alarm -> [host : Host \union {None}, nextTime : Ticks, period : Period]]
    BY <1>5, <2>3 DEF TypeOK, AlarmThreadFires
  <2> QED  BY <1>5, <2>4 DEF TypeOK, AlarmThreadFires, GoesTo, alarmThreadUnchanged
<1> QED  BY <1>1, <1>2, <1>3, <1>4, <1>5 DEF _OSAlarmThread

LEMMA InitiateTypes ==
  ASSUME AlarmAssumption, TypeOK, NEW a \in Alarm, NEW nextTime \in Ticks, NEW period \in Period,
         __OSInitiateAlarm(a, nextTime, period)
  PROVE  TypeOK'
<1> DEFINE h == New(a, alarm[a].host)
           new == [nextFire |-> nextTime, period |-> period, handler |-> "alarmEvent"]
<1>1. h \in Host  BY NewObject DEF __OSInitiateAlarm, IsNew
<1>2. new \in HostAlarm  BY DEF HostAlarm
<1>3. OSHostAlarmCreate(h, alarm[a].host, new)  BY DEF __OSInitiateAlarm
<1> HIDE DEF h, new
<1>4. host' \in [Host -> HostAlarm] /\ g_soonestAlarm' \in Ticks
  BY <1>1, <1>2, <1>3, CreateType
<1>5. alarm' = [alarm EXCEPT ![a] = [host |-> h, nextTime |-> nextTime, period |-> period]]
  BY DEF __OSInitiateAlarm, h
<1> QED  BY <1>1, <1>4, <1>5 DEF TypeOK, __OSInitiateAlarm, alarmUnchanged

\* The three ways to set an alarm are one action for the proofs.
Sets(a) ==
    \/ a \notin Ticker /\ \E d \in Delays : OSSetAlarm(a, d)
    \/ a \notin Ticker /\ \E s \in Starts, p \in Periods : OSSetPeriodicAlarm(a, s, p)
    \/ start(a)

LEMMA Setting ==
  ASSUME AlarmAssumption, TypeOK, NEW a \in Alarm, Sets(a)
  PROVE  \E nextTime \in Ticks, period \in Period :
            /\ __OSInitiateAlarm(a, nextTime, period)
            /\ period # 0 => nextTime <= now + period
            /\ a \in Ticker => period # 0
<1>1. ASSUME NEW d \in Delays, a \notin Ticker, OSSetAlarm(a, d)
      PROVE  /\ (now + d) % Word \in Ticks /\ 0 \in Period
             /\ __OSInitiateAlarm(a, (now + d) % Word, 0)
  <2>1. now + d \in Int /\ Word \in Nat \ {0}  BY DEF AlarmAssumption, TypeOK
  <2>2. (now + d) % Word \in 0 .. Word - 1  BY <2>1, Remainder
  <2> QED  BY <1>1, <2>2 DEF OSSetAlarm, Ticks, Period
<1>2. ASSUME NEW s \in Ticks, NEW p \in Periods \union {TickerPeriod}, OSSetPeriodicAlarm(a, s, p)
      PROVE  /\ nextPeriod(s, p) \in Ticks /\ nextPeriod(s, p) <= now + p /\ p \in Period /\ p # 0
             /\ __OSInitiateAlarm(a, nextPeriod(s, p), p)
  <2>1. /\ p \in Nat \ {0} /\ Word \in Nat \ {0} /\ MaxTime \in Nat /\ MaxTime + p < Word - 1
        /\ now \in 0 .. MaxTime
    BY DEF AlarmAssumption, TypeOK
  <2> QED  BY <1>2, <2>1, NextPeriodIsNear DEF OSSetPeriodicAlarm, Period
<1>3. now \in Ticks /\ Starts \subseteq Ticks
  <2>1. TickerPeriod \in Nat \ {0} /\ MaxTime + TickerPeriod < Word - 1
    BY DEF AlarmAssumption
  <2> QED  BY <2>1 DEF AlarmAssumption, TypeOK, Ticks
<1>4. CASE a \notin Ticker /\ \E d \in Delays : OSSetAlarm(a, d)
  <2>1. PICK d \in Delays : OSSetAlarm(a, d)  BY <1>4
  <2>2. (now + d) % Word \in Ticks /\ 0 \in Period /\ __OSInitiateAlarm(a, (now + d) % Word, 0)
    BY <1>1, <1>4, <2>1
  <2> QED  BY <1>4, <2>2
<1>5. ASSUME NEW s \in Ticks, NEW p \in Periods \union {TickerPeriod}, OSSetPeriodicAlarm(a, s, p)
      PROVE  \E nextTime \in Ticks, period \in Period :
                /\ __OSInitiateAlarm(a, nextTime, period)
                /\ period # 0 /\ nextTime <= now + period
  BY <1>2, <1>5
<1>6. CASE a \notin Ticker /\ \E s \in Starts, p \in Periods : OSSetPeriodicAlarm(a, s, p)
  <2>1. PICK s \in Starts, p \in Periods : OSSetPeriodicAlarm(a, s, p)  BY <1>6
  <2>2. s \in Ticks /\ p \in Periods \union {TickerPeriod}  BY <1>3
  <2> QED  BY <1>5, <2>1, <2>2
<1>7. CASE start(a)
  <2>1. now \in Ticks /\ OSSetPeriodicAlarm(a, now, TickerPeriod)  BY <1>3, <1>7 DEF start
  <2> QED  BY <1>5, <2>1
<1> QED  BY <1>4, <1>6, <1>7 DEF Sets
-----------------------------------------------------------------------------
(* What a step leaves as it is.                                             *)

LEMMA OwnersFrame ==
  ASSUME IInv, UNCHANGED <<host, alarm, call>>, waiting' \subseteq waiting
  PROVE  HostsOwned' /\ TickersRepeat' /\ InStep'
  BY DEF IInv, HostsOwned, TickersRepeat, InStep, Active, Listed

LEMMA PeriodFrame ==
  ASSUME AlarmAssumption, IInv, alarm' = alarm, now' \in Nat, now <= now'
  PROVE  PeriodicWithinAPeriod'
<1> SUFFICES ASSUME NEW a \in Alarm, Active(a), alarm[a].period # 0
             PROVE  alarm[a].nextTime <= now' + alarm[a].period
  BY DEF PeriodicWithinAPeriod, Active
<1>1. alarm[a].nextTime <= now + alarm[a].period  BY DEF IInv, PeriodicWithinAPeriod
<1>2. alarm[a].nextTime \in Nat /\ alarm[a].period \in Nat /\ now \in Nat
  BY DEF AlarmAssumption, IInv, TypeOK, Ticks, Period
<1> QED  BY <1>1, <1>2

LEMMA EmptyFrame ==
  ASSUME IInv, undefined' = undefined, \A a \in Ticker : Active(a)' => Active(a) \/ undefined # "emptyList"
  PROVE  EmptyListOnlyBeforeTickers'
  BY DEF IInv, EmptyListOnlyBeforeTickers

\* An alarm that its host alarm is behind is late: the host alarm has fired for it.
LEMMA Late ==
  ASSUME AlarmAssumption, IInv, NEW a \in Alarm, Active(a), ~HostAlarmFiresFor(a)
  PROVE  alarm[a].nextTime \in Int /\ reached(a) \in Int /\ alarm[a].nextTime <= reached(a)
<1>0. /\ alarm[a].nextTime \in Nat /\ alarm[a].period \in Nat
      /\ \A h \in Host : host[h].nextFire \in Nat
  BY DEF AlarmAssumption, IInv, TypeOK, Ticks, Period, HostAlarm
<1>1. alarm[a].host \in Host  BY DEF IInv, TypeOK, Active
<1>2. CASE alarm[a].period = 0
  BY <1>0, <1>2 DEF reached
<1>3. CASE alarm[a].period # 0
  <2> DEFINE f == host[alarm[a].host].nextFire
             p == alarm[a].period
             n == alarm[a].nextTime
  <2>1. Listed(alarm[a].host)  BY <1>3 DEF IInv, HostsOwned
  <2>2. PICK k \in Int : n = f + k * p  BY <2>1 DEF IInv, InStep
  <2>4. f \in Nat /\ p \in Nat \ {0} /\ n \in Nat /\ ~(f <= n)
    BY <1>0, <1>1, <1>3, <2>1 DEF HostAlarmFiresFor
  <2>5. reached(a) = f - p  BY <1>3 DEF reached
  <2> HIDE DEF f, p, n
  <2>6. k * p \in Int /\ k * p < 0  BY <2>2, <2>4
  <2>7. k * p <= -p  BY <2>4, <2>6, Multiples
  <2>8. n <= f - p  BY <2>2, <2>4, <2>6, <2>7
  <2> QED  BY <2>4, <2>5, <2>8 DEF n
<1> QED  BY <1>2, <1>3

LEMMA ComesForEarlier ==
  ASSUME AlarmAssumption, IInv, NEW x \in Int, NEW y \in Int, x <= y, AlarmThreadComesFor(y)
  PROVE  AlarmThreadComesFor(x)
  BY DEF IInv, TypeOK, AlarmThreadComesFor

\* While neither alarms nor host alarms change, it is the alarm thread that has to come.
LEMMA CoverageFrame ==
  ASSUME AlarmAssumption, IInv, UNCHANGED <<host, alarm>>, now' \in Nat, now <= now',
         \A a \in Alarm :
            /\ Active(a) /\ ~HostAlarmFiresFor(a)
            /\ reached(a) <= now /\ AlarmThreadComesFor(reached(a))
            => AlarmThreadComesFor(reached(a))'
  PROVE  Coverage'
<1> SUFFICES ASSUME NEW a \in Alarm, Active(a), ~HostAlarmFiresFor(a)
             PROVE  (reached(a) <= now /\ AlarmThreadComesFor(reached(a)))'
  BY DEF Coverage, Covered, Active, HostAlarmFiresFor, Listed
<1>1. reached(a) <= now /\ AlarmThreadComesFor(reached(a))
  BY DEF IInv, Coverage, Covered
<1>2. reached(a)' = reached(a)  BY DEF reached
<1>3. reached(a) \in Int /\ now \in Nat  BY Late DEF IInv, TypeOK
<1> QED  BY <1>1, <1>2, <1>3
-----------------------------------------------------------------------------
(* The steps that change neither alarms nor host alarms.                    *)

NaturalTimes ==
    /\ now \in Nat /\ alarmThread.tick \in Nat /\ update.tick \in Nat
    /\ alarmThread.tick <= now /\ update.tick <= now
    /\ \A a \in Alarm : alarm[a].nextTime \in Nat /\ alarm[a].period \in Nat
    /\ \A a \in Alarm : Active(a) => alarm[a].host \in Host
    /\ \A h \in Host : host[h].nextFire \in Nat /\ host[h].period \in Nat

LEMMA Numbers == ASSUME AlarmAssumption, TypeOK PROVE NaturalTimes
<1>1. Period \subseteq Nat /\ Ticks \subseteq Nat  BY DEF AlarmAssumption, Period, Ticks
<1>2. now \in Nat /\ alarmThread.tick \in 0 .. now /\ update.tick \in 0 .. now
  BY DEF AlarmAssumption, TypeOK
<1>3. \A h \in Host : host[h].nextFire \in Nat /\ host[h].period \in Nat
  BY <1>1 DEF TypeOK, HostAlarm
<1>4. /\ \A a \in Alarm : alarm[a].nextTime \in Nat /\ alarm[a].period \in Nat
      /\ \A a \in Alarm : Active(a) => alarm[a].host \in Host
  BY <1>1 DEF TypeOK, Active
<1> QED  BY <1>2, <1>3, <1>4 DEF NaturalTimes

\* A step that leaves alarms and host alarms alone, and the alarm thread to
\* come for what it has to come for.
LEMMA QuietStep ==
  ASSUME AlarmAssumption, IInv, TypeOK',
         UNCHANGED <<host, alarm, call>>, waiting' \subseteq waiting, now <= now',
         SignalFindsThread', EmptyListOnlyBeforeTickers',
         \A a \in Alarm :
            /\ Active(a) /\ ~HostAlarmFiresFor(a)
            /\ reached(a) <= now /\ AlarmThreadComesFor(reached(a))
            => AlarmThreadComesFor(reached(a))'
  PROVE  IInv'
<1>1. now' \in Nat  BY DEF TypeOK
<1>2. HostsOwned' /\ TickersRepeat' /\ InStep'  BY OwnersFrame
<1>3. PeriodicWithinAPeriod'  BY <1>1, PeriodFrame
<1>4. Coverage'  BY <1>1, CoverageFrame
<1> QED  BY <1>2, <1>3, <1>4 DEF IInv

LEMMA QuietUpdate ==
  ASSUME AlarmAssumption, IInv, TypeOK', quickCheckForAlarm \/ updateAlarmsStarts \/ updateAlarmsEnds
  PROVE  IInv'
<1>1. /\ UNCHANGED <<now, host, alarm, signaled, alarmThread, call, waiting>>
      /\ undefined' = undefined \/ (undefined' = "emptyList" /\ \A h \in Host : ~Listed(h))
  BY DEF quickCheckForAlarm, updateAlarmsStarts, updateAlarmsEnds
<1>2. SignalFindsThread'  BY <1>1 DEF IInv, SignalFindsThread
<1>3. EmptyListOnlyBeforeTickers'
  <2>1. CASE undefined' = undefined
    BY <1>1, <2>1 DEF IInv, EmptyListOnlyBeforeTickers, Active
  <2>2. CASE \A h \in Host : ~Listed(h)
    <3> SUFFICES ASSUME NEW a \in Ticker, Active(a) PROVE FALSE
      BY <1>1 DEF EmptyListOnlyBeforeTickers, Active
    <3>1. a \in Alarm /\ alarm[a].period # 0  BY DEF AlarmAssumption, IInv, TickersRepeat
    <3>2. Listed(alarm[a].host) /\ alarm[a].host \in Host
      BY <3>1 DEF IInv, HostsOwned, TypeOK, Active
    <3> QED  BY <2>2, <3>2
  <2> QED  BY <1>1, <2>1, <2>2
<1>4. now <= now'  BY <1>1 DEF IInv, TypeOK
<1>5. \A a \in Alarm : AlarmThreadComesFor(reached(a)) => AlarmThreadComesFor(reached(a))'
  BY <1>1 DEF AlarmThreadComesFor, reached
<1> QED  BY <1>1, <1>2, <1>3, <1>4, <1>5, QuietStep

LEMMA TickStep ==
  ASSUME AlarmAssumption, IInv, Tick
  PROVE  IInv'
<1>1. TypeOK'  BY DEF IInv, TypeOK, Tick
<1>2. UNCHANGED <<host, alarm, signaled, alarmThread, call, waiting, undefined>> /\ now <= now'
  BY DEF IInv, TypeOK, Tick
<1>3. SignalFindsThread' /\ EmptyListOnlyBeforeTickers'
  BY <1>2 DEF IInv, SignalFindsThread, EmptyListOnlyBeforeTickers, Active
<1>4. \A a \in Alarm : AlarmThreadComesFor(reached(a)) => AlarmThreadComesFor(reached(a))'
  BY <1>2 DEF AlarmThreadComesFor, reached
<1> QED  BY <1>1, <1>2, <1>3, <1>4, QuietStep

LEMMA SignaledWaitStep ==
  ASSUME AlarmAssumption, IInv, NEW t \in Thread, WaitIsSignaled(t)
  PROVE  IInv'
<1>1. TypeOK'  BY DEF IInv, TypeOK, WaitIsSignaled, waitUnchanged
<1>2. /\ UNCHANGED <<now, host, alarm, signaled, alarmThread, call, undefined>> /\ now <= now'
      /\ waiting' \subseteq waiting
  BY DEF IInv, TypeOK, WaitIsSignaled, waitUnchanged
<1>3. SignalFindsThread' /\ EmptyListOnlyBeforeTickers'
  BY <1>2 DEF IInv, SignalFindsThread, EmptyListOnlyBeforeTickers, Active
<1>4. \A a \in Alarm : AlarmThreadComesFor(reached(a)) => AlarmThreadComesFor(reached(a))'
  BY <1>2 DEF AlarmThreadComesFor, reached
<1> QED  BY <1>1, <1>2, <1>3, <1>4, QuietStep

\* The alarm thread outside of a callback: it waits for the event, reads the
\* time or ends a scan that has found nothing that is due.
LEMMA QuietAlarmThread ==
  ASSUME AlarmAssumption, IInv, TypeOK',
         AlarmThreadWaits \/ AlarmThreadReadsTime \/ AlarmThreadEndsScan \/ CallbackReturns
  PROVE  IInv'
<1>1. UNCHANGED <<now, host, alarm, call, waiting, undefined>> /\ now <= now'
  BY DEF IInv, TypeOK, AlarmThreadWaits, AlarmThreadReadsTime, AlarmThreadEndsScan, CallbackReturns,
         alarmThreadUnchanged
<1>2. EmptyListOnlyBeforeTickers'
  BY <1>1 DEF IInv, EmptyListOnlyBeforeTickers, Active
<1>3. SignalFindsThread'
  <2>1. CASE AlarmThreadWaits  BY <2>1 DEF SignalFindsThread, AlarmThreadWaits
  <2>2. CASE AlarmThreadReadsTime  BY <2>2 DEF SignalFindsThread, AlarmThreadReadsTime
  <2>3. CASE AlarmThreadEndsScan  BY <2>3 DEF SignalFindsThread, AlarmThreadEndsScan
  <2>4. CASE CallbackReturns  BY <2>4 DEF IInv, TypeOK, SignalFindsThread, CallbackReturns, GoesTo
  <2> QED  BY <2>1, <2>2, <2>3, <2>4
<1>4. ASSUME NEW a \in Alarm, Active(a), ~HostAlarmFiresFor(a), reached(a) <= now,
             AlarmThreadComesFor(reached(a))
      PROVE  AlarmThreadComesFor(reached(a))'
  <2>1. reached(a)' = reached(a)  BY <1>1 DEF reached
  <2>2. CASE AlarmThreadWaits
    BY <1>4, <2>1, <2>2 DEF IInv, TypeOK, AlarmThreadComesFor, AlarmThreadWaits, GoesTo
  <2>3. CASE AlarmThreadReadsTime
    BY <1>4, <2>1, <2>3 DEF AlarmThreadComesFor, AlarmThreadReadsTime
  <2>4. CASE CallbackReturns
    BY <1>4, <2>1, <2>4 DEF IInv, TypeOK, AlarmThreadComesFor, CallbackReturns, GoesTo
  <2>5. CASE AlarmThreadEndsScan
    <3>1. ~(alarm[a].nextTime <= alarmThread.tick)
      BY <1>4, <2>5 DEF AlarmThreadEndsScan, IsDue
    <3>2. /\ alarm[a].nextTime \in Int /\ reached(a) \in Int
          /\ alarm[a].nextTime <= reached(a)
      BY <1>4, Late
    <3>3. alarmThread.tick \in Int  BY DEF IInv, TypeOK
    <3>4. ~(reached(a) <= alarmThread.tick)  BY <3>1, <3>2, <3>3
    <3>5. signaled  BY <1>4, <2>5, <3>4 DEF AlarmThreadComesFor, AlarmThreadEndsScan
    <3> QED  BY <2>5, <3>5 DEF AlarmThreadComesFor, AlarmThreadEndsScan
  <2> QED  BY <2>2, <2>3, <2>4, <2>5
<1> QED  BY <1>1, <1>2, <1>3, <1>4, QuietStep

\* The alarm thread fires b.
LEMMA AlarmThreadFiring ==
  ASSUME AlarmAssumption, IInv, TypeOK', NEW b \in Alarm, AlarmThreadFires(b)
  PROVE  IInv'
<1>n. NaturalTimes  BY Numbers DEF IInv
<1>0. /\ UNCHANGED <<now, host, signaled, call, waiting, undefined>>
      /\ alarm' = [alarm EXCEPT ![b] = Fired(@)]
      /\ alarmThread' = [alarmThread EXCEPT !.at = "callback"] /\ alarmThread.at = "scan"
      /\ Active(b) /\ alarm[b].nextTime <= alarmThread.tick
  BY DEF AlarmThreadFires, GoesTo, alarmThreadUnchanged, IsDue
<1>1. /\ alarm \in [Alarm -> [host : Host \union {None}, nextTime : Ticks, period : Period]]
      /\ alarmThread.tick \in 0 .. now /\ now \in Nat /\ host \in [Host -> HostAlarm]
      /\ Period \subseteq Nat /\ Ticks \subseteq Nat
  BY DEF AlarmAssumption, IInv, TypeOK, Period, Ticks
\* b stays active only if it is periodic, with the same host alarm.
<1>2. \A a \in Alarm : Active(a)' =>
         /\ Active(a) /\ alarm'[a].host = alarm[a].host /\ alarm'[a].period = alarm[a].period
         /\ alarm'[a].nextTime = IF a = b THEN alarm[b].nextTime + alarm[b].period
                                ELSE alarm[a].nextTime
         /\ a = b => alarm[b].period # 0
  BY <1>0, <1>1 DEF Active, Fired, Created
<1>3. \A h \in Host \union {None} : Listed(h)' <=> Listed(h)  BY <1>0 DEF Listed
<1>4. HostsOwned'
  <2>1. HostsOwned  BY DEF IInv
  <2>2. \A a \in Alarm : Active(a)' => Listed(alarm[a].host)' = Listed(alarm[a].host)
    BY <1>0, <1>2 DEF Listed
  <2>3. \A a \in Alarm : Active(a)' /\ Listed(alarm'[a].host) =>
          host'[alarm'[a].host].handler = "alarmEvent" /\ host'[alarm'[a].host].period = alarm'[a].period
    BY <1>0, <1>2, <2>1 DEF HostsOwned
  <2>4. \A a \in Alarm : Active(a)' /\ alarm'[a].period # 0 => Listed(alarm'[a].host)
    BY <1>2, <2>1 DEF HostsOwned
  <2>5. \A a, c \in Alarm : Active(a)' /\ Active(c)' /\ a # c => alarm'[a].host # alarm'[c].host
    BY <1>2, <2>1 DEF HostsOwned
  <2>6. \A a \in Alarm, t \in Thread : Active(a)' => call[t].host # alarm'[a].host
    BY <1>2, <2>1 DEF HostsOwned
  <2> QED  BY <1>0, <2>1, <2>3, <2>4, <2>5, <2>6 DEF HostsOwned, Listed
<1>5. TickersRepeat'
  BY <1>2 DEF AlarmAssumption, IInv, TickersRepeat
<1>6. SignalFindsThread' /\ EmptyListOnlyBeforeTickers'
  BY <1>0, <1>1, <1>2 DEF AlarmAssumption, IInv, TypeOK, SignalFindsThread, EmptyListOnlyBeforeTickers
<1>7. PeriodicWithinAPeriod'
  <2> SUFFICES ASSUME NEW a \in Alarm, Active(a)', alarm'[a].period # 0
               PROVE  alarm'[a].nextTime <= now + alarm'[a].period
    BY <1>0 DEF PeriodicWithinAPeriod
  <2>1. CASE a = b  BY <1>0, <1>1, <1>2, <2>1
  <2>2. CASE a # b  BY <1>2, <2>2 DEF IInv, PeriodicWithinAPeriod
  <2> QED  BY <2>1, <2>2
<1>8. InStep'
  <2> SUFFICES ASSUME NEW a \in Alarm, Active(a)', Listed(alarm[a].host)
               PROVE  \E k \in Int : alarm'[a].nextTime = host[alarm[a].host].nextFire + k * alarm[a].period
    BY <1>0, <1>2 DEF InStep, Listed
  <2>1. PICK k \in Int : alarm[a].nextTime = host[alarm[a].host].nextFire + k * alarm[a].period
    BY <1>2 DEF IInv, InStep
  <2>2. CASE a # b  BY <1>2, <2>1, <2>2
  <2>3. CASE a = b
    <3> DEFINE p == alarm[a].period
               f == host[alarm[a].host].nextFire
    <3>1. p \in Nat \ {0} /\ f \in Nat /\ k + 1 \in Int
      BY <1>2, <2>3, <1>n DEF NaturalTimes
    <3>2. alarm'[a].nextTime = f + k * p + p  BY <1>2, <2>1, <2>3
    <3> HIDE DEF p, f
    <3>3. f + k * p + p = f + (k + 1) * p  BY <3>1, Multiples
    <3>4. alarm'[a].nextTime = f + (k + 1) * p  BY <3>2, <3>3
    <3> QED  BY <3>1, <3>4 DEF p, f
  <2> QED  BY <2>2, <2>3
<1>9. Coverage'
  <2> SUFFICES ASSUME NEW a \in Alarm, Active(a)'
               PROVE  Covered(a)'
    BY DEF Coverage
  <2>1. Active(a) /\ Covered(a)  BY <1>2 DEF IInv, Coverage
  <2>2. CASE HostAlarmFiresFor(a)
    <3>1. alarm'[a].nextTime \in Nat /\ alarm[a].nextTime \in Nat /\ alarm[a].nextTime <= alarm'[a].nextTime
      <4>1. alarm[a].nextTime \in Nat /\ alarm[b].period \in Nat  BY <1>n DEF NaturalTimes
      <4> QED  BY <1>2, <4>1
    <3>2. host[alarm[a].host].nextFire \in Nat
      BY <2>1, <1>n DEF NaturalTimes
    <3>3. HostAlarmFiresFor(a)'
      BY <1>0, <1>2, <2>2, <3>1, <3>2 DEF HostAlarmFiresFor, Listed
    <3> QED  BY <3>3 DEF Covered
  <2>3. CASE ~HostAlarmFiresFor(a)
    <3>1. reached(a) <= now /\ AlarmThreadComesFor(reached(a))  BY <2>1, <2>3 DEF Covered
    <3>2. reached(a)' = reached(a)  BY <1>0, <1>2 DEF reached
    <3>3. AlarmThreadComesFor(reached(a))'
      BY <1>0, <1>1, <3>1, <3>2 DEF IInv, TypeOK, AlarmThreadComesFor
    <3> QED  BY <1>0, <3>1, <3>2, <3>3 DEF Covered
  <2> QED  BY <2>2, <2>3
<1> QED  BY <1>4, <1>5, <1>6, <1>7, <1>8, <1>9 DEF IInv

\* After a signal the alarm thread comes for every time until now.
LEMMA TriggeredComes ==
  ASSUME AlarmAssumption, IInv, __OSHostAlarmTriggered
  PROVE  /\ \A x \in Int : AlarmThreadComesFor(x)'
         /\ SignalFindsThread'
  BY DEF IInv, TypeOK, __OSHostAlarmTriggered, AlarmThreadComesFor, SignalFindsThread

\* updateAlarms fires h.
LEMMA UpdateFiring ==
  ASSUME AlarmAssumption, IInv, TypeOK', NEW h \in Host, updateAlarmsFires(h)
  PROVE  IInv'
<1>n. NaturalTimes  BY Numbers DEF IInv
<1>0. /\ UNCHANGED <<now, alarm, call>> /\ host' = [host EXCEPT ![h] = Requeued(@)]
      /\ Listed(h) /\ host[h].nextFire <= update.tick /\ triggerAlarm(h)
  BY DEF updateAlarmsFires, IsFirst
<1>1. /\ host \in [Host -> HostAlarm] /\ \A t \in Thread : t # "alarmEvent"
      /\ \A a \in Alarm : Active(a) => alarm[a].host \in Host
  BY DEF AlarmAssumption, IInv, TypeOK, Active
<1>2. /\ \A g \in Host : g # h => host'[g] = host[g]
      /\ host[h].period # 0 => host'[h] = [host[h] EXCEPT !.nextFire = @ + host[h].period]
      /\ host[h].period = 0 => host'[h] = Unlisted
  BY <1>0, <1>1 DEF Requeued
<1>3. /\ Listed(h)' <=> host[h].period # 0
      /\ \A g \in Host : g # h => (Listed(g)' <=> Listed(g))
      /\ host[h].period # 0 => /\ host'[h].handler = host[h].handler /\ host'[h].period = host[h].period
                               /\ host'[h].nextFire = host[h].nextFire + host[h].period
  BY <1>1, <1>2 DEF Listed, Unlisted, HostAlarm
<1>4. /\ waiting' \subseteq waiting
      /\ \A t \in waiting' : host[h].handler # t \/ call[t].host # h
  BY <1>0, <1>1 DEF AlarmAssumption, IInv, TypeOK, triggerAlarm, WaitHandler, __OSHostAlarmTriggered
<1>5. ASSUME NEW a \in Alarm, Active(a), alarm[a].host = h
      PROVE  /\ host[h].period = alarm[a].period
             /\ \A x \in Int : AlarmThreadComesFor(x)'
  <2>1. host[h].handler = "alarmEvent" /\ host[h].period = alarm[a].period
    BY <1>0, <1>5 DEF IInv, HostsOwned
  <2>2. __OSHostAlarmTriggered  BY <1>0, <2>1 DEF triggerAlarm
  <2> QED  BY <2>1, <2>2, TriggeredComes
<1>6. /\ SignalFindsThread'
      /\ \A x \in Int : AlarmThreadComesFor(x) => AlarmThreadComesFor(x)'
  <2>1. CASE host[h].handler = "alarmEvent"
    BY <1>0, <2>1, TriggeredComes DEF triggerAlarm
  <2>2. CASE host[h].handler # "alarmEvent"
    <3>1. UNCHANGED <<signaled, alarmThread>>  BY <1>0, <2>2 DEF triggerAlarm, WaitHandler
    <3> QED  BY <3>1 DEF IInv, SignalFindsThread, AlarmThreadComesFor
  <2> QED  BY <2>1, <2>2
<1>7. HostsOwned'
  <2>0. HostsOwned  BY DEF IInv
  <2>1. \A a \in Alarm : Active(a) /\ Listed(alarm[a].host)' =>
          /\ host'[alarm[a].host].handler = "alarmEvent"
          /\ host'[alarm[a].host].period = alarm[a].period
    BY <1>0, <1>1, <1>2, <1>3, <2>0 DEF HostsOwned
  <2>2. \A a \in Alarm : Active(a) /\ alarm[a].period # 0 => Listed(alarm[a].host)'
    <3> SUFFICES ASSUME NEW a \in Alarm, Active(a), alarm[a].period # 0
                 PROVE  Listed(alarm[a].host)'
      OBVIOUS
    <3>1. Listed(alarm[a].host) /\ alarm[a].host \in Host  BY <1>1, <2>0 DEF HostsOwned
    <3>2. CASE alarm[a].host = h
      <4>1. host'[h] # Unlisted  BY <1>3, <1>5, <3>2 DEF Listed
      <4> QED  BY <1>0, <3>2, <4>1 DEF Listed
    <3>3. CASE alarm[a].host # h
      <4>1. host'[alarm[a].host] = host[alarm[a].host]  BY <1>2, <3>1, <3>3
      <4> QED  BY <1>0, <3>1, <4>1 DEF Listed
    <3> QED  BY <3>2, <3>3
  <2>3. \A t \in waiting' : Listed(call[t].host)' /\ host'[call[t].host].handler = t
    <3> SUFFICES ASSUME NEW t \in waiting' PROVE Listed(call[t].host)' /\ host'[call[t].host].handler = t
      BY <1>0
    <3>1. t \in Thread /\ Listed(call[t].host) /\ host[call[t].host].handler = t
      BY <1>4, <2>0 DEF HostsOwned, IInv, TypeOK
    <3>2. call[t].host # h  BY <1>4, <3>1
    <3>3. call[t].host \in Host \/ call[t].host = None  BY <3>1 DEF IInv, TypeOK
    <3>4. host'[call[t].host] = host[call[t].host]
      BY <1>0, <1>1, <3>2, <3>3
    <3> QED  BY <1>0, <3>1, <3>4 DEF Listed
  <2>4. \A g \in Host : Listed(g)' => host'[g].handler # None
    BY <1>2, <1>3, <2>0, <1>0 DEF HostsOwned
  <2>5. \A t \in waiting' : call[t] # NoCall  BY <1>4, <2>0 DEF HostsOwned
  <2> QED  BY <1>0, <2>0, <2>1, <2>2, <2>3, <2>4, <2>5 DEF HostsOwned, Active, Listed
<1>8. TickersRepeat' /\ PeriodicWithinAPeriod'
  BY <1>0 DEF IInv, TickersRepeat, PeriodicWithinAPeriod, Active
<1>9. EmptyListOnlyBeforeTickers'
  BY <1>0 DEF IInv, EmptyListOnlyBeforeTickers, Active, updateAlarmsFires, Running, triggerAlarm,
              WaitHandler, __OSHostAlarmTriggered
<1>10. InStep'
  <2> SUFFICES ASSUME NEW a \in Alarm, Active(a), Listed(alarm[a].host)'
               PROVE  \E k \in Int : alarm[a].nextTime = host'[alarm[a].host].nextFire + k * alarm[a].period
    BY <1>0 DEF InStep, Active, Listed
  <2>1. Listed(alarm[a].host)  BY <1>0, <1>1, <1>3
  <2>2. PICK k \in Int : alarm[a].nextTime = host[alarm[a].host].nextFire + k * alarm[a].period
    BY <2>1 DEF IInv, InStep
  <2>3. CASE alarm[a].host # h  BY <1>1, <1>2, <2>2, <2>3
  <2>4. CASE alarm[a].host = h
    <3> DEFINE p == alarm[a].period
               f == host[h].nextFire
               f2 == host'[h].nextFire
    <3>0. host[h].period # 0
      <4>1. Listed(h)'  BY <1>0, <2>4 DEF Listed
      <4> QED  BY <1>3, <4>1
    <3>1. p \in Nat \ {0} /\ f \in Nat /\ k - 1 \in Int /\ f2 = f + p
      BY <1>3, <1>5, <2>4, <3>0, <1>n DEF NaturalTimes
    <3>2. alarm[a].nextTime = f + k * p  BY <2>2, <2>4
    <3> HIDE DEF p, f, f2
    <3>3. f + k * p = f2 + (k - 1) * p  BY <3>1, Multiples
    <3>4. alarm[a].nextTime = f2 + (k - 1) * p  BY <3>2, <3>3
    <3> QED  BY <2>4, <3>1, <3>4 DEF p, f2
  <2> QED  BY <2>3, <2>4
<1>11. Coverage'
  <2> SUFFICES ASSUME NEW a \in Alarm, Active(a)
               PROVE  Covered(a)'
    BY <1>0 DEF Coverage, Active
  <2>1. Covered(a)  BY DEF IInv, Coverage
  <2>2. CASE alarm[a].host # h
    <3>1. HostAlarmFiresFor(a)' <=> HostAlarmFiresFor(a)
      BY <1>0, <1>1, <1>2, <1>3, <2>2 DEF HostAlarmFiresFor
    <3>2. reached(a)' = reached(a)  BY <1>0, <1>1, <1>2, <2>2 DEF reached
    <3>3. ~HostAlarmFiresFor(a) => reached(a) \in Int  BY Late
    <3> QED  BY <1>0, <1>6, <2>1, <3>1, <3>2, <3>3 DEF Covered
  <2>3. CASE alarm[a].host = h
    <3>1. /\ host[h].nextFire \in Nat /\ host[h].period \in Nat /\ now \in Nat
          /\ alarm[a].nextTime \in Nat /\ host[h].nextFire <= now
      BY <1>0, <1>n DEF NaturalTimes
    <3>2. CASE host[h].period # 0
      <4>1. reached(a)' = host[h].nextFire
        BY <1>0, <1>3, <1>5, <2>3, <3>1, <3>2 DEF reached
      <4> QED  BY <1>0, <1>5, <2>3, <3>1, <4>1 DEF Covered
    <3>3. CASE host[h].period = 0
      <4>1. PICK k \in Int : alarm[a].nextTime = host[h].nextFire + k * alarm[a].period
        BY <1>0, <2>3 DEF IInv, InStep
      <4>2. alarm[a].nextTime = host[h].nextFire
        BY <1>5, <2>3, <3>1, <3>3, <4>1
      <4>3. reached(a)' = host[h].nextFire  BY <1>0, <1>5, <2>3, <3>3, <4>2 DEF reached
      <4> QED  BY <1>0, <1>5, <2>3, <3>1, <4>3 DEF Covered
    <3> QED  BY <3>2, <3>3
  <2> QED  BY <2>2, <2>3
<1> QED  BY <1>6, <1>7, <1>8, <1>9, <1>10, <1>11 DEF IInv
-----------------------------------------------------------------------------
(* The steps that make and destroy host alarms.                             *)

\* Alarms that are left alone stay covered, and an alarm that is set is
\* covered by its host alarm.
Kept(a) == Active(a) /\ alarm'[a] = alarm[a] /\ host'[alarm[a].host] = host[alarm[a].host]
SetAnew(a) ==
    /\ Listed(alarm[a].host)' /\ host'[alarm'[a].host].nextFire = alarm'[a].nextTime
    /\ alarm'[a].period # 0 => alarm'[a].nextTime <= now + alarm'[a].period
    /\ a \in Ticker => alarm'[a].period # 0

LEMMA AlarmStep ==
  ASSUME AlarmAssumption, IInv, TypeOK', HostsOwned',
         UNCHANGED <<now, signaled, alarmThread, undefined>>,
         \A a \in Alarm : Active(a)' => Kept(a) \/ SetAnew(a),
         undefined # "emptyList"
  PROVE  IInv'
<1>n. \A a \in Alarm : alarm'[a].nextTime \in Nat /\ alarm'[a].period \in Nat
  <2>1. Period \subseteq Nat /\ Ticks \subseteq Nat  BY DEF AlarmAssumption, Period, Ticks
  <2> QED  BY <2>1 DEF TypeOK
<1>1. SignalFindsThread' /\ EmptyListOnlyBeforeTickers'
  BY DEF IInv, SignalFindsThread, EmptyListOnlyBeforeTickers
<1>2. TickersRepeat'
  <2>1. \A a \in Ticker : Active(a)' => a \in Alarm /\ (Kept(a) \/ SetAnew(a))
    BY DEF AlarmAssumption
  <2> QED  BY <2>1 DEF IInv, TickersRepeat, Kept, SetAnew
<1>3. PeriodicWithinAPeriod'
  BY DEF IInv, PeriodicWithinAPeriod, Kept, SetAnew
<1>4. InStep'
  <2> SUFFICES ASSUME NEW a \in Alarm, Active(a)', Listed(alarm[a].host)'
               PROVE  \E k \in Int :
                         alarm'[a].nextTime = host'[alarm'[a].host].nextFire + k * alarm'[a].period
    BY DEF InStep
  <2>1. CASE Kept(a)
    <3>1. Listed(alarm[a].host)  BY <2>1 DEF Kept, Listed
    <3> QED  BY <2>1, <3>1 DEF IInv, InStep, Kept
  <2>2. CASE SetAnew(a)
    <3>1. alarm'[a].nextTime \in Nat /\ alarm'[a].period \in Nat  BY <1>n
    <3>2. alarm'[a].nextTime = alarm'[a].nextTime + 0 * alarm'[a].period  BY <3>1
    <3>3. host'[alarm'[a].host].nextFire = alarm'[a].nextTime  BY <2>2 DEF SetAnew
    <3> QED  BY <3>2, <3>3
  <2> QED  BY <2>1, <2>2
<1>5. Coverage'
  <2> SUFFICES ASSUME NEW a \in Alarm, Active(a)' PROVE Covered(a)'
    BY DEF Coverage
  <2>1. CASE Kept(a)
    <3>1. Covered(a)  BY <2>1 DEF IInv, Coverage, Kept
    <3>2. HostAlarmFiresFor(a)' <=> HostAlarmFiresFor(a)
      BY <2>1 DEF HostAlarmFiresFor, Listed, Kept
    <3>3. reached(a)' = reached(a)  BY <2>1 DEF reached, Kept
    <3>4. AlarmThreadComesFor(reached(a))' <=> AlarmThreadComesFor(reached(a))
      BY <3>3 DEF AlarmThreadComesFor
    <3> QED  BY <3>1, <3>2, <3>3, <3>4 DEF Covered
  <2>2. CASE SetAnew(a)
    <3>1. alarm'[a].nextTime \in Nat  BY <1>n
    <3>2. HostAlarmFiresFor(a)'  BY <2>2, <3>1 DEF SetAnew, HostAlarmFiresFor
    <3> QED  BY <3>2 DEF Covered
  <2> QED  BY <2>1, <2>2
<1> QED  BY <1>1, <1>2, <1>3, <1>4, <1>5 DEF IInv

LEMMA Destroying ==
  ASSUME IInv, NEW h \in Host, OSHostAlarmDestroy(h)
  PROVE  host'[h] = Unlisted /\ \A g \in Host : g # h => host'[g] = host[g]
  BY DEF IInv, TypeOK, OSHostAlarmDestroy, Listed

LEMMA CancelStep ==
  ASSUME AlarmAssumption, IInv, NEW b \in Alarm, OSCancelAlarm(b)
  PROVE  IInv'
<1>0. /\ Active(b) /\ OSHostAlarmDestroy(alarm[b].host) /\ alarm' = [alarm EXCEPT ![b] = Created]
      /\ UNCHANGED <<now, signaled, alarmThread, update, call, waiting, undefined>>
      /\ undefined # "emptyList"
  BY DEF OSCancelAlarm, alarmUnchanged, Unlocked, Running
<1>1. alarm[b].host \in Host /\ HostsOwned  BY <1>0 DEF IInv, TypeOK, Active
<1>2. TypeOK'
  <2>1. host' \in [Host -> HostAlarm] /\ g_soonestAlarm' \in Ticks
    BY <1>0, <1>1, DestroyType DEF IInv
  <2>2. alarm' \in [Alarm -> [host : Host \union {None}, nextTime : Ticks, period : Period]]
    <3>1. 0 \in Ticks /\ 0 \in Period  BY DEF AlarmAssumption, Ticks, Period
    <3> QED  BY <1>0, <3>1 DEF IInv, TypeOK, Created
  <2> QED  BY <1>0, <2>1, <2>2 DEF IInv, TypeOK
<1>3. host'[alarm[b].host] = Unlisted /\ \A g \in Host : g # alarm[b].host => host'[g] = host[g]
  BY <1>0, <1>1, Destroying
<1>4. \A a \in Alarm : Active(a)' => /\ a # b /\ Active(a) /\ alarm'[a] = alarm[a]
                                    /\ alarm[a].host \in Host /\ alarm[a].host # alarm[b].host
  BY <1>0, <1>1 DEF IInv, TypeOK, HostsOwned, Active, Created
<1>5. \A a \in Alarm : Active(a)' => Kept(a)
  BY <1>3, <1>4 DEF Kept
<1>6. HostsOwned'
  <2>1. \A t \in waiting : /\ host'[call[t].host] = host[call[t].host]
                           /\ Listed(call[t].host) /\ host[call[t].host].handler = t
    <3> SUFFICES ASSUME NEW t \in waiting
                 PROVE  /\ host'[call[t].host] = host[call[t].host]
                        /\ Listed(call[t].host) /\ host[call[t].host].handler = t
      OBVIOUS
    <3>1. t \in Thread  BY DEF IInv, TypeOK
    <3>2. call[t].host # alarm[b].host /\ call[t].host \in Host \union {None}
      BY <1>0, <1>1, <3>1 DEF HostsOwned, IInv, TypeOK
    <3>3. Listed(call[t].host) /\ host[call[t].host].handler = t  BY <1>1 DEF HostsOwned
    <3>4. call[t].host # None  BY <3>1, <1>1 DEF HostsOwned
    <3> QED  BY <1>3, <3>2, <3>3, <3>4
  <2>2. \A h \in Host : host'[h] # Unlisted => Listed(h) /\ host'[h] = host[h]
    BY <1>1, <1>3 DEF Listed
  <2>3. \A a \in Alarm : Active(a)' => alarm'[a] = alarm[a] /\ host'[alarm[a].host] = host[alarm[a].host]
    BY <1>5 DEF Kept
  <2> QED  BY <1>0, <1>1, <1>4, <2>1, <2>2, <2>3 DEF HostsOwned, Listed
<1> QED  BY <1>0, <1>2, <1>5, <1>6, AlarmStep

LEMMA InitiateStep ==
  ASSUME AlarmAssumption, IInv, NEW b \in Alarm, NEW nextTime \in Ticks, NEW period \in Period,
         __OSInitiateAlarm(b, nextTime, period),
         period # 0 => nextTime <= now + period, b \in Ticker => period # 0
  PROVE  IInv'
<1> DEFINE h == New(b, alarm[b].host)
           old == alarm[b].host
           new == [nextFire |-> nextTime, period |-> period, handler |-> "alarmEvent"]
<1>0. /\ h \in Host /\ (IsNew(h) \/ h = old)
      /\ OSHostAlarmCreate(h, old, new)
      /\ alarm' = [alarm EXCEPT ![b] = [host |-> h, nextTime |-> nextTime, period |-> period]]
      /\ UNCHANGED <<now, signaled, alarmThread, update, call, waiting, undefined>>
      /\ undefined # "emptyList"
  BY NewObject DEF __OSInitiateAlarm, alarmUnchanged, Unlocked, Running
<1>1. TypeOK'  BY InitiateTypes DEF IInv
<1>2. HostsOwned /\ TypeOK  BY DEF IInv
<1>3. new # Unlisted /\ new.handler = "alarmEvent" /\ new.nextFire = nextTime /\ new.period = period
      /\ "alarmEvent" # None
  BY DEF AlarmAssumption, Unlisted
<1> HIDE DEF h, new
<1>4. /\ host'[h] = new
      /\ \A g \in Host : g # h /\ g # old => host'[g] = host[g]
      /\ \A g \in Host : g # h /\ host'[g] # Unlisted => host'[g] = host[g]
  BY <1>0 DEF OSHostAlarmCreate
\* Nobody else has the new object or the old one.
<1>5. \A a \in Alarm : a # b /\ Active(a) =>
         alarm[a].host # h /\ alarm[a].host # old /\ alarm[a].host \in Host
  <2> SUFFICES ASSUME NEW a \in Alarm, a # b, Active(a)
               PROVE  alarm[a].host # h /\ alarm[a].host # old /\ alarm[a].host \in Host
    OBVIOUS
  <2>1. alarm[a].host # old  BY <1>2 DEF HostsOwned, Active
  <2>2. alarm[a].host # h  BY <1>0, <2>1 DEF IsNew
  <2> QED  BY <1>2, <2>1, <2>2 DEF TypeOK, Active
<1>6. \A t \in Thread : call[t].host # None => call[t].host # h /\ call[t].host # old
  <2> SUFFICES ASSUME NEW t \in Thread, call[t].host # None
               PROVE  call[t].host # h /\ call[t].host # old
    OBVIOUS
  <2>1. call[t].host # old  BY <1>2 DEF HostsOwned, Active
  <2> QED  BY <1>0, <2>1 DEF IsNew
<1>7. /\ alarm'[b] = [host |-> h, nextTime |-> nextTime, period |-> period]
      /\ \A a \in Alarm : a # b => alarm'[a] = alarm[a]
  BY <1>0, <1>2 DEF TypeOK
<1>8. \A a \in Alarm : Active(a)' => Kept(a) \/ SetAnew(a)
  <2> SUFFICES ASSUME NEW a \in Alarm, Active(a)' PROVE Kept(a) \/ SetAnew(a)
    OBVIOUS
  <2>1. CASE a = b  BY <1>3, <1>4, <1>7, <2>1 DEF SetAnew, Listed
  <2>2. CASE a # b  BY <1>4, <1>5, <1>7, <2>2 DEF Kept, Active
  <2> QED  BY <2>1, <2>2
<1>9. HostsOwned'
  <2>1. \A a \in Alarm : a # b /\ Active(a)' =>
           /\ alarm'[a] = alarm[a] /\ host'[alarm[a].host] = host[alarm[a].host] /\ Active(a)
           /\ alarm[a].host # h
    BY <1>4, <1>5, <1>7 DEF Active
  <2>2. alarm'[b].host = h /\ alarm'[b].period = period  BY <1>7
  <2>3. \A t \in waiting : host'[call[t].host] = host[call[t].host]
    <3> SUFFICES ASSUME NEW t \in waiting PROVE host'[call[t].host] = host[call[t].host]
      OBVIOUS
    <3>1. t \in Thread /\ call[t].host # None  BY <1>2 DEF HostsOwned, TypeOK
    <3>2. call[t].host \in Host  BY <1>2, <3>1 DEF TypeOK
    <3> QED  BY <1>4, <1>6, <3>1, <3>2
  <2>4. \A t \in Thread : call[t].host # h
    <3> SUFFICES ASSUME NEW t \in Thread, call[t].host = h PROVE FALSE
      OBVIOUS
    <3>1. h # None  BY <1>0 DEF AlarmAssumption
    <3> QED  BY <1>6, <3>1
  <2>5. \A a \in Alarm : Active(a)' /\ host'[alarm'[a].host] # Unlisted =>
           /\ host'[alarm'[a].host].handler = "alarmEvent"
           /\ host'[alarm'[a].host].period = alarm'[a].period
    BY <1>2, <1>3, <1>4, <2>1, <2>2 DEF HostsOwned, Listed
  <2>6. \A a \in Alarm : Active(a)' /\ alarm'[a].period # 0 => host'[alarm'[a].host] # Unlisted
    BY <1>2, <1>3, <1>4, <2>1, <2>2 DEF HostsOwned, Listed
  <2>7. \A a, c \in Alarm : Active(a)' /\ Active(c)' /\ a # c => alarm'[a].host # alarm'[c].host
    BY <1>2, <2>1, <2>2 DEF HostsOwned
  <2>8. \A a \in Alarm, t \in Thread : Active(a)' => call[t].host # alarm'[a].host
    BY <1>2, <2>1, <2>2, <2>4 DEF HostsOwned
  <2>9. \A t \in waiting : host'[call[t].host] # Unlisted /\ host'[call[t].host].handler = t
    BY <1>2, <2>3 DEF HostsOwned, Listed
  <2>10. \A g \in Host : host'[g] # Unlisted => host'[g].handler # None
    BY <1>2, <1>3, <1>4 DEF HostsOwned, Listed
  <2> QED  BY <1>0, <1>2, <2>5, <2>6, <2>7, <2>8, <2>9, <2>10 DEF HostsOwned, Listed
<1> QED  BY <1>0, <1>1, <1>8, <1>9, AlarmStep

LEMMA WaitingStep ==
  ASSUME AlarmAssumption, IInv, NEW t \in Thread, NEW d \in Delays, NEW timed \in BOOLEAN,
         WaitsFor(t, d, timed)
  PROVE  IInv'
<1> DEFINE h == New(t, None)
           new == [nextFire |-> (now + d) % Word, period |-> 0, handler |-> t]
<1>0. /\ h \in Host /\ IsNew(h) /\ call[t] = NoCall
      /\ OSHostAlarmCreate(h, None, new)
      /\ call' = [call EXCEPT ![t] = [host |-> h, timed |-> timed]]
      /\ waiting' = waiting \union {t}
      /\ UNCHANGED <<now, alarm, signaled, alarmThread, update, undefined>>
      /\ undefined # "emptyList"
  <2>1. HasNew(t, None) /\ (h \in Host => h # None)  BY DEF WaitsFor, AlarmAssumption
  <2>2. h \in Host /\ IsNew(h)  BY <2>1, NewObject
  <2> QED  BY <2>2 DEF WaitsFor, waitUnchanged, Unlocked, Running
<1>2. HostsOwned /\ TypeOK  BY DEF IInv
<1>t. new \in HostAlarm
  <2>1. now + d \in Int /\ Word \in Nat \ {0}  BY <1>2 DEF AlarmAssumption, TypeOK
  <2>2. (now + d) % Word \in 0 .. Word - 1  BY <2>1, Remainder
  <2> QED  BY <2>2 DEF HostAlarm, Ticks, Period
<1>3. new # Unlisted /\ new.handler = t /\ t # None /\ h # None
  BY <1>0 DEF AlarmAssumption, Unlisted
<1> HIDE DEF h, new
<1>1. TypeOK'
  <2>1. host' \in [Host -> HostAlarm] /\ g_soonestAlarm' \in Ticks
    BY <1>0, <1>2, <1>t, CreateType
  <2> QED  BY <1>0, <1>2, <2>1 DEF TypeOK
<1>4. /\ host'[h] = new
      /\ \A g \in Host : g # h => host'[g] = host[g]
  BY <1>0 DEF OSHostAlarmCreate, AlarmAssumption
<1>5. \A a \in Alarm : Active(a)' => Kept(a)
  BY <1>0, <1>2, <1>4 DEF Active, Kept, IsNew, TypeOK
<1>6. HostsOwned'
  <2>1. /\ call'[t] = [host |-> h, timed |-> timed]
        /\ \A u \in Thread : u # t => call'[u] = call[u] /\ call[u].host # h
        /\ \A a \in Alarm : Active(a) => alarm[a].host # h
    BY <1>0, <1>2 DEF TypeOK, IsNew
  <2>2. \A u \in waiting : u # t => /\ u \in Thread /\ call'[u] = call[u]
                                   /\ call[u] # NoCall
                                   /\ host'[call[u].host] = host[call[u].host]
    <3> SUFFICES ASSUME NEW u \in waiting, u # t
                 PROVE  u \in Thread /\ call'[u] = call[u] /\ call[u] # NoCall
                        /\ host'[call[u].host] = host[call[u].host]
      OBVIOUS
    <3>1. u \in Thread /\ call[u] # NoCall /\ call[u].host # None  BY <1>2 DEF HostsOwned, TypeOK
    <3>2. call[u].host \in Host  BY <1>2, <3>1 DEF TypeOK
    <3> QED  BY <1>4, <2>1, <3>1, <3>2
  <2>3. \A a \in Alarm : Active(a) => alarm[a].host \in Host /\ host'[alarm[a].host] = host[alarm[a].host]
    BY <1>2, <1>4, <2>1 DEF TypeOK, Active
  <2>4. \A u \in waiting' : /\ call'[u] # NoCall /\ host'[call'[u].host] # Unlisted
                            /\ host'[call'[u].host].handler = u
    <3> SUFFICES ASSUME NEW u \in waiting'
                 PROVE  /\ call'[u] # NoCall /\ host'[call'[u].host] # Unlisted
                        /\ host'[call'[u].host].handler = u
      OBVIOUS
    <3>1. CASE u = t  BY <1>3, <1>4, <2>1, <3>1 DEF NoCall
    <3>2. CASE u # t  BY <1>0, <1>2, <2>2, <3>2 DEF HostsOwned, Listed
    <3> QED  BY <3>1, <3>2
  <2>5. \A u, v \in Thread : u # v /\ call'[u].host # None => call'[u].host # call'[v].host
    BY <1>2, <1>3, <2>1 DEF HostsOwned
  <2>6. \A u \in Thread : call'[u] # NoCall => call'[u].host # None
    BY <1>2, <1>3, <2>1 DEF HostsOwned
  <2>7. \A g \in Host : host'[g] # Unlisted => host'[g].handler # None
    BY <1>2, <1>3, <1>4 DEF HostsOwned, Listed
  <2>8. \A a \in Alarm, u \in Thread : Active(a) => call'[u].host # alarm[a].host
    BY <1>2, <2>1 DEF HostsOwned
  <2>9. \A a \in Alarm : Active(a)' <=> Active(a)  BY <1>0 DEF Active
  <2> QED  BY <1>0, <1>2, <2>3, <2>4, <2>5, <2>6, <2>7, <2>8, <2>9 DEF HostsOwned, Listed
<1> QED  BY <1>0, <1>1, <1>5, <1>6, AlarmStep

LEMMA WaitReturnsStep ==
  ASSUME AlarmAssumption, IInv, NEW t \in Thread, WaitReturns(t)
  PROVE  IInv'
<1> DEFINE h == call[t].host
<1>0. /\ OSHostAlarmDestroy(h) /\ call[t] # NoCall /\ t \notin waiting
      /\ call' = [call EXCEPT ![t] = NoCall]
      /\ UNCHANGED <<now, alarm, signaled, alarmThread, update, waiting, undefined>>
      /\ undefined # "emptyList"
  BY DEF WaitReturns, waitUnchanged, Unlocked, Running
<1>2. HostsOwned /\ TypeOK  BY DEF IInv
<1>3. h # None /\ h \in Host
  <2>1. h # None  BY <1>0, <1>2 DEF HostsOwned
  <2> QED  BY <1>2, <2>1 DEF TypeOK
<1>4. host'[h] = Unlisted /\ \A g \in Host : g # h => host'[g] = host[g]
  BY <1>0, <1>3, Destroying
<1>5. /\ call'[t] = NoCall /\ \A u \in Thread : u # t => call'[u] = call[u] /\ call[u].host # h
      /\ \A a \in Alarm : Active(a) => alarm[a].host # h
  BY <1>0, <1>2, <1>3 DEF TypeOK, HostsOwned
<1>1. TypeOK'
  <2>1. host' \in [Host -> HostAlarm] /\ g_soonestAlarm' \in Ticks
    BY <1>0, <1>2, <1>3, DestroyType
  <2>2. call' \in [Thread -> [host : Host \union {None}, timed : BOOLEAN]]
    BY <1>0, <1>2 DEF TypeOK, NoCall
  <2> QED  BY <1>0, <1>2, <2>1, <2>2 DEF TypeOK
<1>6. \A a \in Alarm : Active(a)' => Kept(a)
  BY <1>0, <1>2, <1>4, <1>5 DEF Active, Kept, TypeOK
<1>7. HostsOwned'
  <2>1. \A u \in waiting : /\ u \in Thread /\ call'[u] = call[u] /\ call[u] # NoCall
                           /\ host'[call[u].host] = host[call[u].host]
    <3> SUFFICES ASSUME NEW u \in waiting
                 PROVE  u \in Thread /\ call'[u] = call[u] /\ call[u] # NoCall
                        /\ host'[call[u].host] = host[call[u].host]
      OBVIOUS
    <3>1. u \in Thread /\ u # t /\ call[u] # NoCall /\ call[u].host # None
      BY <1>0, <1>2 DEF HostsOwned, TypeOK
    <3>2. call[u].host \in Host  BY <1>2, <3>1 DEF TypeOK
    <3> QED  BY <1>4, <1>5, <3>1, <3>2
  <2>2. \A a \in Alarm : Active(a) => alarm[a].host \in Host /\ host'[alarm[a].host] = host[alarm[a].host]
    BY <1>2, <1>4, <1>5 DEF TypeOK, Active
  <2>3. \A u, v \in Thread : u # v /\ call'[u].host # None => call'[u].host # call'[v].host
    <3> SUFFICES ASSUME NEW u \in Thread, NEW v \in Thread, u # v, call'[u].host # None,
                        call'[u].host = call'[v].host
                 PROVE  FALSE
      OBVIOUS
    <3>1. NoCall.host = None  BY DEF NoCall
    <3>2. u # t /\ v # t  BY <1>5, <3>1
    <3> QED  BY <1>2, <1>5, <3>2 DEF HostsOwned
  <2>4. \A u \in Thread : call'[u] # NoCall => call'[u].host # None
    BY <1>2, <1>5 DEF HostsOwned
  <2>5. \A a \in Alarm, u \in Thread : Active(a) => call'[u].host # alarm[a].host
    <3>1. NoCall.host = None  BY DEF NoCall
    <3> QED  BY <1>2, <1>5, <3>1 DEF HostsOwned, Active
  <2>6. \A g \in Host : host'[g] # Unlisted => host[g] # Unlisted /\ host'[g] = host[g]
    BY <1>3, <1>4
  <2>7. \A a \in Alarm : Active(a)' <=> Active(a)  BY <1>0 DEF Active
  <2> QED  BY <1>0, <1>2, <2>1, <2>2, <2>3, <2>4, <2>5, <2>6, <2>7 DEF HostsOwned, Listed
<1> QED  BY <1>0, <1>1, <1>6, <1>7, AlarmStep

\* No alarm is active after the end of a title.
LEMMA NoAlarms ==
  ASSUME AlarmAssumption, TypeOK, \A a \in Alarm : alarm[a] = Created, call = [t \in Thread |-> NoCall],
         waiting = {}, signaled = FALSE, undefined # "emptyList",
         \A h \in Host : Listed(h) => host[h].handler # None
  PROVE  IInv
<1>1. \A a \in Alarm : ~Active(a)  BY DEF Active, Created
<1>2. \A t \in Thread : call[t] = NoCall /\ NoCall.host = None  BY DEF NoCall
<1>3. HostsOwned  BY <1>1, <1>2 DEF HostsOwned
<1>4. TickersRepeat /\ EmptyListOnlyBeforeTickers
  BY <1>1 DEF AlarmAssumption, TickersRepeat, EmptyListOnlyBeforeTickers
<1>5. InStep /\ Coverage /\ PeriodicWithinAPeriod
  BY <1>1 DEF InStep, Coverage, PeriodicWithinAPeriod
<1>6. SignalFindsThread  BY DEF SignalFindsThread
<1> QED  BY <1>3, <1>4, <1>5, <1>6 DEF IInv

LEMMA ShutdownStep ==
  ASSUME AlarmAssumption, IInv, ShutdownTitle
  PROVE  IInv'
<1>1. TypeOK'
  <2>1. Unlisted \in HostAlarm /\ 0 \in Ticks /\ 0 \in Period
    BY DEF AlarmAssumption, Unlisted, HostAlarm, Ticks, Period
  <2>2. host' \in [Host -> HostAlarm] /\ g_soonestAlarm' \in Ticks
    BY <2>1 DEF IInv, TypeOK, ShutdownTitle, OSAlarm_Shutdown
  <2>3. alarm' \in [Alarm -> [host : Host \union {None}, nextTime : Ticks, period : Period]]
    BY <2>1 DEF ShutdownTitle, Created
  <2>4. call' \in [Thread -> [host : Host \union {None}, timed : BOOLEAN]]
    BY DEF ShutdownTitle, NoCall
  <2>5. now \in Nat /\ alarmThread' \in [at : {"call", "waiting", "ready", "scan", "callback"}, tick : 0 .. now]
    BY DEF AlarmAssumption, IInv, TypeOK, ShutdownTitle
  <2> QED  BY <2>2, <2>3, <2>4, <2>5 DEF IInv, TypeOK, ShutdownTitle
<1>2. \A a \in Alarm : alarm'[a] = Created /\ Created.host = None  BY DEF ShutdownTitle, Created
<1>3. /\ call' = [t \in Thread |-> NoCall] /\ waiting' = {} /\ signaled' = FALSE
      /\ undefined' # "emptyList"
  BY DEF ShutdownTitle, Running
<1>4. \A h \in Host : host'[h] # Unlisted => host'[h].handler # None
  BY DEF IInv, HostsOwned, Listed, ShutdownTitle, OSAlarm_Shutdown
<1>5. \A t \in Thread : call'[t] = NoCall /\ NoCall.host = None  BY <1>3 DEF NoCall
<1>6. HostsOwned'  BY <1>2, <1>3, <1>4, <1>5 DEF HostsOwned, Active, Listed
<1>7. TickersRepeat' /\ EmptyListOnlyBeforeTickers'
  BY <1>2, <1>3 DEF AlarmAssumption, TickersRepeat, EmptyListOnlyBeforeTickers, Active
<1>8. InStep' /\ Coverage' /\ PeriodicWithinAPeriod'
  BY <1>2 DEF InStep, Coverage, PeriodicWithinAPeriod, Active
<1>9. SignalFindsThread'  BY <1>3 DEF SignalFindsThread
<1> QED  BY <1>1, <1>6, <1>7, <1>8, <1>9 DEF IInv
-----------------------------------------------------------------------------
(* The inductive invariant and what follows from it.                        *)

LEMMA InitIInv == ASSUME AlarmAssumption, Init PROVE IInv
<1>1. TypeOK  BY TypeInit
<1>2. \A h \in Host : ~Listed(h)  BY DEF Init, Listed
<1>3. /\ \A a \in Alarm : alarm[a] = Created
      /\ call = [t \in Thread |-> NoCall] /\ waiting = {} /\ signaled = FALSE
      /\ undefined # "emptyList"
  BY DEF Init
<1> QED  BY <1>1, <1>2, <1>3, NoAlarms

LEMMA NextIInv == ASSUME AlarmAssumption, IInv, [Next]_vars PROVE IInv'
<1>t. TypeOK  BY DEF IInv
<1>1. CASE Tick  BY <1>1, TickStep
<1>2. CASE alarm_update
  <2>1. TypeOK'  BY <1>2, <1>t, UpdateTypes
  <2> QED  BY <1>2, <2>1, QuietUpdate, UpdateFiring DEF alarm_update
<1>3. CASE _OSAlarmThread
  <2>1. TypeOK'  BY <1>3, <1>t, AlarmThreadTypes
  <2> QED  BY <1>3, <2>1, QuietAlarmThread, AlarmThreadFiring DEF _OSAlarmThread
<1>4. CASE ShutdownTitle  BY <1>4, ShutdownStep
<1>5. ASSUME NEW a \in Alarm, Sets(a) PROVE IInv'
  <2>1. PICK nextTime \in Ticks, period \in Period :
           /\ __OSInitiateAlarm(a, nextTime, period)
           /\ period # 0 => nextTime <= now + period
           /\ a \in Ticker => period # 0
    BY <1>5, <1>t, Setting
  <2> QED  BY <2>1, InitiateStep
<1>6. CASE \E a \in Ticker : start(a)
  BY <1>5, <1>6 DEF Sets, AlarmAssumption
<1>7. CASE \E a \in Alarm \ Ticker : GuestAlarms(a)
  BY <1>5, <1>7, CancelStep DEF Sets, GuestAlarms
<1>8. ASSUME NEW t \in Thread, GuestWaits(t) PROVE IInv'
  BY <1>8, WaitingStep, SignaledWaitStep, WaitReturnsStep DEF GuestWaits
<1>9. CASE UNCHANGED vars
  <2>1. UNCHANGED <<host, alarm, call, waiting, now, signaled, alarmThread, undefined, update, g_soonestAlarm>>
    BY <1>9 DEF vars
  <2>2. TypeOK' /\ SignalFindsThread' /\ EmptyListOnlyBeforeTickers'
    BY <2>1 DEF IInv, TypeOK, SignalFindsThread, EmptyListOnlyBeforeTickers, Active
  <2>3. now <= now'  BY <2>1 DEF IInv, TypeOK
  <2>4. \A a \in Alarm : AlarmThreadComesFor(reached(a)) => AlarmThreadComesFor(reached(a))'
    BY <2>1 DEF AlarmThreadComesFor, reached
  <2> QED  BY <2>1, <2>2, <2>3, <2>4, QuietStep
<1> QED  BY <1>1, <1>2, <1>3, <1>4, <1>6, <1>7, <1>8, <1>9 DEF Next

\* The inductive invariant: the checked invariants, whose the host alarms are,
\* that an alarm and its host alarm stay whole periods apart, and that the
\* alarm thread comes for the last time the host alarm has fired for.
THEOREM AlarmInvariant == Spec => []IInv
<1>1. Init => IInv  BY AlarmAssumption, InitIInv
<1>2. IInv /\ [Next]_vars => IInv'  BY AlarmAssumption, NextIInv
<1> QED  BY <1>1, <1>2, PTL DEF Spec

\* Every variable of the alarms keeps its type.
THEOREM AlarmTypes == Spec => []TypeOK
<1>1. IInv => TypeOK  BY DEF IInv
<1> QED  BY <1>1, AlarmInvariant, PTL

\* Whatever alarms are set, cancelled and late, a host alarm or the alarm
\* thread still comes for each, and every waiting thread has its host alarm.
THEOREM AlarmsAreServed == Spec => []NoAlarmIsLost
<1>1. ASSUME IInv PROVE NoAlarmIsLost
  <2>1. \A t \in waiting : Listed(call[t].host) /\ host[call[t].host].handler = t
    BY <1>1 DEF IInv, HostsOwned
  <2>2. ASSUME NEW a \in Alarm, Active(a), ~HostAlarmFiresFor(a)
        PROVE  AlarmThreadComesFor(alarm[a].nextTime)
    <3>1. AlarmThreadComesFor(reached(a))  BY <1>1, <2>2 DEF IInv, Coverage, Covered
    <3>2. /\ alarm[a].nextTime \in Int /\ reached(a) \in Int
          /\ alarm[a].nextTime <= reached(a)
      BY <1>1, <2>2, AlarmAssumption, Late
    <3> QED  BY <1>1, <3>1, <3>2, AlarmAssumption, ComesForEarlier
  <2> QED  BY <2>1, <2>2 DEF NoAlarmIsLost
<1> QED  BY <1>1, AlarmInvariant, PTL

\* updateAlarms never finds its list empty while an alarm of padscore or vpad runs.
THEOREM TickersKeepTheList == Spec => []EmptyListOnlyBeforeTickers
<1>1. IInv => EmptyListOnlyBeforeTickers  BY DEF IInv
<1> QED  BY <1>1, AlarmInvariant, PTL

\* For every start and every width of the ticks, the next time of a periodic
\* alarm is a period away or less.
THEOREM PeriodicAlarmsStayNear == Spec => []PeriodicWithinAPeriod
<1>1. IInv => PeriodicWithinAPeriod  BY DEF IInv
<1> QED  BY <1>1, AlarmInvariant, PTL

\* A host alarm of a wait becomes stale only by the early return of OSAlarm_Shutdown.
LEMMA StaleStep ==
  ASSUME AlarmAssumption, IInv, Next, NEW active \in Alarm, Active(active)
  PROVE  Stale' \subseteq Stale
<1> SUFFICES ASSUME NEW g \in Host, host'[g] # Unlisted, host'[g].handler # "alarmEvent",
                    call'[host'[g].handler].host # g
             PROVE  /\ host[g] # Unlisted /\ host[g].handler # "alarmEvent"
                    /\ call[host[g].handler].host # g
  BY DEF Stale, Listed
<1>t. TypeOK /\ HostsOwned  BY DEF IInv
<1>1. CASE UNCHANGED <<host, call>>
  BY <1>1
<1>2. ASSUME NEW h \in Host, updateAlarmsFires(h)
      PROVE  /\ host[g] # Unlisted /\ host[g].handler # "alarmEvent"
             /\ call[host[g].handler].host # g
  <2>1. call' = call /\ host' = [host EXCEPT ![h] = Requeued(@)] /\ host[h] # Unlisted
    BY <1>2 DEF updateAlarmsFires, IsFirst, Listed
  <2>2. host'[h] # Unlisted => host'[h].handler = host[h].handler
    BY <2>1, <1>t DEF TypeOK, HostAlarm, Requeued
  <2>3. g # h => host'[g] = host[g]  BY <2>1, <1>t DEF TypeOK
  <2> QED  BY <2>1, <2>2, <2>3
<1>3. ASSUME NEW a \in Alarm, NEW nextTime \in Ticks, NEW period \in Period,
             __OSInitiateAlarm(a, nextTime, period)
      PROVE  /\ host[g] # Unlisted /\ host[g].handler # "alarmEvent"
             /\ call[host[g].handler].host # g
  <2> DEFINE h == New(a, alarm[a].host)
             new == [nextFire |-> nextTime, period |-> period, handler |-> "alarmEvent"]
  <2>1. call' = call /\ OSHostAlarmCreate(h, alarm[a].host, new) /\ new.handler = "alarmEvent"
    BY <1>3 DEF __OSInitiateAlarm, alarmUnchanged
  <2> HIDE DEF h, new
  <2>2. host'[g] = host[g]  BY <2>1 DEF OSHostAlarmCreate
  <2> QED  BY <2>1, <2>2
<1>4. ASSUME NEW a \in Alarm, OSCancelAlarm(a)
      PROVE  /\ host[g] # Unlisted /\ host[g].handler # "alarmEvent"
             /\ call[host[g].handler].host # g
  <2>1. call' = call /\ OSHostAlarmDestroy(alarm[a].host) /\ alarm[a].host \in Host
    BY <1>4, <1>t DEF OSCancelAlarm, alarmUnchanged, TypeOK, Active
  <2>2. host'[g] = host[g]  BY <2>1, Destroying
  <2> QED  BY <2>1, <2>2
<1>5. ASSUME NEW t \in Thread, NEW d \in Delays, NEW timed \in BOOLEAN, WaitsFor(t, d, timed)
      PROVE  /\ host[g] # Unlisted /\ host[g].handler # "alarmEvent"
             /\ call[host[g].handler].host # g
  <2> DEFINE h == New(t, None)
             new == [nextFire |-> (now + d) % Word, period |-> 0, handler |-> t]
  <2>1. /\ OSHostAlarmCreate(h, None, new) /\ new.handler = t
        /\ call' = [call EXCEPT ![t] = [host |-> h, timed |-> timed]] /\ call[t].host = None
    BY <1>5 DEF WaitsFor, NoCall
  <2> HIDE DEF h, new
  <2>2. call'[t].host = h  BY <2>1, <1>t DEF TypeOK
  <2>3. g # h  BY <2>1, <2>2 DEF OSHostAlarmCreate
  <2>4. host'[g] = host[g] /\ g # None  BY <2>1, <2>3 DEF OSHostAlarmCreate, AlarmAssumption
  <2>5. \A u \in Thread : u # t => call'[u] = call[u]  BY <2>1, <1>t DEF TypeOK
  <2>6. host[g].handler \in Thread
    BY <1>t, <2>4 DEF TypeOK, HostAlarm, HostsOwned, Listed
  <2> QED  BY <2>1, <2>4, <2>5, <2>6
<1>6. ASSUME NEW t \in Thread, WaitReturns(t)
      PROVE  /\ host[g] # Unlisted /\ host[g].handler # "alarmEvent"
             /\ call[host[g].handler].host # g
  <2>1. /\ OSHostAlarmDestroy(call[t].host) /\ call[t] # NoCall
        /\ call' = [call EXCEPT ![t] = NoCall]
    BY <1>6 DEF WaitReturns
  <2>2. call[t].host \in Host
    BY <1>t, <2>1 DEF HostsOwned, TypeOK
  <2>3. host'[call[t].host] = Unlisted /\ \A h \in Host : h # call[t].host => host'[h] = host[h]
    BY <2>1, <2>2, Destroying
  <2>4. g # call[t].host /\ host'[g] = host[g]  BY <2>3
  <2>5. host[g].handler \in Thread
    BY <1>t, <2>4 DEF TypeOK, HostAlarm, HostsOwned, Listed
  <2>6. \A u \in Thread : u # t => call'[u] = call[u]  BY <2>1, <1>t DEF TypeOK
  <2> QED  BY <2>4, <2>5, <2>6
<1>7. CASE ShutdownTitle
  BY <1>7 DEF ShutdownTitle, OSAlarm_Shutdown
<1>8. CASE Tick  BY <1>1, <1>8 DEF Tick
<1>9. CASE alarm_update
  BY <1>1, <1>2, <1>9 DEF alarm_update, quickCheckForAlarm, updateAlarmsStarts, updateAlarmsEnds
<1>10. CASE _OSAlarmThread
  BY <1>1, <1>10 DEF _OSAlarmThread, AlarmThreadWaits, AlarmThreadReadsTime, AlarmThreadEndsScan,
                     CallbackReturns, AlarmThreadFires, alarmThreadUnchanged
<1>11. ASSUME NEW a \in Alarm, Sets(a)
       PROVE  /\ host[g] # Unlisted /\ host[g].handler # "alarmEvent"
              /\ call[host[g].handler].host # g
  BY <1>3, <1>11, <1>t, Setting
<1>12. CASE \E a \in Ticker : start(a)
  BY <1>11, <1>12 DEF Sets, AlarmAssumption
<1>13. CASE \E a \in Alarm \ Ticker : GuestAlarms(a)
  BY <1>4, <1>11, <1>13 DEF Sets, GuestAlarms
<1>14. CASE \E t \in Thread : GuestWaits(t)
  BY <1>1, <1>5, <1>6, <1>14 DEF GuestWaits, WaitIsSignaled, waitUnchanged
<1> QED  BY <1>7, <1>8, <1>9, <1>10, <1>12, <1>13, <1>14 DEF Next

\* While any alarm is active, no step leaves the host alarm of a wait behind
\* without the wait whose stack its context is on.
THEOREM WaitsDestroyTheirAlarms == Spec => WaitsEndTheirAlarms
<1>1. ASSUME IInv, [Next]_vars
      PROVE  [(\E a \in Alarm : Active(a)) => Stale' \subseteq Stale]_vars
  <2>1. CASE Next  BY <1>1, <2>1, AlarmAssumption, StaleStep
  <2>2. CASE UNCHANGED vars  BY <2>2
  <2> QED  BY <1>1, <2>1, <2>2
<1> QED  BY <1>1, AlarmInvariant, PTL DEF Spec, WaitsEndTheirAlarms
-----------------------------------------------------------------------------
(* The check of alarm_update without the lock.                              *)

\* g_soonestAlarm is the time of the first host alarm of the list.  It is 0, and
\* the check sends the main core to look, before the first alarm of a title.
SoonestExact ==
    /\ \A h \in Host : Listed(h) => g_soonestAlarm <= host[h].nextFire
    /\ \/ g_soonestAlarm \in {0, Never}
       \/ \E h \in Host : Listed(h) /\ g_soonestAlarm = host[h].nextFire

\* Every step keeps the list with its first time, or brings them up to date.
LEMMA ListSteps ==
  ASSUME Next
  PROVE  \/ UNCHANGED <<host, g_soonestAlarm>> \/ updateEarliestAlarmAtomic
         \/ host' = [h \in Host |-> Unlisted] /\ g_soonestAlarm' = 0
<1> DEFINE UpToDate == \/ UNCHANGED <<host, g_soonestAlarm>> \/ updateEarliestAlarmAtomic
                       \/ host' = [h \in Host |-> Unlisted] /\ g_soonestAlarm' = 0
<1>1. ASSUME NEW h, OSHostAlarmDestroy(h) PROVE UpToDate  BY <1>1 DEF OSHostAlarmDestroy
<1>2. ASSUME NEW a, NEW time, NEW period, __OSInitiateAlarm(a, time, period) PROVE UpToDate
  BY <1>2 DEF __OSInitiateAlarm, OSHostAlarmCreate
<1>3. CASE Tick \/ alarm_update
  BY <1>3 DEF Tick, alarm_update, quickCheckForAlarm, updateAlarmsStarts, updateAlarmsFires,
              updateAlarmsEnds
<1>4. CASE _OSAlarmThread
  BY <1>4 DEF _OSAlarmThread, AlarmThreadWaits, AlarmThreadReadsTime, AlarmThreadEndsScan,
              CallbackReturns, AlarmThreadFires, alarmThreadUnchanged
<1>5. CASE ShutdownTitle  BY <1>5 DEF ShutdownTitle, OSAlarm_Shutdown
<1>6. CASE \E a \in Ticker : start(a)  BY <1>2, <1>6 DEF start, OSSetPeriodicAlarm
<1>7. CASE \E a \in Alarm \ Ticker : GuestAlarms(a)
  BY <1>1, <1>2, <1>7 DEF GuestAlarms, OSCancelAlarm, OSSetAlarm, OSSetPeriodicAlarm
<1>8. CASE \E t \in Thread : GuestWaits(t)
  BY <1>1, <1>8 DEF GuestWaits, WaitsFor, OSHostAlarmCreate, WaitIsSignaled, WaitReturns
<1> QED  BY <1>3, <1>4, <1>5, <1>6, <1>7, <1>8 DEF Next

\* The main core reads g_soonestAlarm while others change the list: it never
\* passes an alarm that is due, whatever is set, cancelled and put back
\* meanwhile.  This is what DueIsServed rests on (quickCheckForAlarm).
QuickCheckSeesDueAlarms ==
    \A h \in Host : Listed(h) /\ host[h].nextFire <= now => now >= g_soonestAlarm

THEOREM QuickCheckMissesNothing == Spec => [](SoonestExact /\ QuickCheckSeesDueAlarms)
<1>1. Init => SoonestExact  BY DEF Init, SoonestExact, Listed
<1>2. ASSUME SoonestExact, [Next]_vars PROVE SoonestExact'
  <2>1. CASE UNCHANGED <<host, g_soonestAlarm>>  BY <1>2, <2>1 DEF SoonestExact, Listed, Never
  <2>2. CASE updateEarliestAlarmAtomic
    BY <2>2 DEF updateEarliestAlarmAtomic, SoonestExact, Listed, Never
  <2>3. CASE host' = [h \in Host |-> Unlisted] /\ g_soonestAlarm' = 0
    BY <2>3 DEF SoonestExact, Listed
  <2> QED  BY <1>2, <2>1, <2>2, <2>3, ListSteps DEF vars
<1>3. ASSUME IInv, SoonestExact PROVE QuickCheckSeesDueAlarms
  <2> SUFFICES ASSUME NEW h \in Host, Listed(h), host[h].nextFire <= now
               PROVE  now >= g_soonestAlarm
    BY DEF QuickCheckSeesDueAlarms
  <2>1. g_soonestAlarm <= host[h].nextFire  BY <1>3 DEF SoonestExact
  <2>2. now \in Int /\ host[h].nextFire \in Int /\ g_soonestAlarm \in Int
    BY <1>3, AlarmAssumption DEF IInv, TypeOK, HostAlarm, Ticks
  <2> QED  BY <2>1, <2>2
<1>4. SoonestExact /\ [Next]_vars => SoonestExact'  BY <1>2
<1>5. IInv /\ SoonestExact => QuickCheckSeesDueAlarms  BY <1>3
<1> QED  BY <1>1, <1>4, <1>5, AlarmInvariant, PTL DEF Spec
=============================================================================
