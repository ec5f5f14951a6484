CONSTANTS
    t = t
    ticker = ticker
    alarm1 = alarm1
    Host = {1, 2, 3, 4, 5}
    memory <- MCMemory
    Alarm = {ticker, alarm1}
    Ticker = {ticker}
    Thread = {t}
    None = None
    Delays <- MCDelays
    Starts <- MCStarts
    Periods = {3}
    TickerPeriod = 1
    Word <- MCWord
    MaxTime = 2
SPECIFICATION FairSpec
INVARIANTS TypeOK NoAlarmIsLost EmptyListOnlyBeforeTickers PeriodicWithinAPeriod
PROPERTIES WaitsEndTheirAlarms DueIsServed
CHECK_DEADLOCK FALSE
