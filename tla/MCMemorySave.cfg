SPECIFICATION FairSpec
CONSTANTS
    t1 = t1
    t2 = t2
    o1 = o1
    o2 = o2
    m1 = m1
    th1 = th1
    Threads = {th1}
    Tasks = {t1, t2}
    Ops = {o1, o2}
    Memories = {m1}
    ThreadOf <- MCThreadOf
    TaskOf <- MCTaskOf
    Target <- MCTarget
    Original = Original
    Adds = {}
    NoTask = NoTask
    NoOp = NoOp
    MaxAttempts = 2
    MaxTrouble = 2
INVARIANTS HistoryIsLinear OutcomesAreTrue LedgerForgets
PROPERTIES ItemsSettle
