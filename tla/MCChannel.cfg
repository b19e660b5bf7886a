SPECIFICATION Spec
CONSTANTS
    t1 = t1
    t2 = t2
    t3 = t3
    e1 = e1
    x1 = x1
    Thread <- ThreeThreads
    Element <- OneElement
    Exception <- OneException
    Capacity = 2
    Nullopt = nullopt
INVARIANTS
    TypeOK
    NoLostWakeup
    EndMarkerIsLast
    FirstInFirstOut
    ClosedMeansDrained
PROPERTIES
    NothingAcceptedAfterClose
    ImplementsClosableQueue
