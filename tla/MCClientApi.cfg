SPECIFICATION ClientSpec
CONSTANTS
    p1 = p1
    a1 = a1
    a2 = a2
    Package <- MCPackage
    Caller  <- MCCaller
    Closer  <- MCCloser
    Patient <- MCPatient
    Waiter  <- MCWaiter
    Operation <- MCOperation
    MaxTask = 2
    Packaged = TRUE
INVARIANTS
    LoaderIsAlone
    OneAtATime
PROPERTIES
    WindowGoesDrained
