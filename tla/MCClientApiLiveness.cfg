SPECIFICATION FairClientSpec
CONSTANTS
    p1 = p1
    a1 = a1
    a2 = a2
    Package <- MCPackage
    Caller  <- MCCaller
    Closer  <- MCCloser
    Patient <- MCPatient
    Waiter  <- MCWaiter
    Operation <- MCLivenessOperation
    MaxTask = 1
    Packaged = FALSE
PROPERTIES
    ClosingEnds
    CallsComeBack
