SPECIFICATION FairSpec
CONSTANTS
    modA = modA
    modB = modB
    poller = poller
    closing = closing
    finish_close = finish_close
    Package <- MCPackage
    Waiter  <- MCWaiter
    Closer  <- MCCloser
    Patient <- MCPatient
    MaxTask = 4
INVARIANTS
    TypeOK
    OneRowPerPackage
    RunnerHasItsRow
    NoLostWakeup
    CloseIsFinal
PROPERTIES
    WaitingIsServed
    CloseComesBack
    ImplementsPackageJobs
