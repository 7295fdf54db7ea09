\* A recurring job and one of an unregistered kind; one crash or database
\* exception; cancels, erasure, shutdown and run-due anywhere; the fairness of
\* the event loop.
SPECIFICATION FairSpec
CONSTANTS
    b = b
    u = u
    Jobs = {b, u}
    OneShot = {u}
    Handled = {b}
    Occurs <- OccursBU
    Backoff <- BackoffOne
    MaxTime = 2
    MaxFaults = 1
    MaxOrphans = 1
INVARIANTS RetriesWait
PROPERTIES DueJobsAreServed StopDrainsUnlessOrphaned ImplementsJobCycles
\* the process stops for good after a shutdown
CHECK_DEADLOCK FALSE
