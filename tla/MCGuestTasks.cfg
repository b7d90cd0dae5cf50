CONSTANTS
    Missing = Missing
SPECIFICATION FairSpec
\* Both tasks finish and take no further step: the end state is not a deadlock.
CHECK_DEADLOCK FALSE
INVARIANT EjectedWhenComplete
INVARIANT PrepareOnlyWithoutGuests
PROPERTY EjectTermination
PROPERTY UnconvertTermination
