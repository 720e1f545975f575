\* Three threads that wait on, set and reset one auto-reset event as they like.
SPECIFICATION FairSpec
CONSTANTS
    Threads = {t1, t2, t3}
    NoOne = NoOne
    ManualReset = FALSE
INVARIANT NoneAsleep
PROPERTY Implements
PROPERTY Returns
