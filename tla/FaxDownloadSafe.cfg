\* One fax, announced up to two times in the life of a process; one failing
\* call and one crash at any point.
SPECIFICATION Spec
CONSTANTS
    Faxes = {f1}
    Missing = Missing
    Keys <- MCKeys
    Blocks = 2
    MaxRec = 2
    MaxFail = 1
    MaxCrash = 1
INVARIANT TypeOK
INVARIANT WholeDocument
INVARIANT DescriptionKept
INVARIANT RecordsOwned
PROPERTY ImplementsInbox
CHECK_DEADLOCK FALSE
