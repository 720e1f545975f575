\* One fax on disk, another one to come, one announcement, and two clients that
\* keep asking.
SPECIFICATION FairSpec
CONSTANTS
    Faxes = {f1, f2}
    OnDisk = {f1}
    Clients = {c1, c2}
    NoOne = NoOne
    Mod = 4
    MaxJob = 1
    MaxCrash = 0
 
PROPERTY EventuallyTaken
PROPERTY AnsweredAtLast
