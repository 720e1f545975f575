\* One fax, announced up to two times, and one failing call; no crash, which
\* ends every download.
SPECIFICATION FairSpec
CONSTANTS
    Faxes = {f1}
    Missing = Missing
    Keys <- MCKeys
    Blocks = 1
    MaxRec = 2
    MaxFail = 1
    MaxCrash = 0
PROPERTY DownloadEnds
CHECK_DEADLOCK FALSE
