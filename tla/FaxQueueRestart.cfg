\* An empty data directory; two announcements in the life of a process, which
\* is killed once, at any point, and leaves its files to the next one.  Two
\* faxes in the list make the counter wrap.
SPECIFICATION Spec
CONSTANTS
    Faxes = {f1, f2}
    OnDisk = {}
    Clients = {c1, c2}
    NoOne = NoOne
    Mod = 2
    MaxJob = 2
    MaxCrash = 1
SYMMETRY Symmetry
INVARIANT TypeOK
INVARIANT NoFaxStranded
INVARIANT HandedOverOnce
INVARIANT FilesThere
INVARIANT CountIsLength
PROPERTY ImplementsInbox
