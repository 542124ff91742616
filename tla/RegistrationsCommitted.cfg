\* Reads of committed rows, while the organizer closes and reopens the event.
SPECIFICATION FairSpec
CONSTANTS
    Users = {u1, u2, u3, u4}
    Eligible = {u1, u2, u3}
    Workers = {w1, w2}
    Keys = {}
    BlankKey = blank
    NoKey = NoKey
    NoUser = NoUser
    NoWorker = NoWorker
    Unlimited = Unlimited
    Capacity = 1
    CapacityEdits = {}
    StatusEdits = {"published", "cancelled"}
    SnapshotReads = FALSE
INVARIANTS
    TypeOK
    CapacityRespected
PROPERTIES
    ImplementsDesk
    RequestsAnswered
