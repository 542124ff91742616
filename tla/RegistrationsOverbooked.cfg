\* MySQL's default isolation: two requests count before either inserts.
SPECIFICATION Spec
CONSTANTS
    Users = {u1, u2}
    Eligible = {u1, u2}
    Workers = {w1, w2}
    Keys = {}
    BlankKey = blank
    NoKey = NoKey
    NoUser = NoUser
    NoWorker = NoWorker
    Unlimited = Unlimited
    Capacity = 1
    CapacityEdits = {}
    StatusEdits = {}
    SnapshotReads = TRUE
INVARIANT CapacityRespected
