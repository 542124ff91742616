\* The desk and the door over one event, under MySQL's default isolation.
SPECIFICATION Spec
CONSTANTS
    Users = {u1, u2, u3}
    Eligible = {u1, u2, u3}
    NoUser = NoUser
    NoWorker = NoWorker
    SnapshotReads = TRUE
    DeskWorkers = {d1}
    Keys = {}
    BlankKey = blank
    NoKey = NoKey
    Unlimited = Unlimited
    Capacity = 1
    CapacityEdits = {2}
    StatusEdits = {"completed"}
    DoorWorkers = {c1}
    Tokens = {}
    SingleUse = {}
    Holder <- NoHolders
    NoToken = NoToken
    EventMethod = "none"
    DeclaredMethods = {NoMethod, "manual"}
    NoMethod = NoMethod
    AllowNfc = FALSE
    MaxFailures = 1
VIEW WithoutReplies
SYMMETRY Symmetry
INVARIANT AttendanceIsBacked
PROPERTY CancelledReturnsOnlyAsAttended
