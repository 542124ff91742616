\* MySQL's default isolation, with one key and the empty key.
SPECIFICATION Spec
CONSTANTS
    Users = {u1, u2, u3}
    Eligible = {u1, u2, u3}
    Workers = {w1, w2}
    Keys = {k1, blank}
    BlankKey = blank
    NoKey = NoKey
    NoUser = NoUser
    NoWorker = NoWorker
    Unlimited = Unlimited
    Capacity = 1
    CapacityEdits = {}
    StatusEdits = {}
    SnapshotReads = TRUE
VIEW WithoutReply
SYMMETRY Symmetry
INVARIANTS
    OverbookingBounded
PROPERTIES
    AnswersWithItsRow
    UndisturbedRequestRespectsCapacity
    CancelledForGood
