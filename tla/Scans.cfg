\* The limiter, with windows of a second, ticks of half a second and both limits in
\* reach; then a token of every kind and its altered copies.
SPECIFICATION AllSpec
CONSTANTS
    a1 = a1
    ip1 = ip1
    th1 = th1
    th2 = th2
    ann = ann
    bob = bob
    NoAttendee = NoAttendee
    n1 = n1
    w1 = w1
    w2 = w2
    NoWorker = NoWorker
    Nonces = {n1}
    Tables <- TheTables
    Events = {1, 2}
    Holders = {ann, bob}
    Workers = {w1, w2}
    Orders <- TheOrders
    Ttl = 1
    MaxFailures = 1
    SnapshotReads = TRUE
    Attendees <- TheAttendees
    Addresses <- TheAddresses
    NoAddress = NoAddress
    Threads <- TheThreads
    NoThread = NoThread
    Resolution = 2
    AttendeeWindow = 1
    AttendeeMax = 2
    AddressWindow = 1
    AddressMax = 1
    Horizon = 5
VIEW WithoutReply
SYMMETRY Symmetry
INVARIANTS
    AllTypeOK
    StalledGrantsBounded
PROPERTIES
    OrderlyAnswerIsExact
    ExpiryIsAsAnnounced
    AnswersAreGenuine
    SpentForGood
