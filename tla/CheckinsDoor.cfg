\* Two threads at the door, MySQL's default isolation, and a request that dies.
SPECIFICATION Spec
CONSTANTS
    u1 = u1
    anyone = anyone
    bound = bound
    Users = {u1, u2, u3}
    Workers = {w1, w2}
    Tokens <- MCTokens
    SingleUse <- MCSingleUse
    Holder <- MCHolder
    NoUser = NoUser
    NoWorker = NoWorker
    NoToken = NoToken
    EventMethod = "qr_geo"
    DeclaredMethods = {NoMethod, "nfc"}
    NoMethod = NoMethod
    AllowNfc = FALSE
    RsvpStatuses = {"absent", "waitlisted", "cancelled"}
    MaxFailures = 1
    SnapshotReads = TRUE
VIEW WithoutReply
SYMMETRY Symmetry
INVARIANTS
    TypeOK
    StrandedByFailures
    SharingBounded
PROPERTIES
    ImplementsTurnstile
