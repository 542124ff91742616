\* Two attendees present one single-use token at the same time.
SPECIFICATION Spec
CONSTANTS
    u1 = u1
    anyone = anyone
    bound = bound
    Users = {u1, u2}
    Workers = {w1, w2}
    Tokens <- MCTokens
    SingleUse <- MCSingleUse
    Holder <- MCHolder
    NoUser = NoUser
    NoWorker = NoWorker
    NoToken = NoToken
    EventMethod = "qr"
    DeclaredMethods = {NoMethod}
    NoMethod = NoMethod
    AllowNfc = FALSE
    RsvpStatuses = {"registered"}
    MaxFailures = 0
    SnapshotReads = TRUE
PROPERTY UsedTokenAdmitsNobody
