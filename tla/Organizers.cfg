\* Invitations, events and venues on small sets, one after the other.
SPECIFICATION AllFairSpec
CONSTANTS
    i1 = i1
    i2 = i2
    Invitees <- TheInvitees
    Batches <- TheBatches
    Workers = {w1, w2}
    NoWorker = NoWorker
    Isolations = {"repeatable_read", "read_committed"}
    t1 = t1
    t2 = t2
    k1 = k1
    Tenants = {t1, t2}
    Keys = {k1}
    NoKey = NoKey
    NoTime = NoTime
    Drafts <- TheDrafts
    Patches <- ThePatches
    MaxEvents = 1
    Circumference = 40000
    NoCoord = NoCoord
    Omitted = Omitted
    Payloads <- ThePayloads
    Submissions <- TheSubmissions
    RawCaps <- TheRawCaps
    NoVenue = NoVenue
INVARIANTS
    AllTypeOK
    RadiusWithinACap
PROPERTIES
    AnswersAreTrue
    ImplementsGuestList
    BatchesAnswered
    KeyNamesOneEvent
    ReopenedOnlyOnRequest
    UnracedPatchKeepsWindow
    VerdictIsNearness
