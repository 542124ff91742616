\* Gates, journeys and retention, one after the other; the days of retention end.
SPECIFICATION EachSpec
CONSTANTS
    admin = admin
    coach = coach
    lead = lead
    fan = fan
    stranger = stranger
    s1 = s1
    s2 = s2
    g1 = g1
    west = west
    hall = hall
    east = east
    Users <- TheUsers
    Role <- TheRole
    School <- TheSchool
    Number <- TheNumber
    NoDigits = NoDigits
    Schools = {s1, s2}
    NoSchool = NoSchool
    Groups = {g1}
    GroupSchool <- TheGroupSchool
    GroupLeads <- TheGroupLeads
    Fans = {fan, stranger}
    CohortLeads = {coach, lead}
    MaxEvents = 1
    Circumference = 60
    NoCoord = NoCoord
    Omitted = Omitted
    NoEvent = NoEvent
    NoWorker = NoWorker
    MaxSpeed = 1
    TicksPerSecond = 2
    SnapshotReads = TRUE
    JourneyEvents <- ThreeEvents
    JourneyVenues <- ThreeVenues
    JourneyWindow = 6
    JourneyHorizon = 4
    DetourWorkers = {d1}
    DetourEvents <- TwoEvents
    DetourVenues <- TwoVenues
    DetourEdits <- Elsewhere
    DetourWindow = 3
    DetourHorizon = 4
    Workers = {w1, w2}
    Malformed = Malformed
    Settings <- SomeSettings
    DefaultDays = 2
    Period = 2
    MaxCheckins = 3
    MaxDeaths = 2
    Horizon = 10
    GapLocks = TRUE
VIEW WithoutReply
SYMMETRY Symmetry
CHECK_DEADLOCK FALSE
INVARIANTS
    EachTypeOK
    ListedGroupsAreAuthorable
    DiscoveredIsJoinable
    AuthorCanInvite
    JourneyIsPlausible
    HashesDoNotOutstay
PROPERTIES
    TravellersAreNotRefused
    AttendanceIsKept
