\* A cohort event, and members of another cohort.
SPECIFICATION Spec
CONSTANTS
    admin = admin
    coach = coach
    lead = lead
    fan = fan
    stranger = stranger
    s1 = s1
    s2 = s2
    g1 = g1
    Users <- MCUsers
    Role <- MCRole
    School <- MCSchool
    Number <- MCNumber
    NoDigits = NoDigits
    Schools = {s1, s2}
    NoSchool = NoSchool
    Groups = {g1}
    GroupSchool <- MCGroupSchool
    GroupLeads <- MCGroupLeads
    Fans <- MCFans
    CohortLeads <- MCCohortLeads
    MaxEvents = 1
PROPERTY GroupEventsAreForTheGroup
