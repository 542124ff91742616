------------------------------- MODULE Access -------------------------------
(***************************************************************************)
(* Who may author, find, manage and join an event: the gates of            *)
(* src/auth.py, and the queries by which the routers of events,            *)
(* invitations, registrations and eligible groups look events and groups   *)
(* up.  Each of them resolves the tenant of its caller in its own way.     *)
(*                                                                         *)
(* Requests are atomic here, and the events are published; what            *)
(* overlapping requests do is the matter of the other modules.  The        *)
(* rosters and cohorts belong to another service, and change under this    *)
(* one.                                                                    *)
(***************************************************************************)
EXTENDS Naturals, FiniteSets, Sequences

CONSTANTS
    Users,
    Role,          \* of each user: the class of role in its token
    School,        \* of each user: the school_id in its token, or NoSchool
    Number,        \* of each user: the digits of its user_id, or NoDigits
    NoDigits,
    Schools, NoSchool,
    Groups,        \* the school_admin_groups
    GroupSchool,   \* of each: its school
    GroupLeads,    \* of each: its team lead and its creator
    Fans,          \* the users that may be on a roster, in a cohort or invited
    CohortLeads,   \* the team leads that have a cohort of their own
    MaxEvents      \* bound: how many events are created

Roles == {"platform_admin", "school_admin", "coach", "creator", "fan"}

ADMIN_BYPASS_ROLES  == {"platform_admin", "school_admin"}
EVENT_CREATOR_ROLES == ADMIN_BYPASS_ROLES \cup {"coach", "creator"}
SCHOOL_BOUND_ROLES  == {"school_admin", "coach"}

Visibilities == {"public", "school_only", "unlisted", "invite_only", "group_only"}

AccessAssumption ==
    /\ NoSchool \notin Schools /\ Fans \subseteq Users /\ CohortLeads \subseteq Users
    /\ Role \in [Users -> Roles] /\ School \in [Users -> Schools \cup {NoSchool}]
    /\ NoDigits \notin Nat /\ Number \in [Users -> Nat \cup {NoDigits}]
    /\ GroupSchool \in [Groups -> Schools] /\ GroupLeads \in [Groups -> SUBSET Users]
    /\ MaxEvents \in Nat

VARIABLES
    events,    \* the events: [tenant, owner, visibility, kind, group]
    invited,   \* of each event: the users with an invitation that is not accepted
    accepted,  \* of each event: those who accepted theirs
    joined,    \* of each event: those who registered
    active,    \* the groups with is_active
    roster,    \* of each group: its active members
    cohort     \* the pairs (team lead, member) with consent_status accepted

vars == <<events, invited, accepted, joined, active, roster, cohort>>

-----------------------------------------------------------------------------
(* Callers and tenants *)

IsAdmin(a) == Role[a] \in ADMIN_BYPASS_ROLES

\* The personal namespace user:<id>.
Personal(a) == <<"user", a>>

Tenants == Schools \cup {Personal(u) : u \in Users}

resolve_event_tenant(a) == IF School[a] # NoSchool THEN School[a] ELSE Personal(a)

\* The invitations router looks under both tenants of its caller.
OneTenant(a) == {resolve_event_tenant(a)}
CandidateTenants(a) == {Personal(a)} \cup (IF School[a] # NoSchool THEN {School[a]} ELSE {})

\* The owner, or an admin of the event's school (assert_event_owner_or_admin).
OwnerOrAdmin(a, e) ==
    \/ e.owner = a
    \/ IsAdmin(a) /\ School[a] # NoSchool /\ School[a] = e.tenant

MayPatch(a, e)  == resolve_event_tenant(a) = e.tenant /\ OwnerOrAdmin(a, e)
MayInvite(a, e) == e.tenant \in CandidateTenants(a) /\ OwnerOrAdmin(a, e)

-----------------------------------------------------------------------------
(* Groups *)

NoGroup == [kind |-> "none", group |-> 0]

\* The id that GET /me/eligible-groups gives to the cohort of a team lead.
CohortId(a) == IF Number[a] = NoDigits THEN 0 ELSE Number[a]

\* The groups that a request may name, by kind and id.
Bindings == [kind : {"school_admin_group"}, group : Groups]
              \cup [kind : {"team_lead_cohort"}, group : {CohortId(u) : u \in Users}]

\* assert_group_event_eligible
MayBind(a, b) ==
    \/ /\ b.kind = "school_admin_group"
       /\ b.group \in active
       /\ a \in GroupLeads[b.group] \/ (IsAdmin(a) /\ School[a] = GroupSchool[b.group])
    \/ /\ b.kind = "team_lead_cohort"
       /\ Number[a] # NoDigits /\ b.group = Number[a]

TenantOfBinding(a, b) ==
    IF b.kind = "school_admin_group" THEN GroupSchool[b.group] ELSE Personal(a)

\* GET /me/eligible-groups: the groups that the caller is offered.
ListedInactiveToo(a) ==
    {g \in Groups : IF IsAdmin(a) /\ School[a] # NoSchool THEN GroupSchool[g] = School[a]
                                                          ELSE a \in GroupLeads[g]}
ListedGroups(a) ==
    {g \in active : IF IsAdmin(a) /\ School[a] # NoSchool THEN GroupSchool[g] = School[a]
                                                          ELSE a \in GroupLeads[g]}

ListedBindings(a) ==
    [kind : {"school_admin_group"}, group : ListedGroups(a)]
      \cup (IF \E u \in Fans : <<a, u>> \in cohort
            THEN {[kind |-> "team_lead_cohort", group |-> CohortId(a)]} ELSE {})

-----------------------------------------------------------------------------
(* Finding and joining *)

AnySchoolOnly(a, e) == e.visibility \in {"public", "school_only"}

\* GET /events/discover
Discovers(a, e) ==
    \/ e.visibility = "public"
    \/ e.visibility = "school_only" /\ School[a] # NoSchool /\ School[a] = e.tenant

\* The SELECT of the event by POST /register: an admin's is bound to its school.
Reaches(a, e) == IsAdmin(a) /\ School[a] # NoSchool => School[a] = e.tenant

\* The query of the cohort names the member, and not the team lead.
IsMember(u, e) ==
    \/ e.kind = "school_admin_group" /\ u \in roster[e.group]
    \/ e.kind = "team_lead_cohort" /\ \E lead \in Users : <<lead, u>> \in cohort

\* The visibility gates of POST /register, for caller a and attendee u.
Admits(a, u, i) ==
    LET e == events[i]
    IN  \/ e.owner = a \/ IsAdmin(a)
        \/ e.visibility \in {"public", "unlisted"}
        \/ e.visibility = "school_only" /\ School[a] # NoSchool /\ School[a] = e.tenant
        \/ e.visibility = "invite_only" /\ u \in accepted[i]
        \/ e.visibility = "group_only" /\ IsMember(u, e)

MayRegister(a, u, i) ==
    /\ a = u \/ IsAdmin(a)
    /\ Reaches(a, events[i])
    /\ Admits(a, u, i)

-----------------------------------------------------------------------------
(* Requests *)

\* POST /events/
AddEvent(a, tenant, visibility, b) ==
    /\ Len(events) < MaxEvents
    /\ events' = Append(events, [tenant |-> tenant, owner |-> a, visibility |-> visibility,
                                 kind |-> b.kind, group |-> b.group])
    /\ invited'  = Append(invited, {})
    /\ accepted' = Append(accepted, {})
    /\ joined'   = Append(joined, {})
    /\ UNCHANGED <<active, roster, cohort>>

CreateEvent(a, visibility) ==
    /\ Role[a] \in EVENT_CREATOR_ROLES
    /\ visibility = "school_only" => School[a] # NoSchool /\ Role[a] \in SCHOOL_BOUND_ROLES
    /\ AddEvent(a, resolve_event_tenant(a), visibility, NoGroup)

CreateGroupEvent(a, b) ==
    /\ Role[a] \in EVENT_CREATOR_ROLES
    /\ MayBind(a, b)
    /\ AddEvent(a, TenantOfBinding(a, b), "group_only", b)

\* PATCH /events/{id}: the visibility changes, whatever it was bound to.
PatchVisibility(a, i, visibility) ==
    /\ MayPatch(a, events[i])
    /\ events' = [events EXCEPT ![i].visibility = visibility]
    /\ UNCHANGED <<invited, accepted, joined, active, roster, cohort>>

\* POST /events/{id}/invitations
Invite(a, i, u) ==
    /\ MayInvite(a, events[i])
    /\ u \notin accepted[i]
    /\ invited' = [invited EXCEPT ![i] = @ \cup {u}]
    /\ UNCHANGED <<events, accepted, joined, active, roster, cohort>>

\* POST /events/{id}/invitations/{id}/respond, which may be answered again.
Accept(i, u) ==
    /\ u \in invited[i]
    /\ invited'  = [invited EXCEPT ![i] = @ \ {u}]
    /\ accepted' = [accepted EXCEPT ![i] = @ \cup {u}]
    /\ UNCHANGED <<events, joined, active, roster, cohort>>

Decline(i, u) ==
    /\ u \in accepted[i]
    /\ invited'  = [invited EXCEPT ![i] = @ \cup {u}]
    /\ accepted' = [accepted EXCEPT ![i] = @ \ {u}]
    /\ UNCHANGED <<events, joined, active, roster, cohort>>

\* POST /events/{id}/register
Register(a, u, i) ==
    /\ MayRegister(a, u, i)
    /\ joined' = [joined EXCEPT ![i] = @ \cup {u}]
    /\ UNCHANGED <<events, invited, accepted, active, roster, cohort>>

-----------------------------------------------------------------------------
(* The service that keeps groups and cohorts *)

ToggleGroup(g) ==
    /\ active' = IF g \in active THEN active \ {g} ELSE active \cup {g}
    /\ UNCHANGED <<events, invited, accepted, joined, roster, cohort>>

ToggleMember(g, u) ==
    /\ roster' = [roster EXCEPT ![g] = IF u \in @ THEN @ \ {u} ELSE @ \cup {u}]
    /\ UNCHANGED <<events, invited, accepted, joined, active, cohort>>

ToggleConsent(lead, u) ==
    /\ cohort' = IF <<lead, u>> \in cohort THEN cohort \ {<<lead, u>>}
                                           ELSE cohort \cup {<<lead, u>>}
    /\ UNCHANGED <<events, invited, accepted, joined, active, roster>>

Init ==
    /\ events = <<>> /\ invited = <<>> /\ accepted = <<>> /\ joined = <<>>
    /\ active = Groups
    /\ roster = [g \in Groups |-> {}]
    /\ cohort = {}

Ids == DOMAIN events

Next ==
    \/ \E a \in Users :
         \/ \E v \in Visibilities \ {"group_only"} : CreateEvent(a, v)
         \/ \E b \in Bindings : CreateGroupEvent(a, b)
         \/ \E i \in Ids, v \in Visibilities : PatchVisibility(a, i, v)
         \/ \E i \in Ids, u \in Fans : Invite(a, i, u)
         \/ \E i \in Ids, u \in Fans : Register(a, u, i)
    \/ \E i \in Ids, u \in Fans : Accept(i, u) \/ Decline(i, u)
    \/ \E g \in Groups : ToggleGroup(g)
    \/ \E g \in Groups, u \in Fans : ToggleMember(g, u)
    \/ \E lead \in CohortLeads, u \in Fans : ToggleConsent(lead, u)

Spec == Init /\ [][Next]_vars

-----------------------------------------------------------------------------
(* Correctness *)

\* Every variable has its type.
TypeOK ==
    /\ events \in Seq([tenant : Tenants, owner : Users, visibility : Visibilities,
                       kind   : {"none", "school_admin_group", "team_lead_cohort"},
                       group  : {0} \cup Groups \cup {CohortId(u) : u \in Users}])
    /\ invited \in [Ids -> SUBSET Fans] /\ accepted \in [Ids -> SUBSET Fans]
    /\ joined \in [Ids -> SUBSET Fans]
    /\ active \subseteq Groups /\ roster \in [Groups -> SUBSET Fans]
    /\ cohort \subseteq CohortLeads \X Fans

\* The picker offers, in vain, the cohort of a lead whose user_id has no digits, as
\* number 0 (eligible_groups.py 117, auth.py 471).
OfferedInVain(a, b) == b.kind = "team_lead_cohort" /\ Number[a] = NoDigits

\* What the picker offers to a user with an authoring role, POST /events accepts from
\* it, whatever is deactivated and whoever leaves, as the picker's docstring says; but
\* for what it offers in vain, which is always refused (eligible_groups.py 4-12 and
\* 42-117, auth.py 421-478).
ListedGroupsAreAuthorable ==
    \A a \in Users :
        Role[a] \in EVENT_CREATOR_ROLES =>
            \A b \in ListedBindings(a) : MayBind(a, b) <=> ~ OfferedInVain(a, b)

\* Whoever finds an event in the feed may register for it, unless it is an admin,
\* whom POST /register binds to its own school; whatever a PATCH has made of the
\* event since it was created (events.py 250-268, registrations.py 124-154).
DiscoveredIsJoinable ==
    \A a \in Users, i \in Ids : ~ IsAdmin(a) /\ Discovers(a, events[i]) => MayRegister(a, a, i)

\* An author can send invitations for its own event, whichever of its two tenants the
\* event is under; but not for one of a group in a school that it is not in
\* (event_invitations.py 70-99, auth.py 463).
AuthorCanInvite ==
    \A i \in Ids :
        \/ MayInvite(events[i].owner, events[i])
        \/ events[i].kind = "school_admin_group" /\ events[i].tenant # School[events[i].owner]

\* Who registers itself for a group's event, being neither its owner nor an admin, is
\* a member of the group that the event is bound to (registrations.py 175-177).
GroupEventsAreForTheGroup ==
    [][\A i \in Ids, u \in Fans :
         LET e == events[i]
         IN  /\ u \in joined'[i] \ joined[i] /\ e.visibility = "group_only"
             => \/ e.kind = "school_admin_group" /\ u \in roster[e.group]
                \/ e.kind = "team_lead_cohort" /\ \E lead \in Users :
                     Number[lead] = e.group /\ <<lead, u>> \in cohort
                \/ \E a \in Users : IsAdmin(a) /\ Reaches(a, e)
                \/ u = e.owner]_vars

=============================================================================
