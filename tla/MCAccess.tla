----------------------------- MODULE MCAccess -------------------------------
(* Access on a few people, for TLC: an admin, a coach and a fan of one school, *)
(* a team lead of none who leads a group of that school, and a fan of another. *)
EXTENDS Access

CONSTANTS admin, coach, lead, fan, stranger, s1, s2, g1

MCUsers  == {admin, coach, lead, fan, stranger}
MCRole   == [u \in MCUsers |-> CASE u = admin -> "school_admin" [] u = coach -> "coach"
                                 [] u = lead -> "creator" [] OTHER -> "fan"]
MCSchool == [u \in MCUsers |-> CASE u = lead -> NoSchool [] u = stranger -> s2 [] OTHER -> s1]
MCNumber == [u \in MCUsers |-> CASE u = admin -> 1 [] u = coach -> 2
                                 [] u = lead -> 3 [] u = fan -> 4 [] OTHER -> 5]
MCGroupSchool == [g \in {g1} |-> s1]
MCGroupLeads  == [g \in {g1} |-> {lead, coach}]
MCCohortLeads == {coach, lead}
MCFans        == {fan, stranger}
=============================================================================
