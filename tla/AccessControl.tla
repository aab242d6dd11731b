--------------------------- MODULE AccessControl ---------------------------
(***************************************************************************)
(* The identity schema: which Auth0 subject is which user, the groups a    *)
(* user is in, and the privileges that follow.  The BFF writes it (a login *)
(* and an administrator's assignment), scripts/seed.ts too, and the API    *)
(* gateway reads it on every request.  An assignment is a check and two    *)
(* statements outside any transaction; one that fails leaves what its      *)
(* statements have written, the last one perhaps included.                 *)
(***************************************************************************)
EXTENDS Tables

CONSTANTS
    Subjects,     \* Auth0 subjects
    UserIds,      \* the UUIDs inserts of users draw
    Codes,        \* group codes that assignments name, existing or not
    UpperCode,    \* groupCode.toUpperCase(), a function on Codes
    Seeds,        \* runs of the seed script
    Assignments   \* those, and requests to POST /admin/group-memberships

ASSUME UpperCodeAssumption == UpperCode \in [Codes -> Codes]

VARIABLES
    people,        \* identity.users: auth0_sub -> id
    memberships,   \* identity.user_group
    assignments    \* assignment -> what it is for and how far it is

accessVars == <<people, memberships, assignments>>

\* identity.group_privileges as 001_init.sql fills it.
GroupPrivileges ==
    [ADMIN   |-> {"READ", "MODIFY", "DELETE", "ORDER_CREATE"},
     MANAGER |-> {"READ", "MODIFY", "ORDER_CREATE"},
     USER    |-> {"READ", "ORDER_CREATE"}]

Groups == DOMAIN GroupPrivileges

AccessInit ==
    /\ people = EmptyTable
    /\ memberships = {}
    /\ assignments = EmptyTable

\* getUserAuthorizations: the join from the subject to its privileges.
GroupsOf(sub) == {g \in Groups : sub \in DOMAIN people /\ <<people[sub], g>> \in memberships}
PrivilegesOf(sub) == UNION {GroupPrivileges[g] : g \in GroupsOf(sub)}

\* INSERT ... ON CONFLICT (auth0_sub) DO UPDATE: a subject keeps its id.
UpsertUser(sub) ==
    IF sub \in DOMAIN people
    THEN UNCHANGED people
    ELSE \E id \in UserIds \ {people[s] : s \in DOMAIN people} :
            people' = Put(people, sub, id)

\* A login: createUserSession (callbackController) upserts its user.
Login(sub) ==
    /\ UpsertUser(sub)
    /\ UNCHANGED <<memberships, assignments>>

\* assignGroupMembershipController asks for MODIFY; the seed script for nothing,
\* and it alone puts the code in upper case.
StartAssignment(a) ==
    /\ a \notin DOMAIN assignments
    /\ a \in Seeds \/ \E by \in Subjects : "MODIFY" \in PrivilegesOf(by)
    /\ \E sub \in Subjects, code \in Codes :
          assignments' = Put(assignments, a,
              [sub |-> sub, at |-> "started",
               code |-> IF a \in Seeds THEN UpperCode[code] ELSE code])
    /\ UNCHANGED <<people, memberships>>

Assigning(a, place) == a \in DOMAIN assignments /\ assignments[a].at = place

AssignGoes(a, place) == assignments' = [assignments EXCEPT ![a].at = place]

\* The first statement of upsertUserGroupMembership.  It may take effect and its
\* answer be lost, or the process stop before the second: the assignment fails.
AssignUpsert(a) ==
    /\ Assigning(a, "started")
    /\ UpsertUser(assignments[a].sub)
    /\ \E place \in {"upserted", "failed"} : AssignGoes(a, place)
    /\ UNCHANGED memberships

\* mutant: the second statement is not awaited, and fails after the answer
AssignUnawaited(a) ==
    /\ Assigning(a, "upserted")
    /\ AssignGoes(a, "done")
    /\ UNCHANGED <<people, memberships>>

\* The second: INSERT ... SELECT, which finds no group for an unknown code and
\* is answered all the same.  Here too the answer may be lost, and the assignment
\* fail with the row inserted.
AssignGroup(a) ==
    /\ Assigning(a, "upserted")
    /\ memberships' = memberships \cup
          {<<people[assignments[a].sub], g>> : g \in Groups \cap {assignments[a].code}}
    /\ \E place \in {"done", "failed"} : AssignGoes(a, place)
    /\ UNCHANGED people

\* A statement fails without effect, or the process stops before it.  Who tries
\* again makes another assignment.
AssignFails(a) ==
    /\ Assigning(a, "started") \/ Assigning(a, "upserted")
    /\ AssignGoes(a, "failed")
    /\ UNCHANGED <<people, memberships>>

AccessStep ==
    \/ \E sub \in Subjects : Login(sub)
    \/ \E a \in Assignments : StartAssignment(a) \/ AssignUpsert(a) \/ AssignGroup(a)
                               \/ AssignFails(a)

=============================================================================
