------------------------------ MODULE Accounts ------------------------------
(***************************************************************************)
(* Accounts, roles and what the audit trail keeps of them                  *)
(* (backend/apps/accounts, with the chain of backend/apps/audit).  Reads   *)
(* and commits of a request are separate steps; the trail is only appended *)
(* to, but deleting a user clears the actor of the entries they caused.    *)
(* ICT also works in the Django admin, whose forms write the assignments   *)
(* and the groups themselves, past the role service.                       *)
(***************************************************************************)
EXTENDS Integers, FiniteSets, Sequences

CONSTANTS
    Users, Root,    \* accounts, one of them the superuser
    Codes,          \* the role codes this instance uses
    MaxTrail,       \* bound on the audit entries
    AccCalls,
    NoUser

ASSUME AccountsAssumption ==
    Root \in Users /\ NoUser \notin Users /\ MaxTrail \in Nat /\ IsFiniteSet(Codes)

VARIABLES
    accounts,       \* the users that exist
    assigned,       \* active UserRole rows (constraint unique_active_user_role)
    groups,         \* membership of Django groups, which carries the permissions
    trail,          \* AuditLog
    accCall,        \* per request: how far it is
    accRaced,       \* history: users an overtaken request wrote to
    byHand,         \* history: users whose roles or groups the admin's forms changed
    missed          \* history: role changes whose audit entry could not be written

accVars == <<accounts, assigned, groups, trail, accCall, accRaced, byHand, missed>>

\* GRADE_WRITE_PERMISSIONS and MONEY_WRITE_PERMISSIONS are two areas of their own;
\* the other write permissions count by application.
GradeWrite == "grade_write"
MoneyWrite == "money_write"

\* The blocks of permissions several roles share; the *_READ blocks write nothing.
ManagedAreas == {"registry", "curriculum", "academics", "admissions"}

\* ROLES: the areas a role may write to.  Applicants and students write what is
\* theirs, which the querysets see to.
SelfServicePolicy(role) ==
    CASE role = "applicant" -> {"admissions"}
      [] role = "student" -> {"enrollment", "appeals", "refund_request"}
      [] OTHER -> {}

TeachingPolicy(role) ==
    CASE role = "lecturer" -> {GradeWrite, "attendance"}
      [] role = "hod" -> {"curriculum", GradeWrite, "appeals", "hr", "communications"}
      [] OTHER -> {}

RecordsPolicy(role) ==
    CASE role = "registrar" -> ManagedAreas \cup
                {"enrollment", "documents", "communications", "alumni", "timetabling"}
      [] role = "finance" -> {MoneyWrite}
      [] role = "examinations" -> {"academics", GradeWrite, "appeals", "timetabling", "attendance"}
      [] role = "senate" -> {GradeWrite}
      [] OTHER -> {}

\* Management writes nothing.
ServicesPolicy(role) ==
    CASE role = "hr" -> {"staff", "hr"}
      [] role = "library" -> {"library"}
      [] role = "hostel" -> {"hostel"}
      [] role = "ict_admin" -> {"accounts", "sync", "reporting"}
      [] OTHER -> {}

\* seed_roles: the group of a role carries what the policy lists.
GroupPermissions(role) ==
    SelfServicePolicy(role) \cup TeachingPolicy(role) \cup RecordsPolicy(role) \cup
    ServicesPolicy(role)

\* effective_permissions, HasModulePermission: through the groups, not the roles.
Areas(u) == UNION {GroupPermissions(role) : role \in groups[u]}
MayAdminister(u) == u \in accounts /\ (u = Root \/ "accounts" \in Areas(u))

AccIdle == [do |-> "none", by |-> NoUser, on |-> NoUser, role |-> {}, stale |-> FALSE]

AccInit ==
    /\ accounts = Users
    /\ assigned = [u \in Users |-> {}] /\ groups = [u \in Users |-> {}]
    /\ trail = << >>
    /\ accCall = [c \in AccCalls |-> AccIdle]
    /\ accRaced = {} /\ byHand = {} /\ missed = {}

----------------------------------------------------------------------------
\* _write: the entry, and the row hash that seals it, actor_id included.  An entry
\* about a user is not sensitive: _safe_write swallows its failure.
Write(what, call, logged) ==
    /\ Len(trail) < MaxTrail
    /\ trail' = IF logged
                THEN Append(trail, [what |-> what, on |-> call.on, role |-> call.role,
                                    actor |-> call.by])
                ELSE trail
    /\ missed' = IF logged THEN missed \ {<<call.on, call.role>>}
                 ELSE missed \cup {<<call.on, call.role>>}

\* What a commit on user u does to the requests under way on u.
Outdated(c, next) ==
    [d \in AccCalls |-> IF d = c THEN next
                        ELSE IF accCall[d].on = accCall[c].on /\ accCall[d].do = "resync"
                             THEN [accCall[d] EXCEPT !.stale = TRUE] ELSE accCall[d]]

\* A revocation that has updated the row holds its lock until it commits.
RowLocked(u, role) ==
    \E d \in AccCalls : accCall[d].do = "revoking" /\ accCall[d].on = u /\ accCall[d].role = role

\* UserViewSet.grant_role and revoke_role: who may, and the existing assignment;
\* without one there is nothing to revoke, with one nothing to grant.
CheckRole(c, by, what, u, role) ==
    /\ accCall[c] = AccIdle
    /\ MayAdminister(by) /\ u \in accounts
    /\ what = "grant" <=> role \notin assigned[u]
    /\ accCall' = [accCall EXCEPT ![c] = [do |-> what, by |-> by, on |-> u, role |-> {role},
                                         stale |-> FALSE]]
    /\ UNCHANGED <<accounts, assigned, groups, trail, accRaced, byHand, missed>>

\* grant_role: the row, the group and the entry, in one transaction.  A second
\* active row is refused by the constraint, a vanished user by the foreign keys.
GrantRole(c, logged) ==
    LET call == accCall[c]
    IN  /\ call.do = "grant"
        /\ {call.by, call.on} \subseteq accounts
        /\ call.role \cap assigned[call.on] = {} /\ ~RowLocked(call.on, call.role)
        /\ assigned' = [assigned EXCEPT ![call.on] = @ \cup call.role]
        /\ groups' = [groups EXCEPT ![call.on] = @ \cup call.role]
        /\ Write("grant", call, logged)
        /\ accCall' = Outdated(c, AccIdle)
        /\ UNCHANGED <<accounts, accRaced, byHand>>

\* revoke_role, the UPDATE: it waits for the row lock and hits the active row, or
\* none if the role was revoked since.
UpdateAssignment(c) ==
    LET call == accCall[c]
    IN  /\ call.do = "revoke"
        /\ ~RowLocked(call.on, call.role)
        /\ accCall' = [accCall EXCEPT ![c].do =
                         IF call.role \subseteq assigned[call.on] THEN "revoking" ELSE "too_late"]
        /\ UNCHANGED <<accounts, assigned, groups, trail, accRaced, byHand, missed>>

\* Mutant: the group is kept.
RevokeRoleKeepingGroup(c, logged) ==
    LET call == accCall[c]
    IN  /\ call.do \in {"revoking", "too_late"}
        /\ call.by \in accounts
        /\ assigned' = IF call.do = "revoking" THEN [assigned EXCEPT ![call.on] = @ \ call.role]
                       ELSE assigned
        /\ Write("revoke", call, logged)
        /\ accRaced' = IF call.do = "too_late" THEN accRaced \cup {call.on} ELSE accRaced
        /\ accCall' = Outdated(c, AccIdle)
        /\ UNCHANGED <<accounts, groups, byHand>>

\* ... then, hit or not, the group goes and the entry is written: a revocation that
\* came too late can take away the group of a grant made in between.
RevokeRole(c, logged) ==
    LET call == accCall[c]
    IN  /\ call.do \in {"revoking", "too_late"}
        /\ call.by \in accounts
        /\ assigned' = IF call.do = "revoking" THEN [assigned EXCEPT ![call.on] = @ \ call.role]
                       ELSE assigned
        /\ groups' = [groups EXCEPT ![call.on] = @ \ call.role]
        /\ Write("revoke", call, logged)
        /\ accRaced' = IF call.do = "too_late" THEN accRaced \cup {call.on} ELSE accRaced
        /\ accCall' = Outdated(c, AccIdle)
        /\ UNCHANGED <<accounts, byHand>>

\* resync_groups, the repair tool: it reads the active roles ...
ReadRoles(c, u) ==
    /\ accCall[c] = AccIdle
    /\ u \in accounts
    /\ accCall' = [accCall EXCEPT ![c] = [AccIdle EXCEPT !.do = "resync", !.on = u,
                                                        !.role = assigned[u]]]
    /\ UNCHANGED <<accounts, assigned, groups, trail, accRaced, byHand, missed>>

\* ... and sets the groups to them.
ResyncGroups(c) ==
    LET call == accCall[c]
    IN  /\ call.do = "resync" /\ call.on \in accounts
        /\ groups' = [groups EXCEPT ![call.on] = call.role]
        /\ accRaced' = IF call.stale THEN accRaced \cup {call.on} ELSE accRaced
        /\ accCall' = [accCall EXCEPT ![c] = AccIdle]
        /\ UNCHANGED <<accounts, assigned, trail, byHand, missed>>

\* AuditedModel.delete writes the DELETE entry first, in a transaction of its own.
LogDeletion(c, by, u) ==
    LET call == [AccIdle EXCEPT !.do = "delete", !.by = by, !.on = u]
    IN  /\ accCall[c] = AccIdle
        /\ MayAdminister(by) /\ u \in accounts \ {Root}
        /\ Write("delete", call, TRUE)
        /\ accCall' = [accCall EXCEPT ![c] = call]
        /\ UNCHANGED <<accounts, assigned, groups, accRaced, byHand>>

\* ... then the row goes: CASCADE takes the assignments and the groups, SET_NULL the
\* actor of every entry the user caused.
EraseUser(c) ==
    LET u == accCall[c].on
    IN  /\ accCall[c].do = "delete" /\ u \in accounts
        /\ \A d \in AccCalls : accCall[d].do = "revoking" => accCall[d].on # u
        /\ accounts' = accounts \ {u}
        /\ assigned' = [assigned EXCEPT ![u] = {}]
        /\ groups' = [groups EXCEPT ![u] = {}]
        /\ trail' = [i \in DOMAIN trail |->
                       IF trail[i].actor = u THEN [trail[i] EXCEPT !.actor = NoUser] ELSE trail[i]]
        /\ accCall' = [accCall EXCEPT ![c] = AccIdle]
        /\ UNCHANGED <<accRaced, byHand, missed>>

AccAbandon(c) ==
    /\ accCall[c] # AccIdle
    /\ accCall' = [accCall EXCEPT ![c] = AccIdle]
    /\ UNCHANGED <<accounts, assigned, groups, trail, accRaced, byHand, missed>>

\* UserRoleInline and UserRoleAdmin: an assignment is added, or its revoked_at set or
\* cleared.  No group and no entry goes with it: grant_role is not called.
AdminAssigns(u, role) ==
    /\ u \in accounts /\ ~RowLocked(u, {role})
    /\ assigned' = [assigned EXCEPT ![u] = IF role \in @ THEN @ \ {role} ELSE @ \cup {role}]
    /\ byHand' = byHand \cup {u}
    /\ UNCHANGED <<accounts, groups, trail, accCall, accRaced, missed>>

\* UserAdmin: the groups field, in any combination ("Assign a role below rather than
\* editing groups").
AdminGroups(u, chosen) ==
    /\ u \in accounts
    /\ groups' = [groups EXCEPT ![u] = chosen]
    /\ byHand' = byHand \cup {u}
    /\ UNCHANGED <<accounts, assigned, trail, accCall, accRaced, missed>>

AccNext ==
    \/ \E u \in Users : \/ \E role \in Codes : AdminAssigns(u, role)
                       \/ \E chosen \in SUBSET Codes : AdminGroups(u, chosen)
    \/ \E c \in AccCalls :
          \/ \E by, u \in Users, role \in Codes, what \in {"grant", "revoke"} :
                CheckRole(c, by, what, u, role)
          \/ \E logged \in BOOLEAN : GrantRole(c, logged) \/ RevokeRole(c, logged)
          \/ \E u \in Users : ReadRoles(c, u) \/ \E by \in Users : LogDeletion(c, by, u)
          \/ UpdateAssignment(c) \/ ResyncGroups(c) \/ EraseUser(c) \/ AccAbandon(c)

AccSpec == AccInit /\ [][AccNext]_accVars

----------------------------------------------------------------------------
\* The type invariant.
AccTypeOK ==
    /\ accounts \subseteq Users
    /\ assigned \in [Users -> SUBSET Codes] /\ groups \in [Users -> SUBSET Codes]
    /\ \A i \in DOMAIN trail : trail[i].actor \in Users \cup {NoUser}

\* The last entry of a trail about a role of a user grants it.
LastIsGrant(log, u, role) ==
    LET about(i) == log[i].on = u /\ log[i].role = {role}
    IN  \E i \in DOMAIN log : /\ about(i) /\ log[i].what = "grant"
                             /\ \A j \in (i + 1)..Len(log) : ~about(j)

\* "Doing two of the three is a silent authorisation bug" (services.py): as long as
\* roles change through the role service, assignment, group and audit entry agree for
\* every user, and whoever may write both grades and money was granted two roles.
\* Left out are the users an overtaken request wrote to (a revocation that came too
\* late, a repair run during a change), the entries the trail could not store, and the
\* users changed in the admin, whose forms do one of the three alone.
RolesAreAccounted ==
    \A u \in accounts \ (accRaced \cup byHand) :
        /\ groups[u] = assigned[u]
        /\ \A role \in Codes : <<u, {role}>> \notin missed =>
              (role \in assigned[u] <=> LastIsGrant(trail, u, role))
        /\ {GradeWrite, MoneyWrite} \subseteq Areas(u) => Cardinality(assigned[u]) >= 2
=============================================================================
