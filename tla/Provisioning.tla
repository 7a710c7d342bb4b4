------------------------------ MODULE Provisioning ------------------------------
(***************************************************************************)
(* provision_organization.py: the script that gives one tenant its         *)
(* organization in Keycloak, an administrator, the membership and the      *)
(* role, and makes the shared realm first if there is none.  It is run     *)
(* again after failures, with --force or without, and may run twice at the *)
(* same time.  Every step is a remote call; a run that gets an error or    *)
(* that is killed leaves what it has done.                                 *)
(***************************************************************************)
EXTENDS Integers

CONSTANTS
  Script,       \* runs of the script
  MaxOrg        \* bound: organizations made

ASSUME ProvisioningAssumption == MaxOrg \in Nat

NoOrg == 0

VARIABLES
  realm,        \* "none", "bare" (from the template), "configured" (scopes and roles)
  org,          \* the tenant's organization, NoOrg when there is none
  made,         \* organizations made so far
  admin,        \* the user admin-<tenant> exists
  orgMember,    \* the organization the administrator belongs to
  adminRole,    \* the administrator has the role "Admin"
  line,         \* per run: the step it makes next
  force,        \* per run: --force
  mine,         \* per run: its org_id
  result,       \* per run: "running", "success", "skipped", "error"
  aborted,      \* history: a run failed or was killed
  together      \* history: two runs overlapped

keycloakVars == <<realm, org, made, admin, orgMember, adminRole>>
scriptVars   == <<line, force, mine, result, aborted, together>>
provVars     == <<realm, org, made, admin, orgMember, adminRole, line, force, mine, result,
                  aborted, together>>

Provisioned == org # NoOrg /\ admin /\ orgMember = org /\ adminRole

Running == {p \in Script : line[p] # "end"}

ProvInit ==
  /\ realm \in {"none", "configured"} /\ org = NoOrg /\ made = 0
  /\ admin = FALSE /\ orgMember = NoOrg /\ adminRole = FALSE
  /\ line = [p \in Script |-> "end"] /\ force = [p \in Script |-> FALSE]
  /\ mine = [p \in Script |-> NoOrg] /\ result = [p \in Script |-> "running"]
  /\ aborted = FALSE /\ together = FALSE

Launch(p, forced) ==
  /\ line[p] = "end" /\ result[p] = "running"
  /\ line' = [line EXCEPT ![p] = "realm"]
  /\ force' = [force EXCEPT ![p] = forced]
  /\ together' = (together \/ Running # {})
  /\ UNCHANGED <<keycloakVars, mine, result, aborted>>

-----------------------------------------------------------------------------
Onto(p, here, next) == line[p] = here /\ line' = [line EXCEPT ![p] = next]

Exits(p, code) ==
  /\ line' = [line EXCEPT ![p] = "end"]
  /\ result' = [result EXCEPT ![p] = code]
  /\ mine' = [mine EXCEPT ![p] = NoOrg]

RealmExists(p) ==
  /\ realm # "none" /\ Onto(p, "realm", "lookup")
  /\ UNCHANGED <<keycloakVars, force, mine, result, aborted, together>>

RealmMissing(p) ==
  /\ realm = "none" /\ Onto(p, "realm", "template")
  /\ UNCHANGED <<keycloakVars, force, mine, result, aborted, together>>

\* Keycloak refuses a second realm of the name.
CreateRealm(p) ==
  /\ realm = "none" /\ Onto(p, "template", "scopes")
  /\ realm' = "bare"
  /\ UNCHANGED <<org, made, admin, orgMember, adminRole, force, mine, result, aborted, together>>

\* The client scopes and the service account's role: errors are logged and
\* skipped, and a realm that exists is never configured again.
ConfigureRealm(p) ==
  /\ Onto(p, "scopes", "lookup")
  /\ \/ realm' = "configured" /\ UNCHANGED aborted
     \/ aborted' = TRUE /\ UNCHANGED realm
  /\ UNCHANGED <<org, made, admin, orgMember, adminRole, force, mine, result, together>>

\* "Skipping creation": exit code 0.
Skips(p) == Exits(p, "skipped")

OrgExists(p) ==
  /\ line[p] = "lookup" /\ org # NoOrg
  /\ IF force[p] THEN Onto(p, "lookup", "delete") /\ UNCHANGED result /\ mine' = [mine EXCEPT ![p] = org]
     ELSE Skips(p)
  /\ UNCHANGED <<keycloakVars, force, aborted, together>>

OrgMissing(p) ==
  /\ org = NoOrg /\ Onto(p, "lookup", "organization")
  /\ UNCHANGED <<keycloakVars, force, mine, result, aborted, together>>

\* The organization's members stay users.
DeleteOrg(p) ==
  /\ org = mine[p] /\ Onto(p, "delete", "organization")
  /\ org' = NoOrg /\ orgMember' = NoOrg
  /\ mine' = [mine EXCEPT ![p] = NoOrg]
  /\ UNCHANGED <<realm, made, admin, adminRole, force, result, aborted, together>>

CreateOrg(p) ==
  /\ org = NoOrg /\ made < MaxOrg /\ Onto(p, "organization", "user")
  /\ made' = made + 1 /\ org' = made'
  /\ mine' = [mine EXCEPT ![p] = made']
  /\ UNCHANGED <<realm, admin, orgMember, adminRole, force, result, aborted, together>>

CreateAdmin(p) ==
  /\ ~admin /\ Onto(p, "user", "member")
  /\ admin' = TRUE
  /\ UNCHANGED <<realm, org, made, orgMember, adminRole, force, mine, result, aborted, together>>

AddMember(p) ==
  /\ org = mine[p] /\ Onto(p, "member", "role")
  /\ orgMember' = org
  /\ UNCHANGED <<realm, org, made, admin, adminRole, force, mine, result, aborted, together>>

\* A script that reports its success before the last step.
MutAssignRole(p) ==
  /\ line[p] = "role" /\ Exits(p, "success")
  /\ UNCHANGED <<keycloakVars, force, aborted, together>>

AssignRole(p) ==
  /\ line[p] = "role" /\ Exits(p, "success")
  /\ adminRole' = TRUE
  /\ UNCHANGED <<realm, org, made, admin, orgMember, force, aborted, together>>

\* Keycloak refuses the call (409, 404), or it fails, or the run is killed; a
\* call that fails may have had its effect, which is a step and then this one.
RunFails(p) ==
  /\ line[p] # "end" /\ Exits(p, "error")
  /\ aborted' = TRUE
  /\ UNCHANGED <<keycloakVars, force, together>>

-----------------------------------------------------------------------------
ScriptStep(p) ==
  \/ \E forced \in BOOLEAN : Launch(p, forced)
  \/ RealmExists(p) \/ RealmMissing(p) \/ CreateRealm(p) \/ ConfigureRealm(p)
  \/ OrgExists(p) \/ OrgMissing(p) \/ DeleteOrg(p) \/ CreateOrg(p)
  \/ CreateAdmin(p) \/ AddMember(p) \/ AssignRole(p) \/ RunFails(p)

ProvNext == \E p \in Script : ScriptStep(p)

ProvSpec == ProvInit /\ [][ProvNext]_provVars

-----------------------------------------------------------------------------
(* Properties.                                                             *)

ProvTypeOK ==
  /\ realm \in {"none", "bare", "configured"}
  /\ org \in 0..MaxOrg /\ made \in 0..MaxOrg /\ orgMember \in 0..MaxOrg
  /\ admin \in BOOLEAN /\ adminRole \in BOOLEAN
  /\ line \in [Script -> {"end", "realm", "template", "scopes", "lookup", "delete",
                          "organization", "user", "member", "role"}]
  /\ force \in [Script -> BOOLEAN] /\ mine \in [Script -> 0..MaxOrg]
  /\ result \in [Script -> {"running", "success", "skipped", "error"}]
  /\ aborted \in BOOLEAN /\ together \in BOOLEAN
  /\ \A p \in Script : mine[p] # NoOrg <=> line[p] \in {"delete", "user", "member", "role"}

\* As long as runs come one at a time, one that reports success leaves a tenant
\* with everything, and so does one that skips it because the organization
\* exists, if no earlier run was cut short; under the same condition success means
\* that the shared realm has its scopes and roles.
EndsProvisioned ==
  [][\A p \in Script :
       /\ result'[p] = "success" /\ result[p] # "success" /\ ~together
            => Provisioned' /\ (~aborted => realm' = "configured")
       /\ result'[p] = "skipped" /\ result[p] # "skipped" /\ ~together /\ ~aborted
            => Provisioned]_provVars
=============================================================================
