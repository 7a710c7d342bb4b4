---------------------------- MODULE MCControlPlane ----------------------------
(* Instances for TLC of what carries decisions of administrators and       *)
(* identity events to where they take effect.  The components share no     *)
(* variable, so they are checked side by side: part, chosen in the initial *)
(* state, says which of them moves.                                        *)
EXTENDS UserSuspension, SecuritySync, TokenRevocation, ConfigSync, EventForwarding,
        Invitation, Provisioning

VARIABLE part

controlVars == <<vars, securityVars, revocationVars, configVars, eventVars, inviteVars,
                 provVars>>

ControlInit ==
  /\ part \in {"suspension", "security", "revocation", "config", "events", "invitation",
               "provisioning"}
  /\ Init /\ SecurityInit /\ RevocationInit /\ ConfigInit /\ EventInit /\ InviteInit
  /\ ProvInit
  \* The parts that stand still begin in one of their initial states.
  /\ part = "suspension" \/ status = "PENDING"
  /\ part = "provisioning" \/ realm = "none"

ControlNext ==
  /\ UNCHANGED part
  /\ \/ /\ part = "suspension" /\ Next
        /\ UNCHANGED <<securityVars, revocationVars, configVars, eventVars, inviteVars,
                       provVars>>
     \/ /\ part = "security" /\ SecurityNext
        /\ UNCHANGED <<vars, revocationVars, configVars, eventVars, inviteVars, provVars>>
     \/ /\ part = "revocation" /\ RevocationNext
        /\ UNCHANGED <<vars, securityVars, configVars, eventVars, inviteVars, provVars>>
     \/ /\ part = "config" /\ ConfigNext
        /\ UNCHANGED <<vars, securityVars, revocationVars, eventVars, inviteVars, provVars>>
     \/ /\ part = "events" /\ EventNext
        /\ UNCHANGED <<vars, securityVars, revocationVars, configVars, inviteVars, provVars>>
     \/ /\ part = "invitation" /\ InviteNext
        /\ UNCHANGED <<vars, securityVars, revocationVars, configVars, eventVars, provVars>>
     \/ /\ part = "provisioning" /\ ProvNext
        /\ UNCHANGED <<vars, securityVars, revocationVars, configVars, eventVars,
                       inviteVars>>

\* In the initial state of a part no action that the other parts' fairness is
\* about is enabled, so that each condition binds its own part only.
ControlSpec ==
  /\ ControlInit /\ [][ControlNext]_<<controlVars, part>>
  /\ SecurityFairness /\ ConfigFairness

\* Copies of settings are right when nothing is on its way: Keycloak's, of what the
\* sync worker acknowledged and of all it has read, and ai-core's rows and limits.
SettingsArrive == AckedIsApplied /\ CaughtUp /\ ChangesApplied

\* And they never go back to older settings: Keycloak's not at all, ai-core's rows
\* only for the causes RowsGoBackForCause names.
CopiesKeepOrder == KeycloakFollows /\ RowsGoBackForCause

\* The type invariants of the parts.
TypesOK ==
  /\ TypeOK /\ SecurityTypeOK /\ RevocationTypeOK /\ ConfigTypeOK /\ EventTypeOK
  /\ InviteTypeOK /\ ProvTypeOK
=============================================================================
