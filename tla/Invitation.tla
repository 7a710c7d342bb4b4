------------------------------- MODULE Invitation -------------------------------
(***************************************************************************)
(* Inviting one e-mail address to a tenant: inviteUser of the user service *)
(* and createUser of its Keycloak client.  The account, its membership of  *)
(* the organization, the row, the invite token and the message are five    *)
(* remote calls; one that fails ends the request, nothing is taken back,   *)
(* and whether the far side had applied it is not known.                   *)
(*                                                                         *)
(* Accounts are not deleted; enabling one is left to Keycloak's console,   *)
(* as no code of the repository redeems an invite token.                   *)
(***************************************************************************)
EXTENDS Integers

CONSTANTS Invite     \* invite requests for the address

VARIABLES
  turn,       \* per request: the call it makes next
  mailUser,   \* Keycloak's account: "none", "disabled", "enabled"
  member,     \* it belongs to the organization
  record,     \* its row: "none", "PENDING", "ACTIVE"
  redeemable, \* invite tokens in Redis, by the request that wrote them
  invited,    \* requests that answered "invited"
  failed      \* history: requests that a failing call ended

inviteVars == <<turn, mailUser, member, record, redeemable, invited, failed>>

InviteInit ==
  /\ turn = [r \in Invite |-> "new"]
  /\ mailUser = "none" /\ member = FALSE /\ record = "none"
  /\ redeemable = {} /\ invited = {} /\ failed = {}

Turn(r, here, next) == turn[r] = here /\ turn' = [turn EXCEPT ![r] = next]

\* A refusal is an answer, not a failure.
Refused(r, here) == Turn(r, here, "done") /\ UNCHANGED failed

\* The call takes effect; the request goes on, or gets an error all the same.
Effective(r, here, next) ==
  \/ Turn(r, here, next) /\ UNCHANGED failed
  \/ Turn(r, here, "done") /\ failed' = failed \union {r}

\* The search for the address; one that fails counts as "not found".  A request
\* is refused when it finds the address, or has no administrator's token.
CheckEmail(r) ==
  /\ \/ Refused(r, "new")
     \/ Turn(r, "new", "account") /\ UNCHANGED failed
  /\ UNCHANGED <<mailUser, member, record, redeemable, invited>>

\* A second request that takes the account for invited, and invites it again.
MutAccountTaken(r) == Turn(r, "account", "token") /\ UNCHANGED failed

\* Keycloak answers 409.
AccountTaken(r) == Refused(r, "account")

CreateAccount(r) ==
  /\ IF mailUser = "none"
     THEN mailUser' = "disabled" /\ Effective(r, "account", "member")
     ELSE AccountTaken(r) /\ UNCHANGED mailUser
  /\ UNCHANGED <<member, record, redeemable, invited>>

LinkMember(r) ==
  /\ Effective(r, "member", "row")
  /\ member' = TRUE
  /\ UNCHANGED <<mailUser, record, redeemable, invited>>

\* The row's id is the account's: when getMe was first, the insert fails.
CreateRow(r) ==
  /\ IF record = "none" THEN record' = "PENDING" /\ Effective(r, "row", "token")
     ELSE Refused(r, "row") /\ UNCHANGED record
  /\ UNCHANGED <<mailUser, member, redeemable, invited>>

WriteToken(r) ==
  /\ Effective(r, "token", "publish")
  /\ redeemable' = redeemable \union {r}
  /\ UNCHANGED <<mailUser, member, record, invited>>

PublishInvite(r) ==
  /\ Turn(r, "publish", "done") /\ UNCHANGED failed
  /\ invited' = invited \union {r}
  /\ UNCHANGED <<mailUser, member, record, redeemable>>

FailsAt(r) == turn' = [turn EXCEPT ![r] = "done"] /\ failed' = failed \union {r}

\* The call fails before it has any effect.
InviteFails(r) ==
  /\ turn[r] \notin {"new", "done"}
  /\ FailsAt(r)
  /\ UNCHANGED <<mailUser, member, record, redeemable, invited>>

-----------------------------------------------------------------------------
ConsoleEnables ==
  /\ mailUser = "disabled" /\ mailUser' = "enabled"
  /\ UNCHANGED <<turn, member, record, redeemable, invited, failed>>

\* getMe of a user who has logged in makes the row active, or makes one.
FirstVisit ==
  /\ mailUser = "enabled"
  /\ record' = "ACTIVE"
  /\ UNCHANGED <<turn, mailUser, member, redeemable, invited, failed>>

TokenExpires(r) ==
  /\ r \in redeemable /\ turn[r] = "done"
  /\ redeemable' = redeemable \ {r}
  /\ UNCHANGED <<turn, mailUser, member, record, invited, failed>>

InviteStep(r) ==
  \/ CheckEmail(r) \/ CreateAccount(r) \/ LinkMember(r) \/ CreateRow(r)
  \/ WriteToken(r) \/ PublishInvite(r) \/ InviteFails(r) \/ TokenExpires(r)

InviteNext == ConsoleEnables \/ FirstVisit \/ \E r \in Invite : InviteStep(r)

InviteSpec == InviteInit /\ [][InviteNext]_inviteVars

-----------------------------------------------------------------------------
(* Properties.                                                             *)

InviteTypeOK ==
  /\ turn \in [Invite -> {"new", "account", "member", "row", "token", "publish", "done"}]
  /\ mailUser \in {"none", "disabled", "enabled"} /\ member \in BOOLEAN
  /\ record \in {"none", "PENDING", "ACTIVE"}
  /\ redeemable \subseteq Invite /\ invited \subseteq Invite /\ failed \subseteq Invite

\* However requests for one address interleave and fail, at most one of them
\* answers "invited": the search does not ensure it, the account's name does.
InvitedOnce == \A r, q \in invited \union redeemable : r = q

\* Who was invited has the account, its membership and its row.
InvitedIsComplete == invited # {} => mailUser # "none" /\ member /\ record # "none"

\* An account with no row is left behind only by a request that failed; every
\* later invitation of the address is then refused.
StrandedOnlyByFailure ==
  (\A r \in Invite : turn[r] \in {"new", "done"}) /\ mailUser # "none" /\ record = "none"
    => failed # {}

\* The three together: what several requests for one address leave behind.
InvitationsAccounted == InvitedOnce /\ InvitedIsComplete /\ StrandedOnlyByFailure
=============================================================================
