--------------------------- MODULE UserSuspension ---------------------------
(***************************************************************************)
(* Suspending and unsuspending one user: the admin requests of the user    *)
(* service, Keycloak's account, the gateway's user blacklist in Redis, the *)
(* row of the users table, and the identity events that come back through  *)
(* Kafka.                                                                  *)
(*                                                                         *)
(* A request is a chain of remote calls inside one database transaction    *)
(* that holds no lock until its last statement, so requests interleave     *)
(* between any two calls.  A call that fails ends its request; whether the *)
(* far side had already applied it is not known.  The forced logout        *)
(* changes nothing here: what a session allows, a login allows as well.    *)
(***************************************************************************)
EXTENDS Integers

CONSTANTS
  Req,            \* admin requests that may be in progress at the same time
  Life,           \* life of an access token and of a blacklist entry (900 s)
  RealmIsTenant   \* TRUE: events carry the tenant's UUID as their realm

ASSUME SuspensionAssumption ==
  Life \in Nat \ {0} /\ RealmIsTenant \in BOOLEAN

VARIABLES
  status,    \* the committed users.status
  account,   \* Keycloak's account: "enabled", "disabled", "deleted"
  token,     \* remaining life of the user's youngest access token, 0 none
  black,     \* remaining life of blacklist:user:U, 0 absent
  pc,        \* pc[r]: the call request r makes next
  lazy,      \* getMe: "pending" has read PENDING and not yet written ACTIVE
  inbox,     \* identity events in the topic auth.events.user
  upset      \* history: what has disturbed the protocol, see Upsets

vars == <<status, account, token, black, pc, lazy, inbox, upset>>

\* Two requests overlapped; an unsuspend request failed; an account changed in
\* Keycloak's console.
Upsets == {"overlap", "halfway", "console"}
Upset(what) == upset' = upset \union {what}

Suspending   == {"disable", "logout", "blacklist", "commit"}
Unsuspending == {"enable", "unblacklist", "activate"}

Quiet       == \A r \in Req : pc[r] = "idle"
NoUnsuspend == \A r \in Req : pc[r] \notin Unsuspending

\* What the gateway's plugin lets through.
Passes == token > 0 /\ black = 0

Init ==
  /\ status \in {"PENDING", "ACTIVE"}   \* PENDING: invited, and activated since
  /\ account = "enabled"
  /\ token = 0 /\ black = 0
  /\ pc = [r \in Req |-> "idle"]
  /\ lazy = "idle"
  /\ inbox = {} /\ upset = {}

-----------------------------------------------------------------------------
(* The admin requests.                                                     *)

\* The row exists and belongs to the admin's tenant; its status is not read.
Begin(r) ==
  /\ pc[r] = "idle"
  /\ \E first \in {"disable", "enable"} : pc' = [pc EXCEPT ![r] = first]
  /\ IF Quiet THEN UNCHANGED upset ELSE Upset("overlap")
  /\ UNCHANGED <<status, account, token, black, lazy, inbox>>

Abort(r) ==
  /\ pc' = [pc EXCEPT ![r] = "idle"]
  /\ IF pc[r] \in Unsuspending THEN Upset("halfway") ELSE UNCHANGED upset

\* The call at here takes effect; the request goes on to next, or gets an error
\* all the same and ends.
Call(r, here, next) ==
  /\ pc[r] = here
  /\ \/ pc' = [pc EXCEPT ![r] = next] /\ UNCHANGED upset
     \/ Abort(r)

\* The call fails before it has any effect.
Fail(r) ==
  /\ pc[r] # "idle"
  /\ Abort(r)
  /\ UNCHANGED <<status, account, token, black, lazy, inbox>>

Disable(r) ==
  /\ account # "deleted"
  /\ Call(r, "disable", "logout")
  /\ account' = "disabled"
  /\ UNCHANGED <<status, token, black, lazy, inbox>>

Logout(r) ==
  /\ account # "deleted"
  /\ Call(r, "logout", "blacklist")
  /\ UNCHANGED <<status, account, token, black, lazy, inbox>>

MutBlacklist(r) ==
  /\ Call(r, "blacklist", "commit")
  /\ black' = Life - 1
  /\ UNCHANGED <<status, account, token, lazy, inbox>>

\* The two Kafka events emitted after the SETEX carry the realm "solavie" and
\* a made-up jti: their consumers change nothing with them.
Blacklist(r) ==
  /\ Call(r, "blacklist", "commit")
  /\ black' = Life
  /\ UNCHANGED <<status, account, token, lazy, inbox>>

Commit(r) ==
  /\ Call(r, "commit", "idle")
  /\ status' = "SUSPENDED"
  /\ UNCHANGED <<account, token, black, lazy, inbox>>

MutEnable(r) ==
  /\ account # "deleted"
  /\ Call(r, "enable", "unblacklist")
  /\ account' = "enabled"
  /\ status' = "ACTIVE"
  /\ UNCHANGED <<token, black, lazy, inbox>>

Enable(r) ==
  /\ account # "deleted"
  /\ Call(r, "enable", "unblacklist")
  /\ account' = "enabled"
  /\ UNCHANGED <<status, token, black, lazy, inbox>>

Unblacklist(r) ==
  /\ Call(r, "unblacklist", "activate")
  /\ black' = 0
  /\ UNCHANGED <<status, account, token, lazy, inbox>>

Activate(r) ==
  /\ Call(r, "activate", "idle")
  /\ status' = "ACTIVE"
  /\ UNCHANGED <<account, token, black, lazy, inbox>>

-----------------------------------------------------------------------------
(* The user.                                                               *)

Login ==
  /\ account = "enabled"
  /\ token' = Life
  /\ UNCHANGED <<status, account, black, pc, lazy, inbox, upset>>

\* getMe of a PENDING row asks Keycloak before it writes ...
LazyRead ==
  /\ lazy = "idle" /\ Passes /\ status = "PENDING"
  /\ lazy' = "pending"
  /\ UNCHANGED <<status, account, token, black, pc, inbox, upset>>

\* ... and then writes ACTIVE, whatever the row says by now; when Keycloak
\* does not answer it throws.
LazyWrite ==
  /\ lazy = "pending"
  /\ status' \in {status, "ACTIVE"}
  /\ lazy' = "idle"
  /\ UNCHANGED <<account, token, black, pc, inbox, upset>>

MutSub(n) == n - 1
Sub(n) == IF n > 0 THEN n - 1 ELSE 0

Tick ==
  /\ token' = Sub(token) /\ black' = Sub(black)
  /\ UNCHANGED <<status, account, pc, lazy, inbox, upset>>

-----------------------------------------------------------------------------
(* Keycloak's console, and the events of the sync worker.                  *)

\* Events carry no partition key: they are consumed in any order.
ConsoleAct(acts, result, event) ==
  /\ account \in acts
  /\ account' = result
  /\ Upset("console")
  /\ inbox' = inbox \union {event}
  /\ UNCHANGED <<status, token, black, pc, lazy>>

ConsoleDisable == ConsoleAct({"enabled"}, "disabled", "user.disabled")
ConsoleDelete  == ConsoleAct({"enabled", "disabled"}, "deleted", "user.deleted")
VerifyEmail    == ConsoleAct({"enabled"}, "enabled", "user.verified")

Outcome(event) ==
  CASE event = "user.verified" -> "ACTIVE"
    [] event = "user.disabled" -> "SUSPENDED"
    [] event = "user.deleted"  -> "DELETED"

\* The handler runs in the tenant context of the event's realm: a name that is
\* no UUID throws before the update, and the Kafka controller logs it.
ConsumeEvent(event) ==
  /\ event \in inbox
  /\ inbox' = inbox \ {event}
  /\ status' = IF RealmIsTenant THEN Outcome(event) ELSE status
  /\ UNCHANGED <<account, token, black, pc, lazy, upset>>

-----------------------------------------------------------------------------
Request(r) ==
  \/ Begin(r) \/ Fail(r)
  \/ Disable(r) \/ Logout(r) \/ Blacklist(r) \/ Commit(r)
  \/ Enable(r) \/ Unblacklist(r) \/ Activate(r)

Next ==
  \/ \E r \in Req : Request(r)
  \/ Login \/ LazyRead \/ LazyWrite \/ Tick
  \/ ConsoleDisable \/ ConsoleDelete \/ VerifyEmail
  \/ \E event \in inbox : ConsumeEvent(event)

Spec == Init /\ [][Next]_vars

-----------------------------------------------------------------------------
(* Properties.                                                             *)

TypeOK ==
  /\ status \in {"PENDING", "ACTIVE", "SUSPENDED", "DELETED"}
  /\ account \in {"enabled", "disabled", "deleted"}
  /\ token \in 0..Life /\ black \in 0..Life
  /\ pc \in [Req -> {"idle"} \union Suspending \union Unsuspending]
  /\ lazy \in {"idle", "pending"}
  /\ inbox \subseteq {"user.verified", "user.disabled", "user.deleted"}
  /\ upset \subseteq Upsets

\* As long as requests came one at a time, no unsuspend request failed and
\* nobody used the console, a suspended user never passes the gateway: not with
\* a token issued before the suspension, not after the blacklist entry has
\* expired, and whatever call of earlier suspend requests failed.
SuspendedBlocked ==
  upset = {} /\ status = "SUSPENDED" /\ NoUnsuspend => ~Passes

\* Under the same conditions nobody is on the gateway's blacklist with an
\* account that may log in.
BlacklistedAreDisabled ==
  upset = {} /\ Quiet /\ black > 0 => account = "disabled"

\* Both: the row, the account and the blacklist agree on who is suspended.
SuspensionAgreed == SuspendedBlocked /\ BlacklistedAreDisabled

\* A committed suspension is undone by an unsuspend request, by an identity
\* event or by a getMe that had read PENDING before, and by nothing else,
\* however requests interleave and fail.
SuspensionSticks ==
  [][status = "SUSPENDED" /\ status' # "SUSPENDED"
       => \/ \E r \in Req : pc[r] = "activate" /\ pc'[r] = "idle"
          \/ inbox' # inbox
          \/ lazy = "pending"]_vars
=============================================================================
