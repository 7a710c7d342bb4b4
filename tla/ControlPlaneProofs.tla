-------------------------- MODULE ControlPlaneProofs --------------------------
(***************************************************************************)
(* Proofs about the user service (UserSuspension and Invitation), about    *)
(* the configurations that ai-core copies (ConfigSync), and about all the  *)
(* parts of MCControlPlane side by side, for every number of requests,     *)
(* invitations and synchronisations, and every token life.                 *)
(*                                                                         *)
(* That a suspended user is blocked is not inductive: the token that the   *)
(* blacklist must outlive is issued, and the account that must refuse new  *)
(* ones is disabled, several calls before the row says SUSPENDED.          *)
(* Orderly says what each call of a request may rely on while nothing has  *)
(* upset the protocol.  Engagement says of invitations that at most one    *)
(* request is past the creation of the account, whatever the others do,    *)
(* and Uncrossed what a synchronisation knows that nothing has crossed.    *)
(* ChangeInv says where the last change of a configuration is.             *)
(***************************************************************************)
EXTENDS MCControlPlane, SyncWorkerProofs

OneRequest ==
  \A r, s \in Req : pc[r] # "idle" /\ pc[s] # "idle" => r = s

Blocked ==
  status = "SUSPENDED" /\ NoUnsuspend => account = "disabled" /\ black >= token

Progress ==
  \A r \in Req :
    /\ pc[r] \in {"logout", "blacklist", "commit"} => account = "disabled"
    /\ pc[r] = "commit" => black >= token
    /\ pc[r] \in {"unblacklist", "activate"} => account = "enabled"
    /\ pc[r] = "activate" => black = 0

Listed ==
  black > 0 /\ (\A r \in Req : pc[r] # "unblacklist") => account = "disabled"

Orderly ==
  /\ inbox = {} /\ account # "deleted"
  /\ OneRequest /\ Blocked /\ Progress /\ Listed

SuspensionInv == upset = {} => Orderly

\* Every variable stays in its type, whatever fails and whoever writes.
THEOREM TypeCorrect == Spec => []TypeOK
<1>1. Init => TypeOK
  BY SuspensionAssumption DEF Init, TypeOK
<1>2. TypeOK /\ [Next]_vars => TypeOK'
  <2> SUFFICES ASSUME TypeOK, [Next]_vars PROVE TypeOK'
    OBVIOUS
  <2> USE SuspensionAssumption DEF TypeOK, Suspending, Unsuspending
  <2>1. ASSUME NEW r \in Req, Request(r) PROVE TypeOK'
    <3> USE <2>1 DEF Call, Abort, Upset, Upsets
    <3>1. CASE Begin(r) BY <3>1 DEF Begin
    <3>2. CASE Fail(r) BY <3>2 DEF Fail
    <3>3. CASE Disable(r) BY <3>3 DEF Disable
    <3>4. CASE Logout(r) BY <3>4 DEF Logout
    <3>5. CASE Blacklist(r)
      <4>1. black' \in 0..Life BY <3>5 DEF Blacklist
      <4> QED BY <3>5, <4>1 DEF Blacklist
    <3>6. CASE Commit(r) BY <3>6 DEF Commit
    <3>7. CASE Enable(r) BY <3>7 DEF Enable
    <3>8. CASE Unblacklist(r)
      <4>1. black' \in 0..Life BY <3>8 DEF Unblacklist
      <4> QED BY <3>8, <4>1 DEF Unblacklist
    <3>9. CASE Activate(r) BY <3>9 DEF Activate
    <3> QED BY <3>1, <3>2, <3>3, <3>4, <3>5, <3>6, <3>7, <3>8, <3>9 DEF Request
  <2>2. CASE Login BY <2>2 DEF Login
  <2>3. CASE LazyRead BY <2>3 DEF LazyRead
  <2>4. CASE LazyWrite BY <2>4 DEF LazyWrite
  <2>5. CASE Tick BY <2>5 DEF Tick, Sub
  <2>6. CASE ConsoleDisable BY <2>6 DEF ConsoleDisable, ConsoleAct, Upset, Upsets
  <2>7. CASE ConsoleDelete BY <2>7 DEF ConsoleDelete, ConsoleAct, Upset, Upsets
  <2>8. CASE VerifyEmail BY <2>8 DEF VerifyEmail, ConsoleAct, Upset, Upsets
  <2>9. ASSUME NEW event \in inbox, ConsumeEvent(event) PROVE TypeOK'
    BY <2>9 DEF ConsumeEvent, Outcome
  <2>10. CASE UNCHANGED vars BY <2>10 DEF vars
  <2> QED
    BY <2>1, <2>2, <2>3, <2>4, <2>5, <2>6, <2>7, <2>8, <2>9, <2>10 DEF Next
<1> QED BY <1>1, <1>2, PTL DEF Spec

\* What has happened is not forgotten.
LEMMA UpsetStays == [Next]_vars /\ upset' = {} => upset = {}
  BY DEF Next, Request, Begin, Fail, Abort, Call, Upset, Disable, Logout, Blacklist,
         Commit, Enable, Unblacklist, Activate, Login, LazyRead, LazyWrite, Tick,
         ConsoleDisable, ConsoleDelete, VerifyEmail, ConsoleAct, ConsumeEvent, vars

\* No step that upsets nothing disturbs the order.
LEMMA SuspensionStep ==
  ASSUME TypeOK, Orderly, upset' = {}, [Next]_vars
  PROVE  Orderly'
<1> USE SuspensionAssumption
    DEF Orderly, TypeOK, OneRequest, Blocked, Progress, Listed,
        Suspending, Unsuspending, NoUnsuspend, Upset
<1>1. ASSUME NEW r \in Req, Request(r) PROVE Orderly'
  <2> USE <1>1 DEF Call, Abort
  <2>1. CASE Begin(r) BY <2>1 DEF Begin, Quiet
  <2>2. CASE Fail(r) BY <2>2 DEF Fail
  <2>3. CASE Disable(r) BY <2>3 DEF Disable
  <2>4. CASE Logout(r) BY <2>4 DEF Logout
  <2>5. CASE Blacklist(r) BY <2>5 DEF Blacklist
  <2>6. CASE Commit(r) BY <2>6 DEF Commit
  <2>7. CASE Enable(r) BY <2>7 DEF Enable
  <2>8. CASE Unblacklist(r) BY <2>8 DEF Unblacklist
  <2>9. CASE Activate(r) BY <2>9 DEF Activate
  <2> QED BY <2>1, <2>2, <2>3, <2>4, <2>5, <2>6, <2>7, <2>8, <2>9 DEF Request
<1>2. CASE Login BY <1>2 DEF Login
<1>3. CASE LazyRead BY <1>3 DEF LazyRead
<1>4. CASE LazyWrite BY <1>4 DEF LazyWrite
<1>5. CASE Tick BY <1>5 DEF Tick, Sub
<1>6. CASE ConsoleDisable BY <1>6 DEF ConsoleDisable, ConsoleAct
<1>7. CASE ConsoleDelete BY <1>7 DEF ConsoleDelete, ConsoleAct
<1>8. CASE VerifyEmail BY <1>8 DEF VerifyEmail, ConsoleAct
<1>9. ASSUME NEW event \in inbox, ConsumeEvent(event) PROVE Orderly'
  BY <1>9
<1>10. CASE UNCHANGED vars BY <1>10 DEF vars
<1> QED
  BY <1>1, <1>2, <1>3, <1>4, <1>5, <1>6, <1>7, <1>8, <1>9, <1>10 DEF Next

\* The invariant of suspensions.
LEMMA SuspensionHolds == Spec => [](TypeOK /\ SuspensionInv)
<1>1. Init => SuspensionInv
  BY SuspensionAssumption
  DEF Init, SuspensionInv, Orderly, OneRequest, Blocked, Progress, Listed,
      Suspending, Unsuspending
<1>2. TypeOK /\ SuspensionInv /\ [Next]_vars => SuspensionInv'
  BY SuspensionStep, UpsetStays DEF SuspensionInv
<1> QED BY <1>1, <1>2, TypeCorrect, PTL DEF Spec

\* A suspended user never passes the gateway while nothing upsets the protocol.
THEOREM SuspendedNeverPasses == Spec => []SuspendedBlocked
<1>1. TypeOK /\ SuspensionInv => SuspendedBlocked
  BY SuspensionAssumption
  DEF SuspensionInv, Orderly, TypeOK, Blocked, SuspendedBlocked, Passes
<1> QED BY <1>1, SuspensionHolds, PTL

\* Nobody whom the gateway blacklists may log in, between two requests.
THEOREM BlacklistMeansDisabled == Spec => []BlacklistedAreDisabled
<1>1. SuspensionInv => BlacklistedAreDisabled
  BY DEF SuspensionInv, Orderly, Listed, BlacklistedAreDisabled, Quiet
<1> QED BY <1>1, SuspensionHolds, PTL

\* No interleaving of requests undoes a suspension behind their back.
THEOREM SuspensionsStick == Spec => SuspensionSticks
<1>1. TypeOK /\ [Next]_vars =>
        [status = "SUSPENDED" /\ status' # "SUSPENDED"
           => \/ \E r \in Req : pc[r] = "activate" /\ pc'[r] = "idle"
              \/ inbox' # inbox
              \/ lazy = "pending"]_vars
  <2> SUFFICES ASSUME TypeOK, Next, status = "SUSPENDED", status' # "SUSPENDED",
                      lazy # "pending", inbox' = inbox
               PROVE  \E r \in Req : pc[r] = "activate" /\ pc'[r] = "idle"
    BY DEF vars
  <2>1. PICK r \in Req : Request(r)
    BY DEF Next, Login, LazyRead, LazyWrite, Tick, ConsoleDisable, ConsoleDelete,
           VerifyEmail, ConsoleAct, ConsumeEvent
  <2> QED
    BY <2>1 DEF Request, Begin, Fail, Disable, Logout, Blacklist, Commit, Enable,
                Unblacklist, Activate, Call, Abort, TypeOK
<1> QED BY <1>1, TypeCorrect, PTL DEF Spec, SuspensionSticks

\* Under the same conditions the row, the account and the blacklist agree.
THEOREM SuspensionsHold == Spec => []SuspensionAgreed
<1>1. SuspendedBlocked /\ BlacklistedAreDisabled => SuspensionAgreed
  BY DEF SuspensionAgreed
<1> QED BY <1>1, SuspendedNeverPasses, BlacklistMeansDisabled, PTL

-----------------------------------------------------------------------------
(* Invitation.                                                             *)

\* A request that has made the account, or has left something of its own.
Engaged(r) ==
  turn[r] \in {"member", "row", "token", "publish"} \/ r \in invited \union redeemable

Engagement ==
  \A r \in Invite : Engaged(r) =>
    mailUser # "none" /\ \A q \in Invite : Engaged(q) => q = r

\* What the calls that have been made have left.
Steps ==
  \A r \in Invite :
    /\ turn[r] \in {"row", "token", "publish"} \/ r \in invited => member
    /\ turn[r] \in {"token", "publish"} \/ r \in invited => record # "none"

Stranded ==
  mailUser # "none" /\ record = "none" /\ failed = {}
    => \E r \in Invite : turn[r] \in {"member", "row"}

InviteInv == InviteTypeOK /\ Engagement /\ Steps /\ Stranded

\* Every call of an invitation keeps what the others rely on.
LEMMA InviteKeeps ==
  ASSUME InviteInv, [InviteNext]_inviteVars
  PROVE  InviteInv'
<1> USE DEF InviteInv, InviteTypeOK, Engagement, Engaged, Steps, Stranded
<1>1. CASE UNCHANGED inviteVars
  BY <1>1 DEF inviteVars
<1>2. CASE ConsoleEnables
  BY <1>2 DEF ConsoleEnables
<1>3. CASE FirstVisit
  BY <1>3 DEF FirstVisit
<1>4. ASSUME NEW r \in Invite, InviteStep(r) PROVE InviteInv'
  <2> USE DEF Turn, Refused, Effective
  <2>1. CASE CheckEmail(r) BY <2>1 DEF CheckEmail
  <2>2. CASE CreateAccount(r) BY <2>2 DEF CreateAccount, AccountTaken
  <2>3. CASE LinkMember(r) BY <2>3 DEF LinkMember
  <2>4. CASE CreateRow(r) BY <2>4 DEF CreateRow
  <2>5. CASE WriteToken(r) BY <2>5 DEF WriteToken
  <2>6. CASE PublishInvite(r) BY <2>6 DEF PublishInvite
  <2>7. CASE InviteFails(r) BY <2>7 DEF InviteFails, FailsAt
  <2>8. CASE TokenExpires(r) BY <2>8 DEF TokenExpires
  <2> QED BY <1>4, <2>1, <2>2, <2>3, <2>4, <2>5, <2>6, <2>7, <2>8 DEF InviteStep
<1> QED BY <1>1, <1>2, <1>3, <1>4 DEF InviteNext

\* The invariant of invitations.
LEMMA InviteHolds == InviteSpec => []InviteInv
<1>1. InviteInit => InviteInv
  BY DEF InviteInit, InviteInv, InviteTypeOK, Engagement, Engaged, Steps, Stranded
<1>2. InviteInv /\ [InviteNext]_inviteVars => InviteInv'
  BY InviteKeeps
<1> QED BY <1>1, <1>2, PTL DEF InviteSpec

\* Several invitations of one address, however they interleave and fail, leave
\* one complete user, or an account whose request has failed.
THEOREM InvitesAccounted == InviteSpec => []InvitationsAccounted
<1>1. InviteInv => InvitationsAccounted
  BY DEF InviteInv, InviteTypeOK, Engagement, Engaged, Steps, Stranded,
         InvitationsAccounted, InvitedOnce, InvitedIsComplete, StrandedOnlyByFailure
<1> QED BY <1>1, InviteHolds, PTL

-----------------------------------------------------------------------------
(* Configuration.                                                          *)

\* A synchronisation that nothing has crossed is the only one, and the rows are as
\* old as what it fetched, or older.
Uncrossed ==
  \A s \in Active : ~crossed[s] =>
    /\ \A u \in Active : u = s
    /\ stage[s] \in {"load", "commit"} /\ fetched[s] # 0 => stored <= fetched[s]

ConfigInv ==
  /\ ConfigTypeOK /\ Uncrossed
  /\ stored <= wanted /\ mailbox < wanted
  /\ \A s \in Syncer :
       /\ fetched[s] <= wanted
       /\ stage[s] \in {"load", "commit", "limits"} => fetched[s] # Nothing

\* Every step of a synchronisation keeps the types, and fewer messages than changes.
LEMMA ConfigTypes ==
  ASSUME ConfigInv, [ConfigNext]_configVars
  PROVE  ConfigTypeOK' /\ mailbox' < wanted'
<1> USE ConfigAssumption DEF ConfigInv, ConfigTypeOK, syncState, Nothing
<1>0. Listener \in Syncer /\ Background \subseteq Syncer
  BY DEF Syncer
<1>t. Loss => losses' \in 0..MaxLosses /\ troubled' \in BOOLEAN
  BY DEF Loss
<1>o. ASSUME NEW s \in Syncer, Opens(s)
      PROVE  /\ stage' \in [Syncer -> {"idle", "fetch", "load", "commit", "limits"}]
             /\ crossed' \in [Syncer -> BOOLEAN] /\ troubled' \in BOOLEAN
             /\ UNCHANGED <<tries, fetched, base>>
  BY <1>o DEF Opens
<1>1. CASE UNCHANGED configVars
  BY <1>1 DEF configVars
<1>2. CASE Announced
  <2>1. troubled' \in BOOLEAN
    BY <1>2 DEF Announced
  <2>2. wanted' \in 1..MaxWanted /\ mailbox' \in 0..MaxWanted /\ mailbox' < wanted'
    BY <1>2 DEF Announced
  <2> QED BY <1>2, <2>1, <2>2 DEF Announced
<1>3. CASE Receive
  <2>1. Opens(Listener) /\ mailbox' \in 0..MaxWanted /\ mailbox' < wanted
        /\ UNCHANGED <<wanted, listening, stored, applied, losses>>
    BY <1>3 DEF Receive
  <2> QED BY <1>0, <1>o, <2>1
<1>4. CASE ListenerDies
  <2>1. losses' \in 0..MaxLosses /\ troubled' \in BOOLEAN
    BY <1>t, <1>4 DEF ListenerDies
  <2>2. listening' \in BOOLEAN
    BY <1>4, Zenon DEF ListenerDies
  <2>3. mailbox' = 0 /\ 0 < wanted
    BY <1>4 DEF ListenerDies
  <2>4. UNCHANGED <<wanted, stage, tries, fetched, base, crossed, stored, applied>>
    BY <1>4 DEF ListenerDies
  <2> QED BY <2>1, <2>2, <2>3, <2>4
<1>5. CASE ProcessRestarts BY <1>t, <1>5 DEF ProcessRestarts
<1>6. CASE LimitsLost BY <1>t, <1>6 DEF LimitsLost
<1>7. ASSUME NEW g \in Background, BackgroundSync(g)
      PROVE  ConfigTypeOK' /\ mailbox' < wanted'
  BY <1>0, <1>o, <1>7 DEF BackgroundSync
<1>8. ASSUME NEW s \in Syncer, Progresses(s)
      PROVE  ConfigTypeOK' /\ mailbox' < wanted'
  <2> USE DEF Ended
  <2>1. CASE Fetch(s) BY <2>1 DEF Fetch, Answers
  <2>2. CASE FetchFails(s)
    <3>1. CASE LastTry(s) BY <2>2, <3>1 DEF FetchFails, GivesUp
    <3>2. CASE ~LastTry(s) BY <2>2, <3>2 DEF FetchFails, LastTry
    <3> QED BY <3>1, <3>2
  <2>3. CASE Load(s) BY <2>3 DEF Load
  <2>4. CASE CommitRows(s) BY <2>4 DEF CommitRows, Row
  <2>5. CASE SyncFails(s) BY <2>5 DEF SyncFails
  <2>6. CASE WriteLimits(s) BY <2>6 DEF WriteLimits
  <2> QED BY <1>8, <2>1, <2>2, <2>3, <2>4, <2>5, <2>6 DEF Progresses
<1> QED BY <1>1, <1>2, <1>3, <1>4, <1>5, <1>6, <1>7, <1>8 DEF ConfigNext

\* A synchronisation that nothing has crossed stays the only one.
LEMMA ConfigStep ==
  ASSUME ConfigInv, [ConfigNext]_configVars
  PROVE  ConfigInv'
<1> DEFINE Ages == /\ Uncrossed /\ stored <= wanted
                   /\ \A s \in Syncer :
                        /\ fetched[s] <= wanted
                        /\ stage[s] \in {"load", "commit", "limits"} => fetched[s] # Nothing
<1> SUFFICES Ages'
  BY ConfigTypes DEF ConfigInv
<1> USE ConfigAssumption DEF ConfigInv, ConfigTypeOK, Uncrossed, Active, syncState, Nothing
<1>0. Listener \in Syncer /\ Background \subseteq Syncer
  BY DEF Syncer
<1>o. ASSUME NEW s \in Syncer, Opens(s), UNCHANGED <<wanted, stored>>
      PROVE  Ages'
  <2>1. /\ stage[s] = "idle" /\ stage'[s] = "fetch"
        /\ \A u \in Syncer \ {s} : stage'[u] = stage[u]
        /\ ~crossed'[s] => Active = {}
        /\ \A u \in Active : crossed'[u]
        /\ UNCHANGED <<fetched, wanted, stored>>
    BY <1>o DEF Opens
  <2> QED BY <2>1
<1>1. CASE UNCHANGED configVars
  BY <1>1 DEF configVars
<1>2. CASE Announced
  <2>1. wanted' = wanted + 1 /\ UNCHANGED <<stage, fetched, crossed, stored>>
    BY <1>2 DEF Announced
  <2> QED BY <2>1
<1>3. CASE Receive BY <1>0, <1>o, <1>3 DEF Receive
<1>4. CASE ListenerDies
  <2>1. UNCHANGED <<wanted, stage, fetched, crossed, stored>>
    BY <1>4 DEF ListenerDies
  <2> QED BY <2>1
<1>5. CASE ProcessRestarts BY <1>5 DEF ProcessRestarts
<1>6. CASE LimitsLost BY <1>6 DEF LimitsLost
<1>7. ASSUME NEW g \in Background, BackgroundSync(g) PROVE Ages'
  BY <1>0, <1>o, <1>7 DEF BackgroundSync
<1>8. ASSUME NEW s \in Syncer, Progresses(s) PROVE Ages'
  <2> USE DEF Ended
  <2>1. CASE Fetch(s) BY <2>1 DEF Fetch, Answers
  <2>2. CASE FetchFails(s)
    <3>1. CASE LastTry(s) BY <2>2, <3>1 DEF FetchFails, GivesUp
    <3>2. CASE ~LastTry(s) BY <2>2, <3>2 DEF FetchFails
    <3> QED BY <3>1, <3>2
  <2>3. CASE Load(s) BY <2>3 DEF Load
  <2>4. CASE CommitRows(s) BY <2>4 DEF CommitRows, Row
  <2>5. CASE SyncFails(s) BY <2>5 DEF SyncFails
  <2>6. CASE WriteLimits(s) BY <2>6 DEF WriteLimits
  <2> QED BY <1>8, <2>1, <2>2, <2>3, <2>4, <2>5, <2>6 DEF Progresses
<1> QED BY <1>1, <1>2, <1>3, <1>4, <1>5, <1>6, <1>7, <1>8 DEF ConfigNext

\* The invariant of synchronisations.
LEMMA ConfigHolds == ConfigSpec => []ConfigInv
<1>1. ConfigInit => ConfigInv
  <2> SUFFICES ASSUME ConfigInit PROVE ConfigInv
    OBVIOUS
  <2> USE ConfigAssumption DEF ConfigInit, Nothing
  <2>1. /\ \A s \in Syncer : stage[s] = "idle" /\ fetched[s] = -1
        /\ wanted = 1 /\ stored = -1 /\ mailbox = 0
    OBVIOUS
  <2>2. ConfigTypeOK
    <3>1. /\ stage \in [Syncer -> {"idle"}] /\ tries \in [Syncer -> {0}]
          /\ fetched \in [Syncer -> {-1}] /\ base \in [Syncer -> {-1}]
          /\ crossed \in [Syncer -> {FALSE}] /\ listening = TRUE /\ troubled = FALSE
          /\ applied = -1 /\ losses = 0
      OBVIOUS
    <3>2. /\ 0 \in 0..(MaxTries - 1) /\ 1 \in 1..MaxWanted /\ 0 \in 0..MaxWanted
          /\ 0 \in 0..MaxLosses
      OBVIOUS
    <3> QED BY <2>1, <3>1, <3>2 DEF ConfigTypeOK
  <2> QED BY <2>1, <2>2 DEF ConfigInv, Uncrossed, Active
<1>2. ConfigInv /\ [ConfigNext]_configVars => ConfigInv'
  BY ConfigStep
<1> QED BY <1>1, <1>2, PTL DEF ConfigSpec

\* However synchronisations overlap and fail, the rows go back to an older
\* configuration only by one that gave up fetching or ran beside another.
THEOREM RowsOnlyGoBackForCause == ConfigSpec => RowsGoBackForCause
<1>1. ConfigInv /\ [ConfigNext]_configVars =>
        [stored' < stored
           => \E s \in Syncer : stage[s] = "commit" /\ stage'[s] = "limits"
                                /\ (fetched[s] = 0 \/ crossed[s])]_configVars
  <2> SUFFICES ASSUME ConfigInv, ConfigNext, stored' < stored
               PROVE  \E s \in Syncer : stage[s] = "commit" /\ stage'[s] = "limits"
                                        /\ (fetched[s] = 0 \/ crossed[s])
    OBVIOUS
  <2>1. stored \in Int
    BY DEF ConfigInv, ConfigTypeOK, Nothing
  <2>2. PICK s \in Syncer : CommitRows(s)
    BY <2>1 DEF ConfigNext, Announced, Receive, ListenerDies, ProcessRestarts, LimitsLost,
           BackgroundSync, Progresses, Fetch, FetchFails, Load, SyncFails, WriteLimits
  <2> QED
    BY <2>1, <2>2 DEF CommitRows, Row, ConfigInv, ConfigTypeOK, Uncrossed, Active
<1> QED BY <1>1, ConfigHolds, PTL DEF ConfigSpec, RowsGoBackForCause

\* The listener is on its way from the last change to the limits, or has arrived.
Underway ==
  \/ stage[Listener] = "fetch"
  \/ stage[Listener] = "load" /\ fetched[Listener] = wanted
  \/ stage[Listener] = "commit" /\ fetched[Listener] = wanted /\ base[Listener] = stored
  \/ stage[Listener] = "limits" /\ fetched[Listener] = wanted /\ stored = wanted
  \/ stage[Listener] = "idle" /\ stored = wanted /\ applied = wanted

\* Until something goes wrong, the last change waits in the mailbox or is on its way,
\* with nothing beside it that could overwrite it.
ChangeInv ==
  ~troubled /\ wanted > 1 => mailbox > 0 \/ (Active \subseteq {Listener} /\ Underway)

\* The last change is not lost on its way.
LEMMA ChangeStep ==
  ASSUME ConfigTypeOK, ChangeInv, [ConfigNext]_configVars
  PROVE  ChangeInv'
<1> USE ConfigAssumption DEF ConfigTypeOK, ChangeInv, syncState, Nothing
<1>0. Listener \in Syncer /\ Background \subseteq Syncer /\ Listener \notin Background
  BY DEF Syncer
<1>1. CASE UNCHANGED configVars
  BY <1>1 DEF configVars, Underway, Active
<1>2. CASE Announced
  <2>1. ~troubled' => mailbox' = mailbox + 1
    BY <1>2 DEF Announced
  <2> QED BY <2>1
<1>3. CASE Receive
  <2>1. troubled' = (troubled \/ Active # {}) /\ stage' = [stage EXCEPT ![Listener] = "fetch"]
    BY <1>3 DEF Receive, Opens
  <2>2. ~troubled' => Active' = {Listener} /\ stage'[Listener] = "fetch"
    <3>1. stage'[Listener] = "fetch" /\ \A q \in Syncer \ {Listener} : stage'[q] = stage[q]
      BY <1>0, <2>1
    <3>2. ~troubled' => \A q \in Syncer : stage[q] = "idle"
      BY <2>1 DEF Active
    <3> QED BY <1>0, <3>1, <3>2 DEF Active
  <2> QED BY <2>2 DEF Underway
<1>4. CASE ListenerDies \/ ProcessRestarts \/ LimitsLost
  BY <1>4 DEF ListenerDies, ProcessRestarts, LimitsLost, Loss
<1>5. ASSUME NEW g \in Background, BackgroundSync(g) PROVE ChangeInv'
  <2>1. /\ applied = Nothing /\ troubled' = (troubled \/ Active # {})
        /\ UNCHANGED <<wanted, mailbox>>
    BY <1>5 DEF BackgroundSync, Opens
  <2>2. stage[Listener] # "idle" => Active # {}
    BY <1>0 DEF Active
  <2>3. Underway /\ Active = {} => applied # Nothing
    <3>1. wanted # Nothing
      OBVIOUS
    <3> QED BY <2>2, <3>1 DEF Underway
  <2> QED BY <2>1, <2>3
<1>6. ASSUME NEW s \in Syncer, Progresses(s) PROVE ChangeInv'
  <2>1. s \in Active /\ UNCHANGED <<wanted, mailbox>>
    BY <1>6 DEF Active, Progresses, Fetch, FetchFails, Load, CommitRows, SyncFails, WriteLimits
  <2>2. CASE troubled \/ wanted = 1 \/ mailbox > 0
    <3>1. troubled => troubled'
      BY <1>6 DEF Progresses, Fetch, FetchFails, Load, CommitRows, SyncFails, WriteLimits
    <3> QED BY <2>1, <2>2, <3>1
  <2>3. CASE ~troubled /\ wanted > 1 /\ mailbox = 0
    <3>1. s = Listener /\ Active \subseteq {Listener} /\ Underway
      BY <2>1, <2>3
    <3>2. stage' = [stage EXCEPT ![s] = stage'[s]]
      BY <1>6 DEF Progresses, Fetch, FetchFails, Load, CommitRows, SyncFails, WriteLimits, Ended
    <3>3. Active' \subseteq {Listener}
      BY <3>1, <3>2 DEF Active
    <3>4. troubled' \/ Underway'
      <4> USE DEF Underway, Ended
      <4>1. CASE Fetch(s) BY <3>1, <4>1 DEF Fetch, Answers
      <4>2. CASE FetchFails(s) BY <3>1, <4>2 DEF FetchFails
      <4>3. CASE Load(s) BY <3>1, <4>3 DEF Load
      <4>4. CASE CommitRows(s) BY <3>1, <4>4 DEF CommitRows, Row
      <4>5. CASE SyncFails(s) BY <4>5 DEF SyncFails
      <4>6. CASE WriteLimits(s) BY <3>1, <4>6 DEF WriteLimits
      <4> QED BY <1>6, <4>1, <4>2, <4>3, <4>4, <4>5, <4>6 DEF Progresses
    <3> QED BY <3>3, <3>4
  <2> QED BY <2>2, <2>3
<1> QED BY <1>1, <1>2, <1>3, <1>4, <1>5, <1>6 DEF ConfigNext

\* A change that came while the listener was busy, or while a gateway synchronised,
\* is not forgotten.
THEOREM ChangesArrive == ConfigSpec => []ChangesApplied
<1>1. ConfigInit => ChangeInv
  BY DEF ConfigInit, ChangeInv
<1>2. ConfigInv /\ ChangeInv /\ [ConfigNext]_configVars => ChangeInv'
  BY ChangeStep DEF ConfigInv
<1>3. ConfigInv /\ ChangeInv => ChangesApplied
  <2> SUFFICES ASSUME ConfigInv, ChangeInv, ~troubled, wanted > 1, mailbox = 0, Active = {}
               PROVE  stored = wanted /\ applied = wanted
    BY DEF ChangesApplied
  <2>1. stage[Listener] = "idle"
    BY DEF Active, Syncer
  <2> QED BY <2>1 DEF ChangeInv, Underway
<1> QED BY <1>1, <1>2, <1>3, ConfigHolds, PTL DEF ConfigSpec

-----------------------------------------------------------------------------
(* The parts side by side.                                                 *)

\* What moves is a step of one part, and every other part stands still: each part
\* behaves as it does alone.
THEOREM PartsHold ==
  ControlSpec => /\ Spec /\ SecuritySpec /\ RevocationSpec /\ ConfigSpec
                 /\ EventSpec /\ InviteSpec /\ ProvSpec
<1>1. ControlInit => /\ Init /\ SecurityInit /\ RevocationInit /\ ConfigInit
                     /\ EventInit /\ InviteInit /\ ProvInit
  BY DEF ControlInit
<1>2. ASSUME [ControlNext]_<<controlVars, part>>
      PROVE  /\ [Next]_vars /\ [SecurityNext]_securityVars
             /\ [RevocationNext]_revocationVars /\ [ConfigNext]_configVars
             /\ [EventNext]_eventVars /\ [InviteNext]_inviteVars /\ [ProvNext]_provVars
  <2>1. CASE UNCHANGED <<controlVars, part>>
    BY <2>1 DEF controlVars
  <2>2. CASE ControlNext
    BY <2>2, Zenon DEF ControlNext
  <2> QED BY <1>2, <2>1, <2>2
<1> QED BY <1>1, <1>2, PTL DEF ControlSpec, Spec, SecuritySpec, RevocationSpec, ConfigSpec,
          EventSpec, InviteSpec, ProvSpec

\* Every variable of every part stays in its type.
THEOREM TypesHold == ControlSpec => []TypesOK
<1>1. RevocationSpec => []RevocationTypeOK
  <2>1. KafkaInv => RevocationTypeOK
    BY DEF KafkaInv
  <2> QED BY <2>1, KafkaHolds, PTL
<1>2. ConfigSpec => []ConfigTypeOK
  <2>1. ConfigInv => ConfigTypeOK
    BY DEF ConfigInv
  <2> QED BY <2>1, ConfigHolds, PTL
<1>3. EventSpec => []EventTypeOK
  <2>1. EventInv => EventTypeOK
    BY DEF EventInv, EventTypes
  <2> QED BY <2>1, EventsHold, PTL
<1>4. InviteSpec => []InviteTypeOK
  <2>1. InviteInv => InviteTypeOK
    BY DEF InviteInv
  <2> QED BY <2>1, InviteHolds, PTL
<1>5. ProvSpec => []ProvTypeOK
  <2>1. ProvInv => ProvTypeOK
    BY DEF ProvInv
  <2> QED BY <2>1, ProvHolds, PTL
<1>6. /\ TypeOK /\ SecurityTypeOK /\ RevocationTypeOK /\ ConfigTypeOK /\ EventTypeOK
      /\ InviteTypeOK /\ ProvTypeOK
      => TypesOK
  BY DEF TypesOK
<1> QED BY <1>1, <1>2, <1>3, <1>4, <1>5, <1>6, PartsHold, TypeCorrect, SecurityTypeCorrect, PTL

\* Settings are where they should be when nothing is on its way, whatever else
\* the system does.
THEOREM SettingsAreThere == ControlSpec => []SettingsArrive
<1>1. AckedIsApplied /\ CaughtUp /\ ChangesApplied => SettingsArrive
  BY DEF SettingsArrive
<1> QED BY <1>1, PartsHold, AckedApplied, CatchesUp, ChangesArrive, PTL

\* And they come there in their order.
THEOREM CopiesFollow == ControlSpec => CopiesKeepOrder
BY PartsHold, FollowsInOrder, RowsOnlyGoBackForCause, PTL DEF CopiesKeepOrder

\* Suspensions, revocations, identity events, invitations and provisioning keep what
\* they promise, whatever the other parts do.
THEOREM DecisionsHold ==
  ControlSpec => /\ [](SuspensionAgreed /\ RevocationsHold /\ DeliveredOnce /\ LastEventWins
                         /\ InvitationsAccounted)
                 /\ SuspensionSticks /\ EndsProvisioned
BY PartsHold, SuspensionsHold, RevocationsInForce, EventsDelivered, LastEventRules,
   InvitesAccounted, SuspensionsStick, SuccessMeansProvisioned, PTL
=============================================================================
