------------------------------- MODULE ConfigSync -------------------------------
(***************************************************************************)
(* How ai-core copies one tenant's configuration from the Tenant Config    *)
(* Service into its database and its cost limits into Redis:               *)
(* fetch_and_sync_config, run by the listener of config.updates, one       *)
(* message after the other, and by a background task of each gateway that  *)
(* finds no limits (_trigger_background_sync).                             *)
(*                                                                         *)
(* Configurations are numbered in the order in which the service stored    *)
(* them; 0 stands for the defaults that a fetch which failed every time    *)
(* leaves: default routes, no MCP server, no limit.                        *)
(*                                                                         *)
(* The rows of a tenant are taken as one.  SQLAlchemy writes a row only if *)
(* it differs from what the session has read.                              *)
(***************************************************************************)
EXTENDS Integers

CONSTANTS
  Background,   \* gateways that may start a background synchronisation
  MaxWanted,    \* bound: changes of the configuration
  MaxTries,     \* attempts of a fetch (4)
  MaxLosses     \* bound: losses of the limits, deaths of the listener or the process

Listener == "listener"
ASSUME ConfigAssumption ==
  /\ Listener \notin Background
  /\ MaxWanted \in Nat \ {0} /\ MaxTries \in Nat \ {0} /\ MaxLosses \in Nat

Syncer == Background \union {Listener}
Nothing == -1

VARIABLES
  wanted,       \* the service's configuration
  listening,    \* the listener's loop runs, and is subscribed
  mailbox,      \* messages that wait for it
  stage,        \* per synchronisation: "idle", "fetch", "load", "commit", "limits"
  tries,        \* failed attempts of its fetch
  fetched,      \* what it fetched
  base,         \* the row as it read it
  stored,       \* the row, Nothing before the first
  applied,      \* tenant:<id>:limits in Redis, Nothing when absent
  crossed,      \* history: another synchronisation has run at the same time
  troubled,     \* history: since the last change, see Announced
  losses

syncState  == <<stage, tries, fetched, base, crossed>>
configVars == <<wanted, listening, mailbox, stage, tries, fetched, base, crossed, stored,
                applied, troubled, losses>>

Active == {s \in Syncer : stage[s] # "idle"}

ConfigInit ==
  /\ wanted = 1 /\ listening = TRUE /\ mailbox = 0
  /\ stage = [s \in Syncer |-> "idle"] /\ tries = [s \in Syncer |-> 0]
  /\ fetched = [s \in Syncer |-> Nothing] /\ base = [s \in Syncer |-> Nothing]
  /\ crossed = [s \in Syncer |-> FALSE]
  /\ stored = Nothing /\ applied = Nothing
  /\ troubled = FALSE /\ losses = 0

-----------------------------------------------------------------------------
(* Where synchronisations come from.                                       *)

\* Pub/sub reaches a listener that is subscribed, or nobody.
Announced ==
  /\ wanted < MaxWanted /\ wanted' = wanted + 1
  /\ mailbox' = IF listening THEN mailbox + 1 ELSE mailbox
  /\ troubled' = (~listening \/ Active \ {Listener} # {})
  /\ UNCHANGED <<listening, syncState, stored, applied, losses>>

Opens(s) ==
  /\ stage[s] = "idle"
  /\ stage' = [stage EXCEPT ![s] = "fetch"]
  /\ crossed' = [u \in Syncer |->
                   IF u = s THEN Active # {} ELSE crossed[u] \/ u \in Active]
  /\ troubled' = (troubled \/ Active # {})
  /\ UNCHANGED <<tries, fetched, base>>

Receive ==
  /\ listening /\ mailbox > 0
  /\ mailbox' = mailbox - 1
  /\ Opens(Listener)
  /\ UNCHANGED <<wanted, listening, stored, applied, losses>>

\* A request found no limits; _active_sync_tasks admits one task per gateway.
BackgroundSync(g) ==
  /\ applied = Nothing
  /\ Opens(g)
  /\ UNCHANGED <<wanted, listening, mailbox, stored, applied, losses>>

-----------------------------------------------------------------------------
(* fetch_and_sync_config.                                                  *)

Ended(s) ==
  /\ stage' = [stage EXCEPT ![s] = "idle"] /\ tries' = [tries EXCEPT ![s] = 0]
  /\ fetched' = [fetched EXCEPT ![s] = Nothing] /\ base' = [base EXCEPT ![s] = Nothing]
  /\ crossed' = [crossed EXCEPT ![s] = FALSE]

\* Answers that a cache gives may be old.
MutAnswers == {v \in 1..MaxWanted : v <= wanted}
Answers == {wanted}

Fetch(s) ==
  /\ stage[s] = "fetch"
  /\ \E v \in Answers : fetched' = [fetched EXCEPT ![s] = v]
  /\ stage' = [stage EXCEPT ![s] = "load"]
  /\ UNCHANGED <<wanted, listening, mailbox, tries, base, crossed, stored, applied, troubled,
                 losses>>

\* The last attempt has failed: "Using defaults".
GivesUp(s) == fetched' = [fetched EXCEPT ![s] = 0]

LastTry(s) == tries[s] + 1 = MaxTries

FetchFails(s) ==
  /\ stage[s] = "fetch"
  /\ IF LastTry(s)
     THEN /\ GivesUp(s) /\ troubled' = TRUE
          /\ stage' = [stage EXCEPT ![s] = "load"] /\ UNCHANGED tries
     ELSE /\ tries' = [tries EXCEPT ![s] = tries[s] + 1]
          /\ UNCHANGED <<fetched, stage, troubled>>
  /\ UNCHANGED <<wanted, listening, mailbox, base, crossed, stored, applied, losses>>

\* The session reads the row, sets it, and deletes the copies in Redis.
Load(s) ==
  /\ stage[s] = "load"
  /\ base' = [base EXCEPT ![s] = stored]
  /\ stage' = [stage EXCEPT ![s] = "commit"]
  /\ UNCHANGED <<wanted, listening, mailbox, tries, fetched, crossed, stored, applied, troubled,
                 losses>>

Row(s) == IF base[s] = fetched[s] THEN stored ELSE fetched[s]

\* The second of two sessions that both found no row breaks the unique key.
CommitRows(s) ==
  /\ stage[s] = "commit" /\ (base[s] = Nothing => stored = Nothing)
  /\ stored' = Row(s)
  /\ stage' = [stage EXCEPT ![s] = "limits"]
  /\ UNCHANGED <<wanted, listening, mailbox, tries, fetched, base, crossed, applied, troubled,
                 losses>>

\* Redis or the database failed: the caller logs the exception.
SyncFails(s) ==
  /\ stage[s] \in {"load", "commit", "limits"} /\ Ended(s)
  /\ troubled' = TRUE
  /\ UNCHANGED <<wanted, listening, mailbox, stored, applied, losses>>

\* A listener that drops the messages that came while it was busy.
MutWriteLimits(s) ==
  /\ stage[s] = "limits" /\ Ended(s)
  /\ applied' = fetched[s] /\ mailbox' = 0
  /\ UNCHANGED <<wanted, listening, stored, troubled, losses>>

WriteLimits(s) ==
  /\ stage[s] = "limits" /\ Ended(s)
  /\ applied' = fetched[s]
  /\ UNCHANGED <<wanted, listening, mailbox, stored, troubled, losses>>

-----------------------------------------------------------------------------
(* Losses.                                                                 *)

Loss == losses < MaxLosses /\ losses' = losses + 1 /\ troubled' = TRUE

\* get_message raised: the loop ends, unsubscribed, for as long as the process
\* lives.
ListenerDies ==
  /\ listening /\ stage[Listener] = "idle" /\ Loss
  /\ listening' = FALSE /\ mailbox' = 0
  /\ UNCHANGED <<wanted, syncState, stored, applied>>

ProcessRestarts ==
  /\ Loss
  /\ listening' = TRUE /\ mailbox' = 0
  /\ stage' = [s \in Syncer |-> "idle"] /\ tries' = [s \in Syncer |-> 0]
  /\ fetched' = [s \in Syncer |-> Nothing] /\ base' = [s \in Syncer |-> Nothing]
  /\ crossed' = [s \in Syncer |-> FALSE]
  /\ UNCHANGED <<wanted, stored, applied>>

\* Redis comes back without its data.
LimitsLost ==
  /\ applied # Nothing /\ Loss
  /\ applied' = Nothing
  /\ UNCHANGED <<wanted, listening, mailbox, syncState, stored>>

-----------------------------------------------------------------------------
Progresses(s) ==
  Fetch(s) \/ FetchFails(s) \/ Load(s) \/ CommitRows(s) \/ SyncFails(s) \/ WriteLimits(s)

ConfigNext ==
  \/ Announced \/ Receive \/ ListenerDies \/ ProcessRestarts \/ LimitsLost
  \/ \E g \in Background : BackgroundSync(g)
  \/ \E s \in Syncer : Progresses(s)

ConfigSpec == ConfigInit /\ [][ConfigNext]_configVars

\* The event loop runs every coroutine, and a wait for an answer times out.
ConfigFairness ==
  /\ WF_configVars(Receive)
  /\ \A s \in Syncer : WF_configVars(Progresses(s))

-----------------------------------------------------------------------------
(* Properties.                                                             *)

ConfigTypeOK ==
  /\ wanted \in 1..MaxWanted /\ listening \in BOOLEAN /\ mailbox \in 0..MaxWanted
  /\ stage \in [Syncer -> {"idle", "fetch", "load", "commit", "limits"}]
  /\ tries \in [Syncer -> 0..(MaxTries - 1)]
  /\ fetched \in [Syncer -> 0..MaxWanted \union {Nothing}]
  /\ base \in [Syncer -> 0..MaxWanted \union {Nothing}]
  /\ stored \in 0..MaxWanted \union {Nothing} /\ applied \in 0..MaxWanted \union {Nothing}
  /\ crossed \in [Syncer -> BOOLEAN] /\ troubled \in BOOLEAN /\ losses \in 0..MaxLosses

\* The rows go back to an older configuration than they held only by a
\* synchronisation that gave up fetching, or that ran at the same time as another.
RowsGoBackForCause ==
  [][stored' < stored
       => \E s \in Syncer : stage[s] = "commit" /\ stage'[s] = "limits"
                            /\ (fetched[s] = 0 \/ crossed[s])]_configVars

\* When no message waits and no synchronisation runs, the rows and the limits are
\* the last change's, under the conditions of LastChangeApplied: a change that came
\* while the listener was busy, or while a gateway synchronised, is not forgotten.
ChangesApplied ==
  ~troubled /\ wanted > 1 /\ mailbox = 0 /\ Active = {}
    => stored = wanted /\ applied = wanted

\* The last change reaches the rows and the limits, if the listener lived, no
\* synchronisation failed and none ran at the same time since it was announced:
\* changes that come while the listener is busy are not lost.
LastChangeApplied ==
  <>[](troubled \/ wanted = 1 \/ (stored = wanted /\ applied = wanted))
=============================================================================
