---------------------------- MODULE EventForwarding ----------------------------
(***************************************************************************)
(* The identity events of one user on their way from Keycloak to the users *)
(* table: the pub/sub channel auth.user.events, the sync worker's          *)
(* forward_user_event_to_service, the topic auth.events.user or the        *)
(* webhook, and handleWebhookEvent of the user service.                    *)
(*                                                                         *)
(* Records carry no partition key, so the topic is a set: they come out in *)
(* any order.  A send that has timed out may still reach the topic.        *)
(***************************************************************************)
EXTENDS Integers, Sequences

CONSTANTS
  MaxEvents,    \* bound: events of the user
  MaxTroubles   \* bound: failures, time-outs, deaths of the worker

ASSUME ForwardingAssumption == MaxEvents \in Nat /\ MaxTroubles \in Nat

NoEvent == 0

VARIABLES
  events,      \* what Keycloak has done, in order
  pubsub,      \* events waiting in the worker's subscription
  carried,     \* the event the worker forwards
  leg,         \* "wait", "kafka", "http"
  overdue,     \* events whose send timed out and may still arrive
  records,     \* events in the topic
  person,      \* users.status
  uses,        \* per event: how often the handler has applied it
  dropped,     \* history: events that a failure or a death took away
  again,       \* history: events whose send timed out, or that were delivered again
  shuffled,    \* history: an event was applied while an older one was on its way
  troubles

eventVars == <<events, pubsub, carried, leg, overdue, records, person, uses, dropped,
               again, shuffled, troubles>>

Event == 1..Len(events)
Trouble == troubles < MaxTroubles /\ troubles' = troubles + 1

StatusAfter == [verified |-> "ACTIVE", disabled |-> "SUSPENDED", deleted |-> "DELETED"]

EventInit ==
  /\ events = <<>> /\ pubsub = <<>> /\ carried = NoEvent /\ leg = "wait"
  /\ overdue = {} /\ records = {}
  /\ person = "PENDING" /\ uses = [i \in 1..MaxEvents |-> 0]
  /\ dropped = {} /\ again = {} /\ shuffled = FALSE /\ troubles = 0

-----------------------------------------------------------------------------
(* Keycloak and the worker.                                                *)

\* Nobody hears of it while the worker is down.
Happens(kind) ==
  /\ Len(events) < MaxEvents
  /\ \A i \in Event : events[i] # "deleted"
  /\ events' = Append(events, kind)
  /\ \/ pubsub' = Append(pubsub, Len(events')) /\ UNCHANGED <<dropped, troubles>>
     \/ Trouble /\ dropped' = dropped \union {Len(events')} /\ UNCHANGED pubsub
  /\ UNCHANGED <<carried, leg, overdue, records, person, uses, again, shuffled>>

\* A worker that takes the newest message first.
MutTakeEvent ==
  /\ leg = "wait" /\ pubsub # <<>>
  /\ carried' = pubsub[Len(pubsub)] /\ leg' = "kafka"
  /\ pubsub' = SubSeq(pubsub, 1, Len(pubsub) - 1)
  /\ UNCHANGED <<events, overdue, records, person, uses, dropped, again, shuffled, troubles>>

TakeEvent ==
  /\ leg = "wait" /\ pubsub # <<>>
  /\ carried' = Head(pubsub) /\ leg' = "kafka"
  /\ pubsub' = Tail(pubsub)
  /\ UNCHANGED <<events, overdue, records, person, uses, dropped, again, shuffled, troubles>>

Forwarded == carried' = NoEvent /\ leg' = "wait"

KafkaTakes ==
  /\ leg = "kafka" /\ Forwarded
  /\ records' = records \union {carried}
  /\ UNCHANGED <<events, pubsub, overdue, person, uses, dropped, again, shuffled, troubles>>

\* Without the webhook.
MutFallBack == Forwarded
FallBack == leg' = "http" /\ UNCHANGED carried

\* future.get raised: the send failed, or it did not end in 3 s.
KafkaFails ==
  /\ leg = "kafka" /\ Trouble /\ FallBack
  /\ \/ UNCHANGED <<overdue, again>>
     \/ overdue' = overdue \union {carried} /\ again' = again \union {carried}
  /\ UNCHANGED <<events, pubsub, records, person, uses, dropped, shuffled>>

LateSend(i) ==
  /\ i \in overdue
  /\ overdue' = overdue \ {i}
  /\ records' \in {records, records \union {i}}
  /\ UNCHANGED <<events, pubsub, carried, leg, person, uses, dropped, again, shuffled, troubles>>

-----------------------------------------------------------------------------
(* handleWebhookEvent.                                                     *)

Applied(i) ==
  /\ person' = StatusAfter[events[i]]
  /\ uses' = [uses EXCEPT ![i] = uses[i] + 1]
  /\ shuffled' = (shuffled \/ \E j \in records \union overdue : j < i)

WebhookTakes ==
  /\ leg = "http" /\ Forwarded
  /\ Applied(carried)
  /\ UNCHANGED <<events, pubsub, overdue, records, dropped, again, troubles>>

\* A webhook that fails is not called again: the error is logged.
WebhookFails ==
  /\ leg = "http" /\ Trouble /\ Forwarded
  /\ dropped' = dropped \union {carried}
  /\ UNCHANGED <<events, pubsub, overdue, records, person, uses, again, shuffled>>

Consumes(i) ==
  /\ i \in records
  /\ Applied(i)
  /\ records' = records \ {i}
  /\ UNCHANGED <<events, pubsub, carried, leg, overdue, dropped, again, troubles>>

\* The consumer dies between the update and its offset's commit.
ConsumesAgain(i) ==
  /\ i \in records /\ Trouble
  /\ Applied(i)
  /\ again' = again \union {i}
  /\ UNCHANGED <<events, pubsub, carried, leg, overdue, records, dropped>>

\* The Kafka controller catches what the handler throws.
ConsumeThrows(i) ==
  /\ i \in records /\ Trouble
  /\ records' = records \ {i} /\ dropped' = dropped \union {i}
  /\ UNCHANGED <<events, pubsub, carried, leg, overdue, person, uses, again, shuffled>>

InHand == {carried} \ {NoEvent}

\* The worker's subscription, its event and its producer's buffer go with it.
WorkerDies ==
  /\ Trouble /\ Forwarded
  /\ pubsub' = <<>> /\ overdue' = {}
  /\ dropped' = dropped \union {pubsub[k] : k \in DOMAIN pubsub} \union InHand
  /\ UNCHANGED <<events, records, person, uses, again, shuffled>>

-----------------------------------------------------------------------------
EventNext ==
  \/ \E kind \in DOMAIN StatusAfter : Happens(kind)
  \/ TakeEvent \/ KafkaTakes \/ KafkaFails \/ WebhookTakes \/ WebhookFails \/ WorkerDies
  \/ \E i \in Event : LateSend(i) \/ Consumes(i) \/ ConsumesAgain(i) \/ ConsumeThrows(i)

EventSpec == EventInit /\ [][EventNext]_eventVars

-----------------------------------------------------------------------------
(* Properties.                                                             *)

EventTypeOK ==
  /\ events \in Seq(DOMAIN StatusAfter) /\ pubsub \in Seq(Event)
  /\ carried \in Event \union {NoEvent} /\ leg \in {"wait", "kafka", "http"}
  /\ overdue \subseteq Event /\ records \subseteq Event
  /\ person \in {"PENDING", "ACTIVE", "SUSPENDED", "DELETED"}
  /\ uses \in [1..MaxEvents -> Nat]
  /\ dropped \subseteq Event /\ again \subseteq Event /\ shuffled \in BOOLEAN
  /\ troubles \in 0..MaxTroubles

\* An event is applied at most once, unless its send timed out and both the topic
\* and the webhook got it, or the consumer died before it committed.
AppliedOnce == \A i \in Event : uses[i] > 1 => i \in again

EventsAtRest == pubsub = <<>> /\ carried = NoEvent /\ overdue = {} /\ records = {}

\* Every event is applied, or a failure took it: its webhook's, its handler's, or
\* the worker's death.
DroppedForCause == EventsAtRest => \A i \in Event : uses[i] > 0 \/ i \in dropped

\* Both: what is lost or applied twice is accounted for.
DeliveredOnce == AppliedOnce /\ DroppedForCause

\* When everything has arrived, the user's status is that of the last event,
\* unless an event was dropped or overtook an older one, in the topic or by the
\* webhook: the worker itself forwards events in their order.
LastEventWins ==
  EventsAtRest /\ dropped = {} /\ ~shuffled /\ events # <<>>
    => person = StatusAfter[events[Len(events)]]
=============================================================================
