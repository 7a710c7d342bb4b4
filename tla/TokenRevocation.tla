--------------------------- MODULE TokenRevocation ---------------------------
(***************************************************************************)
(* Revoking access tokens: the Kafka topic token.revoked, the auth sync    *)
(* worker that consumes it (and a pub/sub channel of the same name), and   *)
(* the gateway's blacklist of token ids in Redis.                          *)
(*                                                                         *)
(* One poll hands the worker every record there is and moves the           *)
(* consumer's position past all of them; commit() commits the position,    *)
(* not the record just handled.                                            *)
(*                                                                         *)
(* Time runs in ticks of 1/Second seconds.  Redis takes whole seconds and  *)
(* the worker truncates, so an entry lives for the whole seconds left of   *)
(* its token.                                                              *)
(***************************************************************************)
EXTENDS Integers, Sequences

CONSTANTS
  Token,       \* the ids (jti) of tokens in circulation
  TokenLife,        \* ticks a token lives
  Second,      \* ticks in a second
  MaxKafkaFaults,   \* bound: failed calls to Redis or Kafka
  MaxCrashes   \* bound: deaths of the worker

ASSUME RevocationAssumption ==
  /\ TokenLife \in Nat /\ Second \in Nat \ {0}
  /\ MaxKafkaFaults \in Nat /\ MaxCrashes \in Nat

VARIABLES
  life,        \* life[t]: ticks before token t expires
  blocked,     \* blocked[t]: ticks before blacklist:jti:t expires, 0 absent
  topic,       \* the records of the topic
  committed,   \* the group's committed offset
  position,    \* the consumer's position
  batch,       \* offsets polled and not yet handled, in order
  polling,     \* "down", "poll", "record", "commit"
  handled,     \* history: offsets the worker has dealt with
  trouble,     \* history: a batch was cut short: "none", "cut"
  kafkaFaults, crashes

revocationVars ==
  <<life, blocked, topic, committed, position, batch, polling, handled, trouble,
    kafkaFaults, crashes>>

KafkaFault == kafkaFaults < MaxKafkaFaults /\ kafkaFaults' = kafkaFaults + 1

RevocationInit ==
  /\ life = [t \in Token |-> TokenLife] /\ blocked = [t \in Token |-> 0]
  /\ topic = <<>> /\ committed = 0 /\ position = 0 /\ batch = <<>>
  /\ polling = "down" /\ handled = {} /\ trouble = "none"
  /\ kafkaFaults = 0 /\ crashes = 0

Revoked(t) == \E i \in 1..Len(topic) : topic[i] = t

\* A revocation is published, once per token.
Revoke(t) ==
  /\ ~Revoked(t)
  /\ topic' = Append(topic, t)
  /\ UNCHANGED <<life, blocked, committed, position, batch, polling, handled,
                 trouble,
                 kafkaFaults, crashes>>

MutStart ==
  /\ polling = "down"
  /\ polling' = "poll" /\ position' = Len(topic)
  /\ UNCHANGED <<life, blocked, topic, committed, batch, handled, trouble,
                 kafkaFaults, crashes>>

Start ==
  /\ polling = "down"
  /\ polling' = "poll" /\ position' = committed
  /\ UNCHANGED <<life, blocked, topic, committed, batch, handled, trouble,
                 kafkaFaults, crashes>>

Poll ==
  /\ polling = "poll" /\ position < Len(topic)
  /\ batch' = [i \in 1..(Len(topic) - position) |-> position + i]
  /\ position' = Len(topic)
  /\ polling' = "record"
  /\ UNCHANGED <<life, blocked, topic, committed, handled, trouble, kafkaFaults,
                 crashes>>

\* int(exp - now): the whole seconds left.
Ttl(t) == life[t] - (life[t] % Second)

\* SETEX when a whole second is left; the entry it replaces is forgotten.
Handle(t) == blocked' = [blocked EXCEPT ![t] = IF Ttl(t) > 0 THEN Ttl(t) ELSE @]

HandleRecord ==
  /\ polling = "record"
  /\ Handle(topic[Head(batch)])
  /\ handled' = handled \union {Head(batch)}
  /\ batch' = Tail(batch)
  /\ polling' = "commit"
  /\ UNCHANGED <<life, topic, committed, position, trouble, kafkaFaults, crashes>>

CommitOffset ==
  /\ polling = "commit"
  /\ committed' = position
  /\ polling' = IF batch = <<>> THEN "poll" ELSE "record"
  /\ UNCHANGED <<life, blocked, topic, position, batch, handled, trouble,
                 kafkaFaults, crashes>>

\* The SETEX or the commit throws: the rest of the batch is abandoned, the
\* consumer's position is past it.
CutBatch ==
  /\ polling \in {"record", "commit"} /\ KafkaFault
  /\ trouble' = IF batch = <<>> THEN trouble ELSE "cut"
  /\ batch' = <<>> /\ polling' = "poll"
  /\ UNCHANGED <<life, blocked, topic, committed, position, handled, crashes>>

Crash ==
  /\ polling # "down" /\ crashes < MaxCrashes
  /\ crashes' = crashes + 1
  /\ trouble' = IF batch = <<>> THEN trouble ELSE "cut"
  /\ batch' = <<>> /\ polling' = "down"
  /\ UNCHANGED <<life, blocked, topic, committed, position, handled, kafkaFaults>>

\* The same revocation may come over Redis pub/sub while the worker polls it.
ChannelMessage(t) ==
  /\ polling = "poll" /\ Revoked(t)
  /\ Handle(t)
  /\ UNCHANGED <<life, topic, committed, position, batch, polling, handled, trouble,
                 kafkaFaults, crashes>>

Dec(n) == IF n > 0 THEN n - 1 ELSE 0

TokenTick ==
  /\ \E t \in Token : life[t] > 0
  /\ life' = [t \in Token |-> Dec(life[t])]
  /\ blocked' = [t \in Token |-> Dec(blocked[t])]
  /\ UNCHANGED <<topic, committed, position, batch, polling, handled, trouble,
                 kafkaFaults, crashes>>

RevocationNext ==
  \/ Start \/ Poll \/ HandleRecord \/ CommitOffset \/ CutBatch \/ Crash \/ TokenTick
  \/ \E t \in Token : Revoke(t) \/ ChannelMessage(t)

RevocationSpec == RevocationInit /\ [][RevocationNext]_revocationVars

-----------------------------------------------------------------------------
(* Properties.                                                             *)

RevocationTypeOK ==
  /\ life \in [Token -> 0..TokenLife] /\ blocked \in [Token -> 0..TokenLife]
  /\ topic \in Seq(Token)
  /\ committed \in 0..Len(topic) /\ position \in 0..Len(topic)
  /\ batch \in Seq(1..Len(topic))
  /\ polling \in {"down", "poll", "record", "commit"}
  /\ handled \subseteq 1..Len(topic)
  /\ trouble \in {"none", "cut"}
  /\ kafkaFaults \in 0..MaxKafkaFaults /\ crashes \in 0..MaxCrashes

Pending == {batch[i] : i \in 1..Len(batch)}

\* Committing past a revocation loses it at a restart, so the offset must not
\* pass one that has not been dealt with: what manual commits are there for.
NoRevocationSkipped ==
  polling \in {"down", "poll"} => 1..committed \subseteq handled

\* The same, as far as the code gets: while no batch was cut short in the
\* middle, only records still in the worker's hands are committed too early.
SkippedOnlyAfterTrouble ==
  trouble = "none" => 1..committed \subseteq handled \union Pending

\* From the moment the worker handled a revocation the gateway refuses the
\* token until less than a second is left of it, replays notwithstanding.
RevokedStaysBlocked ==
  \A i \in handled : life[topic[i]] >= Second => blocked[topic[i]] + Second > life[topic[i]]

\* Both: a committed revocation is in force, or about to be, for as long as the
\* token lives, if no batch was cut short.
RevocationsHold == SkippedOnlyAfterTrouble /\ RevokedStaysBlocked
=============================================================================
