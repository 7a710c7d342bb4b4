--------------------------- MODULE CredentialCache ---------------------------
(***************************************************************************)
(* The API key of one tenant and provider in ai-core: the row in Postgres, *)
(* its copy in Redis (RedisTtl), a copy in each worker process (LocalTtl), *)
(* the lookups that read and fill the copies, and the two writers of the   *)
(* row: the API commits and then deletes the Redis copy, the sync listener *)
(* deletes it and then commits.  Nobody deletes a worker's copy.  Any call  *)
(* of Redis may fail.                                                      *)
(*                                                                         *)
(* Values are numbered in the order in which they are committed; 0 is "no  *)
(* active key", which is never cached.  Bound on time: a lookup overlaps   *)
(* at most one tick.                                                       *)
(***************************************************************************)
EXTENDS Integers

CONSTANTS
  Worker,      \* processes of ai-core
  Lookup,      \* concurrent executions of _lookup_credentials
  Home,        \* Home[l]: the worker that runs lookup l
  RedisTtl,    \* ticks a copy in Redis lives (300 s)
  LocalTtl,    \* ticks a worker's copy lives (30 s)
  MaxVersion,  \* bound: values committed
  SyncOnly     \* TRUE: keys change through the sync listener alone

ASSUME CacheAssumption ==
  /\ Home \in [Lookup -> Worker]
  /\ RedisTtl \in Nat \ {0} /\ LocalTtl \in Nat \ {0}
  /\ MaxVersion \in Nat
  /\ SyncOnly \in BOOLEAN

VARIABLES
  db, fresh,    \* the committed value; the newest value there has been
  rval, rttl,   \* the copy in Redis and its remaining life, 0 absent
  lval, lttl,   \* a worker's copy and its remaining life, 0 expired
  pc, got,      \* where a lookup is, and the value it holds
  late,         \* 1 when a tick has passed since the lookup began
  api, sync,    \* the writers: "idle", "delete", "commit"
  retired,      \* history: ticks since a value was replaced, saturating
  oldest        \* history: the largest such age of an answer, but for those
                \* given because Redis failed

row    == <<db, fresh>>
shared == <<rval, rttl>>
local  == <<lval, lttl>>
reader == <<pc, got, late>>
writer == <<api, sync>>
vars   == <<db, fresh, rval, rttl, lval, lttl, pc, got, late, api, sync,
            retired, oldest>>

Values == 0..MaxVersion
MaxAge == RedisTtl + LocalTtl + 1     \* bound: ages saturate here

Init ==
  /\ db = 0 /\ fresh = 0
  /\ rval = 0 /\ rttl = 0
  /\ lval = [w \in Worker |-> 0] /\ lttl = [w \in Worker |-> 0]
  /\ pc = [l \in Lookup |-> "idle"] /\ got = [l \in Lookup |-> 0]
  /\ late = [l \in Lookup |-> 0]
  /\ api = "idle" /\ sync = "idle"
  /\ retired = [v \in Values |-> 0] /\ oldest = 0

-----------------------------------------------------------------------------
(* _lookup_credentials.                                                    *)

Goto(l, here, next) == pc[l] = here /\ pc' = [pc EXCEPT ![l] = next]

Answer(v) == oldest' = IF retired[v] > oldest THEN retired[v] ELSE oldest

MutLocalHit(l) ==
  /\ pc[l] = "idle" /\ lval[Home[l]] # 0
  /\ Answer(lval[Home[l]])
  /\ UNCHANGED <<row, shared, local, reader, writer, retired>>

LocalHit(l) ==
  /\ pc[l] = "idle" /\ lttl[Home[l]] > 0
  /\ Answer(lval[Home[l]])
  /\ UNCHANGED <<row, shared, local, reader, writer, retired>>

LocalMiss(l) ==
  /\ Goto(l, "idle", "get") /\ lttl[Home[l]] = 0
  /\ late' = [late EXCEPT ![l] = 0]
  /\ UNCHANGED <<row, shared, local, got, writer, retired, oldest>>

RedisHit(l) ==
  /\ Goto(l, "get", "fill") /\ rttl > 0
  /\ got' = [got EXCEPT ![l] = rval]
  /\ UNCHANGED <<row, shared, local, late, writer, retired, oldest>>

RedisMiss(l) ==
  /\ Goto(l, "get", "query") /\ rttl = 0
  /\ UNCHANGED <<row, shared, local, got, late, writer, retired, oldest>>

\* The GET throws: the worker's copy is the answer, however old, and oldest does
\* not count it; a worker that never had a copy asks Postgres.
RedisFails(l) ==
  /\ Goto(l, "get", IF lval[Home[l]] # 0 THEN "idle" ELSE "query")
  /\ UNCHANGED <<row, shared, local, got, late, writer, retired, oldest>>

\* The local copy expires LocalTtl after the lookup began, not after now.
FillLocal(l) ==
  /\ lval' = [lval EXCEPT ![Home[l]] = got[l]]
  /\ lttl' = [lttl EXCEPT ![Home[l]] = LocalTtl - late[l]]

Fill(l) ==
  /\ Goto(l, "fill", "idle")
  /\ FillLocal(l) /\ Answer(got[l])
  /\ UNCHANGED <<row, shared, got, late, writer, retired>>

Query(l) ==
  /\ Goto(l, "query", "store") /\ db # 0
  /\ got' = [got EXCEPT ![l] = db]
  /\ UNCHANGED <<row, shared, local, late, writer, retired, oldest>>

\* No active row, or the query throws: no credentials, and nothing is cached.
QueryNone(l) ==
  /\ Goto(l, "query", "idle")
  /\ UNCHANGED <<row, shared, local, got, late, writer, retired, oldest>>

Store(l) ==
  /\ Goto(l, "store", "setex")
  /\ FillLocal(l)
  /\ UNCHANGED <<row, shared, got, late, writer, retired, oldest>>

\* The SETEX fails or not; the lookup answers all the same.
Setex(l) ==
  /\ Goto(l, "setex", "idle")
  /\ Answer(got[l])
  /\ \/ rval' = got[l] /\ rttl' = RedisTtl
     \/ UNCHANGED shared
  /\ UNCHANGED <<row, local, got, late, writer, retired>>

-----------------------------------------------------------------------------
(* The writers.                                                            *)

\* A new key is committed, or the row is deactivated.
CommitRow ==
  /\ \/ fresh < MaxVersion /\ fresh' = fresh + 1 /\ db' = fresh + 1
     \/ db' = 0 /\ UNCHANGED fresh
  /\ retired' = [retired EXCEPT ![db'] = 0]

DeleteCopy == rval' = 0 /\ rttl' = 0

ApiCommit ==
  /\ ~SyncOnly /\ api = "idle"
  /\ CommitRow
  /\ api' = "delete"
  /\ UNCHANGED <<shared, local, reader, sync, oldest>>

\* When the DELETE throws the request fails with the row committed.
ApiDelete ==
  /\ api = "delete"
  /\ \/ DeleteCopy
     \/ UNCHANGED shared
  /\ api' = "idle"
  /\ UNCHANGED <<row, local, reader, sync, retired, oldest>>

\* When the DELETE throws the listener abandons the message: nothing changes.
SyncDelete ==
  /\ sync = "idle"
  /\ DeleteCopy
  /\ sync' = "commit"
  /\ UNCHANGED <<row, local, reader, api, retired, oldest>>

\* A later key's DELETE, or the commit, may throw: the transaction is gone.
SyncCommit ==
  /\ sync = "commit"
  /\ CommitRow \/ UNCHANGED <<row, retired>>
  /\ sync' = "idle"
  /\ UNCHANGED <<shared, local, reader, api, oldest>>

MutSub(n) == n - 1
Sub(n) == IF n > 0 THEN n - 1 ELSE 0

Older(v) ==
  IF v = db \/ v > fresh \/ retired[v] = MaxAge THEN retired[v] ELSE retired[v] + 1

Tick ==
  /\ \A l \in Lookup : pc[l] # "idle" => late[l] = 0
  /\ rttl' = Sub(rttl) /\ rval' = IF rttl' = 0 THEN 0 ELSE rval
  /\ lttl' = [w \in Worker |-> Sub(lttl[w])]
  /\ late' = [l \in Lookup |-> IF pc[l] = "idle" THEN 0 ELSE 1]
  /\ retired' = [v \in Values |-> Older(v)]
  /\ UNCHANGED <<row, lval, pc, got, writer, oldest>>

-----------------------------------------------------------------------------
Look(l) ==
  \/ LocalHit(l) \/ LocalMiss(l)
  \/ RedisHit(l) \/ RedisMiss(l) \/ RedisFails(l) \/ Fill(l)
  \/ Query(l) \/ QueryNone(l) \/ Store(l) \/ Setex(l)

Next ==
  \/ \E l \in Lookup : Look(l)
  \/ ApiCommit \/ ApiDelete \/ SyncDelete \/ SyncCommit
  \/ Tick

Spec == Init /\ [][Next]_vars

-----------------------------------------------------------------------------
(* Properties.                                                             *)

TypeOK ==
  /\ db \in Values /\ fresh \in Values /\ db <= fresh
  /\ rval \in Values /\ rttl \in 0..RedisTtl
  /\ lval \in [Worker -> Values] /\ lttl \in [Worker -> 0..LocalTtl]
  /\ pc \in [Lookup -> {"idle", "get", "fill", "query", "store", "setex"}]
  /\ got \in [Lookup -> Values] /\ late \in [Lookup -> 0..1]
  /\ api \in {"idle", "delete"} /\ sync \in {"idle", "commit"}
  /\ retired \in [Values -> 0..MaxAge] /\ oldest \in 0..MaxAge

\* A worker's copy never outlives the key it copies by more than both lives
\* together, though a lookup may put a replaced key back into Redis after it
\* was deleted there, and another worker may copy it at the last moment.
StalenessBounded ==
  \A w \in Worker : lttl[w] > 0 => retired[lval[w]] + lttl[w] <= RedisTtl + LocalTtl

\* No lookup answers with a key replaced longer ago than that, whatever calls of
\* Redis have failed, unless it is its own GET that failed.
AnswersBounded == oldest <= RedisTtl + LocalTtl

\* Both: what is old is in no copy and in no answer.
AgesBounded == StalenessBounded /\ AnswersBounded

\* What the design says of a synchronised change: the Redis copy is gone when
\* the writers are done, so the next request that looks there is refreshed.
ReloadInvalidates ==
  api = "idle" /\ sync = "idle" /\ rttl > 0 => rval = db
=============================================================================
