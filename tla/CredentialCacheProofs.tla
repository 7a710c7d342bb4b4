------------------------ MODULE CredentialCacheProofs ------------------------
(***************************************************************************)
(* Proofs about what a completion depends on (CredentialCache and          *)
(* McpSessions), for every set of workers, lookups, calls and connections, *)
(* and every life.                                                         *)
(*                                                                         *)
(* The bound on a worker's copy is not inductive: the copy may come from   *)
(* Redis, and Redis may have been filled by a lookup that read Postgres    *)
(* before the last commit.  AgeInv bounds the age of a value wherever it   *)
(* can be on that way, and Outdated does the same for the whitelist of MCP *)
(* servers.  Used says what a call knows of the connection it uses.        *)
(***************************************************************************)
EXTENDS MCCompletion, TLAPS

Current ==
  /\ retired[db] = 0
  /\ \A v \in Values : v > fresh => retired[v] = 0

InRedis == rttl > 0 => retired[rval] + rttl <= RedisTtl + 1

InHand ==
  \A l \in Lookup :
    /\ pc[l] = "fill" => retired[got[l]] <= RedisTtl + late[l]
    /\ pc[l] \in {"store", "setex"} => retired[got[l]] <= late[l]

AgeInv == TypeOK /\ Current /\ InRedis /\ InHand /\ StalenessBounded

\* What a lookup and its worker hold has a type, and so has its age.
LEMMA Held ==
  ASSUME TypeOK, NEW l \in Lookup
  PROVE  /\ Home[l] \in Worker
         /\ lval[Home[l]] \in Values /\ got[l] \in Values
         /\ retired[lval[Home[l]]] \in 0..MaxAge /\ retired[got[l]] \in 0..MaxAge
         /\ late[l] \in 0..1 /\ LocalTtl - late[l] \in 0..LocalTtl
<1>1. Home[l] \in Worker /\ late[l] \in 0..1 /\ got[l] \in Values
  BY CacheAssumption DEF TypeOK
<1>2. lval[Home[l]] \in Values
  BY <1>1 DEF TypeOK
<1>3. LocalTtl - late[l] \in 0..LocalTtl
  BY <1>1, CacheAssumption
<1> QED BY <1>1, <1>2, <1>3 DEF TypeOK

\* Every variable stays in its type, whatever fails.
THEOREM TypeCorrect == Spec => []TypeOK
<1>1. Init => TypeOK
  BY CacheAssumption DEF Init, TypeOK, Values, MaxAge
<1>2. TypeOK /\ [Next]_vars => TypeOK'
  <2> SUFFICES ASSUME TypeOK, [Next]_vars PROVE TypeOK'
    OBVIOUS
  <2> USE CacheAssumption DEF TypeOK, Values, MaxAge, row, shared, local, reader, writer
  <2>1. ASSUME NEW l \in Lookup, Look(l) PROVE TypeOK'
    <3> USE Held DEF Goto, Answer, FillLocal
    <3>1. CASE LocalHit(l) BY <3>1 DEF LocalHit
    <3>2. CASE LocalMiss(l)
      <4>1. late' \in [Lookup -> 0..1] BY <3>2 DEF LocalMiss
      <4> QED BY <3>2, <4>1 DEF LocalMiss
    <3>3. CASE RedisHit(l) BY <3>3 DEF RedisHit
    <3>4. CASE RedisMiss(l) BY <3>4 DEF RedisMiss
    <3>5. CASE RedisFails(l) BY <3>5 DEF RedisFails
    <3>6. CASE Fill(l) BY <3>6 DEF Fill
    <3>7. CASE Query(l) BY <3>7 DEF Query
    <3>8. CASE QueryNone(l) BY <3>8 DEF QueryNone
    <3>9. CASE Store(l) BY <3>9 DEF Store
    <3>10. CASE Setex(l)
      <4>1. rval' \in Values /\ rttl' \in 0..RedisTtl
        <5>1. (rval' = got[l] /\ rttl' = RedisTtl) \/ (rval' = rval /\ rttl' = rttl)
          BY <3>10 DEF Setex
        <5>2. rval \in Values /\ rttl \in 0..RedisTtl OBVIOUS
        <5>3. RedisTtl \in 0..RedisTtl OBVIOUS
        <5> HIDE DEF TypeOK, Values, MaxAge
        <5>4. got[l] \in Values BY Held
        <5> QED BY <5>1, <5>2, <5>3, <5>4
      <4>2. oldest' \in 0..MaxAge BY <3>10 DEF Setex
      <4> QED BY <3>10, <4>1, <4>2 DEF Setex
    <3> QED
      BY <3>1, <3>2, <3>3, <3>4, <3>5, <3>6, <3>7, <3>8, <3>9, <3>10, <2>1 DEF Look
  <2>2. CASE ApiCommit BY <2>2 DEF ApiCommit, CommitRow
  <2>3. CASE ApiDelete BY <2>3 DEF ApiDelete, DeleteCopy
  <2>4. CASE SyncDelete BY <2>4 DEF SyncDelete, DeleteCopy
  <2>5. CASE SyncCommit
    <3>1. /\ db' \in Values /\ fresh' \in Values /\ db' <= fresh'
          /\ retired' \in [Values -> 0..MaxAge]
      <4>1. CASE CommitRow BY <4>1 DEF CommitRow
      <4>2. CASE UNCHANGED <<row, retired>> BY <4>2
      <4> QED BY <2>5, <4>1, <4>2 DEF SyncCommit
    <3> QED BY <2>5, <3>1 DEF SyncCommit
  <2>6. CASE Tick
    <3>1. rval' \in Values /\ rttl' \in 0..RedisTtl BY <2>6 DEF Tick, Sub
    <3>2. lttl' \in [Worker -> 0..LocalTtl] BY <2>6 DEF Tick, Sub
    <3>3. late' \in [Lookup -> 0..1] BY <2>6 DEF Tick
    <3>4. ASSUME NEW v \in Values PROVE Older(v) \in 0..MaxAge
      <4> HIDE DEF MaxAge
      <4>1. MaxAge \in Nat BY DEF MaxAge
      <4>2. retired[v] \in 0..MaxAge OBVIOUS
      <4> QED BY <4>1, <4>2 DEF Older
    <3>5. retired' \in [Values -> 0..MaxAge] BY <2>6, <3>4 DEF Tick
    <3> QED BY <2>6, <3>1, <3>2, <3>3, <3>5 DEF Tick
  <2>7. CASE UNCHANGED vars BY <2>7 DEF vars
  <2> QED BY <2>1, <2>2, <2>3, <2>4, <2>5, <2>6, <2>7 DEF Next
<1> QED BY <1>1, <1>2, PTL DEF Spec

\* Nothing is cached at first.
LEMMA AgeStarts == Init => AgeInv
  BY CacheAssumption
  DEF Init, AgeInv, TypeOK, Current, InRedis, InHand, StalenessBounded, Values,
      MaxAge

\* The ages that InHand bounds, and what a local copy adds to them.
LEMMA HandAge ==
  ASSUME AgeInv, NEW l \in Lookup
  PROVE  /\ pc[l] = "fill" => /\ retired[got[l]] <= RedisTtl + LocalTtl
                             /\ retired[got[l]] + (LocalTtl - late[l])
                                  <= RedisTtl + LocalTtl
         /\ pc[l] \in {"store", "setex"} =>
              /\ retired[got[l]] <= 1
              /\ retired[got[l]] + (LocalTtl - late[l]) <= RedisTtl + LocalTtl
<1> DEFINE a == retired[got[l]]
           s == late[l]
<1>1. a \in Int /\ s \in 0..1
  BY Held DEF AgeInv
<1>2. /\ pc[l] = "fill" => a <= RedisTtl + s
      /\ pc[l] \in {"store", "setex"} => a <= s
  BY DEF AgeInv, InHand
<1>3. RedisTtl \in Int /\ LocalTtl \in Int /\ RedisTtl >= 1 /\ LocalTtl >= 1
  BY CacheAssumption
<1> HIDE DEF a, s
<1>4. a <= RedisTtl + s => a <= RedisTtl + LocalTtl /\ a + (LocalTtl - s) <= RedisTtl + LocalTtl
  BY <1>1, <1>3
<1>5. a <= s => a <= 1 /\ a + (LocalTtl - s) <= RedisTtl + LocalTtl
  BY <1>1, <1>3
<1> QED BY <1>2, <1>4, <1>5 DEF a, s

\* A value ages by one tick at most while every copy of it loses one.
LEMMA AgeTick == AgeInv /\ TypeOK' /\ Tick => AgeInv'
<1> SUFFICES ASSUME AgeInv, TypeOK', Tick PROVE AgeInv'
  OBVIOUS
<1> USE CacheAssumption
    DEF AgeInv, TypeOK, Values, MaxAge, Tick, Sub, Older, row, writer
<1>1. Current' BY DEF Current
<1>2. InRedis' BY DEF InRedis
<1>3. ASSUME NEW l \in Lookup, pc[l] = "fill"
      PROVE  retired'[got[l]] <= RedisTtl + late'[l]
  <2>1. retired[got[l]] <= RedisTtl + late[l] BY <1>3 DEF InHand
  <2>2. late[l] = 0 /\ late'[l] = 1 BY <1>3
  <2>3. got[l] \in Values /\ retired[got[l]] \in Int BY Held
  <2>4. retired'[got[l]] \in {retired[got[l]], retired[got[l]] + 1} BY <2>3
  <2> HIDE DEF AgeInv, TypeOK, Tick
  <2> QED BY <2>1, <2>2, <2>3, <2>4
<1>4. ASSUME NEW l \in Lookup, pc[l] \in {"store", "setex"}
      PROVE  retired'[got[l]] <= late'[l]
  BY <1>4 DEF InHand
<1>5. InHand' BY <1>3, <1>4 DEF InHand
<1>6. ASSUME NEW w \in Worker, lttl'[w] > 0
      PROVE  retired'[lval'[w]] + lttl'[w] <= RedisTtl + LocalTtl
  <2>1. lttl[w] \in Int /\ lttl[w] > 0 /\ lttl'[w] = lttl[w] - 1 /\ lval'[w] = lval[w]
    BY <1>6
  <2>2. lval[w] \in Values /\ retired[lval[w]] \in Int
    OBVIOUS
  <2>3. retired'[lval[w]] \in {retired[lval[w]], retired[lval[w]] + 1}
    BY <2>2
  <2>4. retired[lval[w]] + lttl[w] <= RedisTtl + LocalTtl
    BY <2>1 DEF StalenessBounded
  <2>5. RedisTtl \in Int /\ LocalTtl \in Int
    OBVIOUS
  <2> HIDE DEF AgeInv, TypeOK, Tick
  <2> QED BY <2>1, <2>2, <2>3, <2>4, <2>5
<1>7. StalenessBounded' BY <1>6 DEF StalenessBounded
<1> QED BY <1>1, <1>2, <1>5, <1>7

\* A step of a lookup writes nothing older than the value in its hand.
LEMMA AgeLook == ASSUME AgeInv, NEW l \in Lookup, Look(l) PROVE AgeInv' \/ ~TypeOK'
<1> SUFFICES ASSUME TypeOK' PROVE AgeInv'
  OBVIOUS
<1> USE CacheAssumption, Held
    DEF AgeInv, TypeOK, Current, Values, MaxAge, row, shared, local, reader,
        writer, Goto
<1>1. CASE LocalHit(l)
  BY <1>1 DEF LocalHit, InRedis, InHand, StalenessBounded
<1>2. CASE LocalMiss(l)
  BY <1>2 DEF LocalMiss, InRedis, InHand, StalenessBounded
<1>3. CASE RedisHit(l)
  <2>1. retired[rval] <= RedisTtl
    BY <1>3 DEF RedisHit, InRedis
  <2>2. ASSUME NEW m \in Lookup, pc'[m] = "fill"
        PROVE  retired[got'[m]] <= RedisTtl + late[m]
    <3>1. CASE m = l
      <4>1. got'[l] = rval BY <1>3 DEF RedisHit
      <4>2. retired[rval] \in Int BY <2>1
      <4>3. late[l] \in 0..1 BY Held
      <4> HIDE DEF AgeInv, TypeOK
      <4> QED BY <2>1, <3>1, <4>1, <4>2, <4>3
    <3>2. CASE m # l BY <1>3, <2>2, <3>2 DEF RedisHit, InHand
    <3> QED BY <3>1, <3>2
  <2>3. ASSUME NEW m \in Lookup, pc'[m] \in {"store", "setex"}
        PROVE  retired[got'[m]] <= late[m]
    BY <1>3, <2>3 DEF RedisHit, InHand
  <2>4. InHand' BY <1>3, <2>2, <2>3 DEF RedisHit, InHand
  <2> QED BY <1>3, <2>4 DEF RedisHit, InRedis, StalenessBounded
<1>4. CASE RedisMiss(l)
  BY <1>4 DEF RedisMiss, InRedis, InHand, StalenessBounded
<1>5. CASE RedisFails(l)
  <2>1. InHand' BY <1>5 DEF RedisFails, InHand
  <2> QED BY <1>5, <2>1 DEF RedisFails, InRedis, StalenessBounded
<1>6. CASE Fill(l)
  <2>1. InHand' BY <1>6 DEF Fill, InHand
  <2>2. retired[got[l]] + (LocalTtl - late[l]) <= RedisTtl + LocalTtl
    BY <1>6, HandAge DEF Fill
  <2>3. StalenessBounded' BY <1>6, <2>2 DEF Fill, FillLocal, StalenessBounded
  <2> QED BY <1>6, <2>1, <2>3 DEF Fill, InRedis
<1>7. CASE Query(l)
  <2>1. ASSUME NEW m \in Lookup, pc'[m] \in {"store", "setex"}
        PROVE  retired[got'[m]] <= late[m]
    <3>1. CASE m = l
      <4>1. got'[l] = db BY <1>7 DEF Query
      <4>2. retired[db] = 0 BY DEF AgeInv
      <4>3. late[l] \in 0..1 BY Held
      <4> HIDE DEF AgeInv, TypeOK
      <4> QED BY <3>1, <4>1, <4>2, <4>3
    <3>2. CASE m # l BY <1>7, <2>1, <3>2 DEF Query, InHand
    <3> QED BY <3>1, <3>2
  <2>2. ASSUME NEW m \in Lookup, pc'[m] = "fill"
        PROVE  retired[got'[m]] <= RedisTtl + late[m]
    BY <1>7, <2>2 DEF Query, InHand
  <2>3. InHand' BY <1>7, <2>1, <2>2 DEF Query, InHand
  <2> QED BY <1>7, <2>3 DEF Query, InRedis, StalenessBounded
<1>8. CASE QueryNone(l)
  BY <1>8 DEF QueryNone, InRedis, InHand, StalenessBounded
<1>9. CASE Store(l)
  <2>1. InHand' BY <1>9 DEF Store, InHand
  <2>2. retired[got[l]] + (LocalTtl - late[l]) <= RedisTtl + LocalTtl
    BY <1>9, HandAge DEF Store
  <2>3. StalenessBounded' BY <1>9, <2>2 DEF Store, FillLocal, StalenessBounded
  <2> QED BY <1>9, <2>1, <2>3 DEF Store, InRedis
<1>10. CASE Setex(l)
  <2>1. InHand' BY <1>10 DEF Setex, InHand
  <2>2. retired[got[l]] <= 1
    BY <1>10, HandAge DEF Setex
  <2>3. InRedis'
    <3>1. retired' = retired
          /\ ((rval' = got[l] /\ rttl' = RedisTtl) \/ (rval' = rval /\ rttl' = rttl))
      BY <1>10 DEF Setex
    <3>2. TypeOK /\ InRedis BY DEF InRedis
    <3>3. RedisTtl \in Int OBVIOUS
    <3> HIDE DEF AgeInv, TypeOK, Values, MaxAge
    <3>4. retired[got[l]] \in Int BY <3>2, Held
    <3> QED BY <2>2, <3>1, <3>2, <3>3, <3>4 DEF InRedis
  <2> QED BY <1>10, <2>1, <2>3 DEF Setex, StalenessBounded
<1> QED
  BY <1>1, <1>2, <1>3, <1>4, <1>5, <1>6, <1>7, <1>8, <1>9, <1>10 DEF Look

\* A commit ages nothing: it starts the age of the value it replaces at zero.
LEMMA AgeCommit ==
  ASSUME AgeInv, TypeOK', CommitRow, UNCHANGED <<shared, local, reader>>
  PROVE  AgeInv'
<1> USE CacheAssumption
    DEF AgeInv, TypeOK, Values, MaxAge, CommitRow, shared, local, reader
<1>1. retired' \in [Values -> 0..MaxAge] /\ retired'[db'] = 0
  OBVIOUS
<1>2. \A v \in Values : retired'[v] <= retired[v]
  OBVIOUS
<1>3. Current' BY <1>1, <1>2 DEF Current
<1>4. InRedis' BY <1>2 DEF InRedis
<1>5. ASSUME NEW l \in Lookup
      PROVE  retired'[got[l]] <= retired[got[l]] /\ retired'[got[l]] \in Int
  BY <1>1, <1>2, Held
<1>6. InHand'
  <2>1. ASSUME NEW l \in Lookup
        PROVE  /\ pc[l] = "fill" => retired'[got[l]] <= RedisTtl + late[l]
               /\ pc[l] \in {"store", "setex"} => retired'[got[l]] <= late[l]
    <3>1. retired[got[l]] \in Int /\ late[l] \in Int BY Held
    <3>2. /\ pc[l] = "fill" => retired[got[l]] <= RedisTtl + late[l]
          /\ pc[l] \in {"store", "setex"} => retired[got[l]] <= late[l]
      BY DEF InHand
    <3> HIDE DEF AgeInv, TypeOK, CommitRow
    <3> QED BY <1>5, <3>1, <3>2
  <2> QED BY <2>1 DEF InHand
<1>7. StalenessBounded' BY <1>2 DEF StalenessBounded
<1> QED BY <1>3, <1>4, <1>6, <1>7

\* No step lets a copy outlive its bound.
LEMMA AgeStep == AgeInv /\ TypeOK' /\ [Next]_vars => AgeInv'
<1> SUFFICES ASSUME AgeInv, TypeOK', [Next]_vars PROVE AgeInv'
  OBVIOUS
<1>1. ASSUME NEW l \in Lookup, Look(l) PROVE AgeInv'
  BY <1>1, AgeLook
<1>2. CASE ApiCommit BY <1>2, AgeCommit DEF ApiCommit
<1>3. CASE ApiDelete \/ SyncDelete
  BY <1>3, CacheAssumption
  DEF ApiDelete, SyncDelete, DeleteCopy, AgeInv, TypeOK, Current, InRedis, InHand,
      StalenessBounded, row, shared, local, reader
<1>4. CASE SyncCommit
  <2>1. CASE CommitRow BY <1>4, <2>1, AgeCommit DEF SyncCommit
  <2>2. CASE UNCHANGED <<row, retired>>
    BY <1>4, <2>2
    DEF SyncCommit, AgeInv, TypeOK, Current, InRedis, InHand, StalenessBounded,
        row, shared, local, reader
  <2> QED BY <1>4, <2>1, <2>2 DEF SyncCommit
<1>5. CASE Tick BY <1>5, AgeTick
<1>6. CASE UNCHANGED vars
  BY <1>6
  DEF vars, AgeInv, TypeOK, Current, InRedis, InHand, StalenessBounded
<1> QED BY <1>1, <1>2, <1>3, <1>4, <1>5, <1>6 DEF Next

\* A worker's copy of a replaced key is gone RedisTtl + LocalTtl after the
\* replacement, even when Redis fails.
THEOREM CopiesExpire == Spec => []StalenessBounded
<1>1. AgeInv => StalenessBounded
  BY DEF AgeInv
<1> QED BY <1>1, AgeStarts, AgeStep, TypeCorrect, PTL DEF Spec

\* So is every answer of a lookup whose own GET did not fail.
THEOREM AnswersAreRecent == Spec => []AnswersBounded
<1>1. Init => AnswersBounded
  BY CacheAssumption DEF Init, AnswersBounded
<1>2. AgeInv /\ AnswersBounded /\ [Next]_vars => AnswersBounded'
  <2> SUFFICES ASSUME AgeInv, AnswersBounded, [Next]_vars PROVE AnswersBounded'
    OBVIOUS
  <2>0. RedisTtl \in Nat \ {0} /\ LocalTtl \in Nat \ {0}
    BY CacheAssumption
  <2>1. ASSUME NEW l \in Lookup, Look(l) PROVE AnswersBounded'
    <3> USE <2>0 DEF Answer, AnswersBounded, Goto
    <3>1. CASE LocalHit(l)
      <4>1. Home[l] \in Worker /\ retired[lval[Home[l]]] \in Int
        BY Held DEF AgeInv
      <4>2. lttl[Home[l]] \in Int BY <4>1 DEF AgeInv, TypeOK
      <4>3. retired[lval[Home[l]]] <= RedisTtl + LocalTtl
        BY <3>1, <4>1, <4>2 DEF LocalHit, AgeInv, StalenessBounded
      <4> QED BY <3>1, <4>3 DEF LocalHit
    <3>2. CASE Fill(l)
      <4>1. retired[got[l]] <= RedisTtl + LocalTtl BY <3>2, HandAge DEF Fill
      <4> QED BY <3>2, <4>1 DEF Fill
    <3>3. CASE Setex(l)
      <4>1. retired[got[l]] <= 1 /\ retired[got[l]] \in Int
        BY <3>3, HandAge, Held DEF Setex, AgeInv
      <4>2. retired[got[l]] <= RedisTtl + LocalTtl BY <4>1
      <4> QED BY <3>3, <4>2 DEF Setex
    <3> QED
      BY <2>1, <3>1, <3>2, <3>3
      DEF Look, LocalMiss, RedisHit, RedisMiss, RedisFails, Query, QueryNone, Store
  <2>2. CASE ApiCommit \/ ApiDelete \/ SyncDelete \/ SyncCommit \/ Tick
    BY <2>2 DEF ApiCommit, ApiDelete, SyncDelete, SyncCommit, Tick, AnswersBounded
  <2>3. CASE UNCHANGED vars BY <2>3 DEF vars, AnswersBounded
  <2> QED BY <2>1, <2>2, <2>3 DEF Next
<1> QED BY <1>1, <1>2, AgeStarts, AgeStep, TypeCorrect, PTL DEF Spec

\* Neither a worker's copy nor an answer is older than the lives of both caches
\* together, but for the answer of a lookup whose own GET failed.
THEOREM NothingTooOld == Spec => []AgesBounded
<1>1. StalenessBounded /\ AnswersBounded => AgesBounded
  BY DEF AgesBounded
<1> QED BY <1>1, CopiesExpire, AnswersAreRecent, PTL

-----------------------------------------------------------------------------
(* MCP sessions.                                                           *)

\* Copies and lookups that name a server which has been removed.
Outdated ==
  /\ ~listed /\ shelf /\ shelfLeft > 0 => gone + shelfLeft <= CopyLife + 1
  /\ \A c \in McpCall :
       ~listed /\ place[c] = "shelve" /\ seen[c] => gone <= IF slow[c] THEN 1 ELSE 0

\* Who uses a connection, and in which state it is then.
Used ==
  /\ \A c \in McpCall :
       /\ place[c] \in {"connect", "talk"} => uses[c] # NoConn
       /\ place[c] \notin {"connect", "talk", "close"} => uses[c] = NoConn
       /\ place[c] = "connect" =>
            conn[uses[c]] = "opening" /\ \A d \in McpCall \ {c} : uses[d] # uses[c]
       /\ place[c] = "talk" => conn[uses[c]] # "opening"
       /\ place[c] = "close" /\ uses[c] # NoConn =>
            conn[uses[c]] # "opening" /\ uses[c] # pool

\* Until something goes wrong, a loose connection has a call that will close it.
Closers ==
  ~upset => \A k \in Conn : Loose(k) => \E c \in McpCall : place[c] = "close" /\ uses[c] = k

McpInv ==
  /\ McpTypeOK /\ (syncing => listings < MaxListing)
  /\ Outdated /\ RemovedServerRefused /\ Used /\ PooledIsOpen /\ Closers

\* Every step of an MCP call keeps the types.
LEMMA McpTypes ==
  ASSUME McpInv, [McpNext]_mcpVars
  PROVE  McpTypeOK' /\ (syncing' => listings' < MaxListing)
<1> DEFINE Goal == McpTypeOK /\ (syncing => listings < MaxListing)
<1> SUFFICES Goal'
  OBVIOUS
<1> USE McpAssumption
    DEF McpInv, McpTypeOK, Used, Moves, Hiccup, LetThrough, GoneCap, whitelist, lookup, sessions,
        staleness
<1>1. CASE UNCHANGED mcpVars
  BY <1>1 DEF mcpVars
<1>2. ASSUME NEW c \in McpCall, McpStep(c) PROVE Goal'
  <2> USE DEF Ends, Evict
  <2>e. ASSUME place[c] \in {"connect", "talk"}, Evict(c)
        PROVE  /\ place' \in [McpCall -> {"idle", "row", "shelve", "session", "connect",
                                         "talk", "close"}]
               /\ uses' \in [McpCall -> Conn \union {NoConn}]
               /\ again' \in [McpCall -> BOOLEAN] /\ pool' \in Conn \union {NoConn}
    <3>1. CASE again[c] BY <2>e, <3>1
    <3>2. CASE ~again[c] BY <2>e, <3>2
    <3> QED BY <3>1, <3>2
  <2>1. CASE ShelfHit(c) BY <2>1 DEF ShelfHit
  <2>2. CASE ShelfMiss(c) BY <2>2 DEF ShelfMiss
  <2>3. CASE ReadRow(c) BY <2>3 DEF ReadRow
  <2>4. CASE ReadRowFails(c) BY <2>4 DEF ReadRowFails
  <2>5. CASE Shelve(c)
    BY <2>5 DEF Shelve
  <2>6. CASE UseSession(c) BY <2>6 DEF UseSession
  <2>7. ASSUME NEW k \in Conn, Connect(c, k) PROVE Goal'
    BY <2>7 DEF Connect
  <2>8. CASE Connected(c) BY <2>8 DEF Connected
  <2>9. CASE ConnectFails(c)
    <3>1. conn' \in [Conn -> {"closed", "opening", "open"}] /\ hiccups' \in 0..MaxHiccups
          /\ UNCHANGED <<listed, syncing, shelf, shelfLeft, listings, seen, slow, gone, longest, upset>>
      BY <2>9 DEF ConnectFails
    <3>2. place[c] \in {"connect", "talk"} /\ Evict(c)
      BY <2>9 DEF ConnectFails
    <3> HIDE DEF Evict
    <3> QED BY <2>e, <3>1, <3>2
  <2>10. CASE Talk(c) BY <2>10 DEF Talk
  <2>11. CASE TalkFails(c)
    <3>1. hiccups' \in 0..MaxHiccups
          /\ UNCHANGED <<listed, syncing, shelf, shelfLeft, listings, seen, slow, conn, gone, longest, upset>>
      BY <2>11 DEF TalkFails
    <3>2. place[c] \in {"connect", "talk"} /\ Evict(c)
      BY <2>11 DEF TalkFails
    <3> HIDE DEF Evict
    <3> QED BY <2>e, <3>1, <3>2
  <2>12. CASE Close(c) BY <2>12 DEF Close
  <2>13. CASE CallCancelled(c) BY <2>13 DEF CallCancelled
  <2> QED BY <1>2, <2>1, <2>2, <2>3, <2>4, <2>5, <2>6, <2>7, <2>8, <2>9, <2>10, <2>11, <2>12,
             <2>13 DEF McpStep
<1>3. ASSUME NEW k \in Conn, Finalised(k) PROVE Goal'
  BY <1>3 DEF Finalised
<1>4. CASE SyncDeletes BY <1>4 DEF SyncDeletes
<1>5. CASE SyncCommits
  <2>1. listed' \in BOOLEAN /\ syncing' = FALSE
    BY <1>5, Zenon DEF SyncCommits
  <2>2. listings' \in 0..MaxListing /\ gone' \in 0..GoneCap
    BY <1>5 DEF SyncCommits
  <2> QED BY <1>5, <2>1, <2>2 DEF SyncCommits
<1>6. CASE SyncAborts
  <2>1. syncing' = FALSE /\ syncing' \in BOOLEAN
    BY <1>6, Zenon DEF SyncAborts
  <2>2. listings' \in 0..MaxListing
    BY <1>6 DEF SyncAborts
  <2> QED BY <1>6, <2>1, <2>2 DEF SyncAborts
<1>7. CASE McpTick BY <1>7 DEF McpTick, Minus, LookingUp
<1> QED BY <1>1, <1>2, <1>3, <1>4, <1>5, <1>6, <1>7 DEF McpNext

\* Arithmetic.
LEMMA SmallerSum ==
  ASSUME NEW a \in Nat, NEW b \in Nat, NEW d \in Nat, NEW e \in Nat, d <= b, a + b <= e
  PROVE  a + d <= e
OBVIOUS

\* What names a removed server has not been there for long.
LEMMA OutdatedStep ==
  ASSUME McpInv, McpTypeOK', [McpNext]_mcpVars
  PROVE  (Outdated /\ RemovedServerRefused)'
<1> USE McpAssumption
    DEF McpInv, McpTypeOK, Outdated, RemovedServerRefused, Moves, LetThrough, GoneCap, whitelist,
        lookup, sessions, staleness
<1>1. CASE UNCHANGED mcpVars
  BY <1>1 DEF mcpVars
<1>2. ASSUME NEW c \in McpCall, McpStep(c) PROVE (Outdated /\ RemovedServerRefused)'
  <2> USE DEF Ends, Evict
  <2>1. CASE ShelfHit(c) BY <2>1 DEF ShelfHit
  <2>2. CASE ShelfMiss(c) BY <2>2 DEF ShelfMiss
  <2>3. CASE ReadRow(c) BY <2>3 DEF ReadRow
  <2>4. CASE ReadRowFails(c) BY <2>4 DEF ReadRowFails
  <2>5. CASE Shelve(c)
    <3>1. seen[c] => (~listed => gone <= 1) /\ (longest' = IF ~listed /\ gone > longest THEN gone ELSE longest)
      BY <2>5 DEF Shelve
    <3>2. ~seen[c] => longest' = longest
      BY <2>5 DEF Shelve
    <3>3. longest' <= CopyLife
      BY <3>1, <3>2
    <3>4. \/ shelf' = seen[c] /\ shelfLeft' = CopyLife
          \/ UNCHANGED <<shelf, shelfLeft>>
      BY <2>5 DEF Shelve
    <3>5. ~listed /\ shelf' /\ shelfLeft' > 0 => gone + shelfLeft' <= CopyLife + 1
      <4>1. CASE shelf' = seen[c] /\ shelfLeft' = CopyLife
        <5>1. ~listed /\ shelf' => gone <= 1
          BY <3>1, <4>1, Zenon
        <5>2. gone \in Nat /\ CopyLife \in Nat
          OBVIOUS
        <5>3. ~listed /\ shelf' => gone + CopyLife <= CopyLife + 1
          BY <5>1, <5>2
        <5> QED BY <4>1, <5>3
      <4>2. CASE UNCHANGED <<shelf, shelfLeft>>
        BY <4>2
      <4> QED BY <3>4, <4>1, <4>2
    <3>6. \A d \in McpCall \ {c} : place'[d] = place[d] /\ seen'[d] = seen[d] /\ slow'[d] = slow[d]
      BY <2>5 DEF Shelve
    <3>7. ~seen'[c] /\ UNCHANGED <<listed, gone>>
      BY <2>5 DEF Shelve
    <3> QED BY <3>3, <3>5, <3>6, <3>7
  <2>6. CASE UseSession(c) BY <2>6 DEF UseSession
  <2>7. ASSUME NEW k \in Conn, Connect(c, k) PROVE (Outdated /\ RemovedServerRefused)'
    BY <2>7 DEF Connect
  <2>8. CASE Connected(c) BY <2>8 DEF Connected
  <2>9. CASE ConnectFails(c) BY <2>9 DEF ConnectFails
  <2>10. CASE Talk(c) BY <2>10 DEF Talk
  <2>11. CASE TalkFails(c) BY <2>11 DEF TalkFails
  <2>12. CASE Close(c) BY <2>12 DEF Close
  <2>13. CASE CallCancelled(c) BY <2>13 DEF CallCancelled
  <2> QED BY <1>2, <2>1, <2>2, <2>3, <2>4, <2>5, <2>6, <2>7, <2>8, <2>9, <2>10, <2>11, <2>12,
             <2>13 DEF McpStep
<1>3. ASSUME NEW k \in Conn, Finalised(k) PROVE (Outdated /\ RemovedServerRefused)'
  BY <1>3 DEF Finalised
<1>4. CASE SyncDeletes
  <2>1. shelfLeft' \in 0..CopyLife /\ shelfLeft' <= shelfLeft
    BY <1>4 DEF SyncDeletes
  <2>2. UNCHANGED <<listed, shelf, gone, longest, place, seen, slow>>
    BY <1>4 DEF SyncDeletes
  <2>3. RemovedServerRefused'
    BY <2>2
  <2>4. \A c \in McpCall :
          ~listed' /\ place'[c] = "shelve" /\ seen'[c] => gone' <= IF slow'[c] THEN 1 ELSE 0
    BY <2>2
  <2>5. ~listed' /\ shelf' /\ shelfLeft' > 0 => gone' + shelfLeft' <= CopyLife + 1
    <3>1. /\ gone \in Nat /\ CopyLife \in Nat /\ shelfLeft \in Nat
          /\ shelfLeft' \in Nat
      BY <2>1
    <3>2. shelfLeft' > 0 => shelfLeft > 0
      BY <2>1, <3>1
    <3>3. ~listed' /\ shelf' /\ shelfLeft' > 0 => ~listed /\ shelf /\ shelfLeft > 0
      BY <2>2, <3>2, Zenon
    <3>4. ~listed /\ shelf /\ shelfLeft > 0 => gone + shelfLeft <= CopyLife + 1
      OBVIOUS
    <3>5. gone + shelfLeft <= CopyLife + 1 => gone' + shelfLeft' <= CopyLife + 1
      <4>1. gone' = gone /\ shelfLeft' <= shelfLeft
        BY <2>1, <2>2, Zenon
      <4>2. CopyLife + 1 \in Nat
        OBVIOUS
      <4> QED BY <3>1, <4>1, <4>2, SmallerSum
    <3> QED BY <3>3, <3>4, <3>5, Zenon
  <2> QED BY <2>3, <2>4, <2>5
<1>5. CASE SyncCommits BY <1>5 DEF SyncCommits
<1>6. CASE SyncAborts BY <1>6 DEF SyncAborts
<1>7. CASE McpTick BY <1>7 DEF McpTick, Minus, LookingUp
<1> QED BY <1>1, <1>2, <1>3, <1>4, <1>5, <1>6, <1>7 DEF McpNext

\* The connections.
LEMMA SessionsStep ==
  ASSUME McpInv, McpTypeOK', [McpNext]_mcpVars
  PROVE  (Used /\ PooledIsOpen /\ Closers)'
<1> DEFINE Sound == Used /\ PooledIsOpen /\ Closers
<1> SUFFICES Sound'
  OBVIOUS
<1> USE ConnAssumption
    DEF McpInv, McpTypeOK, Used, PooledIsOpen, Closers, Loose, Moves, lookup, sessions
<1>1. CASE UNCHANGED mcpVars
  BY <1>1 DEF mcpVars
<1>2. ASSUME NEW c \in McpCall, McpStep(c) PROVE Sound'
  <2> USE DEF Ends, Evict
  <2>1. CASE ShelfHit(c) BY <2>1 DEF ShelfHit
  <2>2. CASE ShelfMiss(c) BY <2>2 DEF ShelfMiss
  <2>3. CASE ReadRow(c) BY <2>3 DEF ReadRow
  <2>4. CASE ReadRowFails(c) BY <2>4 DEF ReadRowFails
  <2>5. CASE Shelve(c)
    BY <2>5 DEF Shelve
  <2>6. CASE UseSession(c) BY <2>6 DEF UseSession
  <2>7. ASSUME NEW k \in Conn, Connect(c, k) PROVE Sound'
    BY <2>7 DEF Connect
  <2>8. CASE Connected(c)
    <3>1. ~upset' => ~upset /\ pool = NoConn
      BY <2>8, Zenon DEF Connected
    <3>2. /\ place[c] = "connect" /\ place' = [place EXCEPT ![c] = "talk"]
          /\ conn' = [conn EXCEPT ![uses[c]] = "open"] /\ pool' = uses[c]
          /\ uses[c] \in Conn /\ UNCHANGED uses
      BY <2>8 DEF Connected
    <3>3. Used'
      BY <3>2
    <3>4. PooledIsOpen'
      BY <3>2
    <3>5. ASSUME ~upset', NEW k \in Conn, Loose(k)'
          PROVE  \E d \in McpCall : place'[d] = "close" /\ uses'[d] = k
      <4>1. Loose(k)
        BY <3>1, <3>2, <3>5
      <4>2. PICK d \in McpCall : place[d] = "close" /\ uses[d] = k
        BY <3>1, <3>5, <4>1
      <4> QED BY <3>2, <4>2
    <3> QED BY <3>3, <3>4, <3>5
  <2>9. CASE ConnectFails(c) BY <2>9 DEF ConnectFails
  <2>10. CASE Talk(c) BY <2>10 DEF Talk
  <2>11. CASE TalkFails(c) BY <2>11 DEF TalkFails
  <2>12. CASE Close(c) BY <2>12 DEF Close
  <2>13. CASE CallCancelled(c)
    <3>1. /\ place' = [place EXCEPT ![c] = "idle"] /\ uses' = [uses EXCEPT ![c] = NoConn]
          /\ conn' = [k \in Conn |->
                        IF k = uses[c] /\ conn[k] = "opening" THEN "open" ELSE conn[k]]
          /\ UNCHANGED pool
      BY <2>13 DEF CallCancelled
    <3>2. ~upset' => /\ ~upset /\ place[c] # "connect"
                     /\ ~(place[c] = "close" /\ uses[c] # NoConn)
      BY <2>13, Zenon DEF CallCancelled
    <3>3. Used'
      BY <3>1
    <3>4. PooledIsOpen'
      BY <3>1
    <3>5. ASSUME ~upset', NEW k \in Conn, Loose(k)'
          PROVE  \E d \in McpCall : place'[d] = "close" /\ uses'[d] = k
      <4>1. Loose(k)
        BY <3>1, <3>2, <3>5
      <4>2. PICK d \in McpCall : place[d] = "close" /\ uses[d] = k
        BY <3>2, <3>5, <4>1
      <4>3. d # c
        BY <3>2, <3>5, <4>2
      <4> QED BY <3>1, <4>2, <4>3
    <3> QED BY <3>3, <3>4, <3>5
  <2> QED BY <1>2, <2>1, <2>2, <2>3, <2>4, <2>5, <2>6, <2>7, <2>8, <2>9, <2>10, <2>11, <2>12,
             <2>13 DEF McpStep
<1>3. ASSUME NEW k \in Conn, Finalised(k) PROVE Sound'
  BY <1>3 DEF Finalised
<1>4. CASE SyncDeletes BY <1>4 DEF SyncDeletes
<1>5. CASE SyncCommits BY <1>5 DEF SyncCommits
<1>6. CASE SyncAborts BY <1>6 DEF SyncAborts
<1>7. CASE McpTick BY <1>7 DEF McpTick, Minus, LookingUp
<1> QED BY <1>1, <1>2, <1>3, <1>4, <1>5, <1>6, <1>7 DEF McpNext

\* The invariant of the MCP sessions.
LEMMA McpHolds == McpSpec => []McpInv
<1>1. McpInit => McpInv
  <2> SUFFICES ASSUME McpInit PROVE McpInv
    OBVIOUS
  <2> USE McpAssumption, ConnAssumption DEF McpInit
  <2>1. /\ place \in [McpCall -> {"idle"}] /\ uses \in [McpCall -> {NoConn}]
        /\ seen \in [McpCall -> BOOLEAN] /\ again \in [McpCall -> BOOLEAN]
        /\ slow \in [McpCall -> BOOLEAN] /\ conn \in [Conn -> {"closed"}]
    OBVIOUS
  <2>2. /\ 0 \in 0..CopyLife /\ 0 \in 0..MaxListing /\ 0 \in 0..MaxHiccups
        /\ 0 \in 0..GoneCap /\ 0 <= CopyLife
    BY DEF GoneCap
  <2>3. McpTypeOK
    BY <2>1, <2>2 DEF McpTypeOK
  <2> QED
    BY <2>1, <2>2, <2>3
    DEF McpInv, Outdated, RemovedServerRefused, Used, PooledIsOpen, Closers, Loose
<1>2. McpInv /\ [McpNext]_mcpVars => McpInv'
  BY McpTypes, OutdatedStep, SessionsStep DEF McpInv
<1> QED BY <1>1, <1>2, PTL DEF McpSpec

\* A server taken off the whitelist is called for no longer than a copy lives.
THEOREM RemovedStaysRefused == McpSpec => []RemovedServerRefused
BY McpHolds, PTL DEF McpInv

\* The pool never holds a closed session, and connections leak only when two calls
\* connect at once or a time-out cancels one.
THEOREM ConnectionsAreHeld == McpSpec => []ConnectionsHeld
<1>1. McpInv => ConnectionsHeld
  BY DEF McpInv, Closers, ConnectionsHeld, NothingLeaks
<1> QED BY <1>1, McpHolds, PTL

-----------------------------------------------------------------------------
(* The parts side by side.                                                 *)

\* Each part behaves as it does alone, so what holds of it alone holds of both.
THEOREM PartsHold == CompletionSpec => Spec /\ McpSpec
<1>1. CompletionInit => Init /\ McpInit
  BY DEF CompletionInit
<1>2. [CompletionNext]_<<vars, mcpVars, part>> => [Next]_vars /\ [McpNext]_mcpVars
  BY Zenon DEF CompletionNext
<1> QED BY <1>1, <1>2, PTL DEF CompletionSpec, Spec, McpSpec

\* Every variable of both parts stays in its type.
THEOREM TypesHold == CompletionSpec => []TypesOK
<1>1. McpInv => McpTypeOK
  BY DEF McpInv
<1>2. TypeOK /\ McpTypeOK => TypesOK
  BY DEF TypesOK
<1> QED BY <1>1, <1>2, PartsHold, TypeCorrect, McpHolds, PTL

\* Credentials and sessions are what they should be, whichever part moves.
THEOREM CopiesAreGood ==
  CompletionSpec => [](AgesBounded /\ RemovedServerRefused /\ ConnectionsHeld)
BY PartsHold, NothingTooOld, RemovedStaysRefused, ConnectionsAreHeld, PTL
=============================================================================
