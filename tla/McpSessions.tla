----------------------------- MODULE McpSessions -----------------------------
(***************************************************************************)
(* ai-core's calls of one MCP server of one tenant (gateway/mcp/manager.py):*)
(* the whitelist row, its copy in Redis, and the session that all calls    *)
(* share.  Calls are coroutines; every await is between two steps, and     *)
(* what a call read before it may have changed after it.                   *)
(*                                                                         *)
(* A connection nobody holds any more is closed by no code of the          *)
(* repository; the interpreter may finalise it at any time.                *)
(*                                                                         *)
(* Bound on time: a lookup or a synchronisation overlaps one tick at most. *)
(***************************************************************************)
EXTENDS Integers

CONSTANTS
  McpCall,
  Conn,         \* connections, used again when closed
  CopyLife,     \* ticks the whitelist's copy lives in Redis (300 s)
  MaxListing,   \* bound: synchronisations of the row
  MaxHiccups    \* bound: calls and connections the server fails

ASSUME McpAssumption ==
  CopyLife \in Nat \ {0} /\ MaxListing \in Nat /\ MaxHiccups \in Nat

NoConn == "none"
ASSUME ConnAssumption == NoConn \notin Conn

VARIABLES
  listed,           \* the row says the server is active
  syncing,          \* the listener has deleted the copy, and commits next
  shelf, shelfLeft, \* the copy lists the server; its remaining life, 0 absent
  place,            \* where a call is
  seen,             \* the row as a call read it
  uses,             \* the connection a call uses, opens or closes
  again,            \* the call is in its second attempt
  slow,             \* a tick has passed since the call's lookup began
  pool,             \* sessions[key] and exit_stacks[key]
  conn,             \* "closed", "opening", "open"
  listings, hiccups,
  gone, longest,    \* history: ticks since the row went inactive, saturating;
                    \* the most of them after which a call was let through
  upset             \* history: a session was overwritten, or a call cancelled

whitelist == <<listed, syncing, shelf, shelfLeft, listings>>
lookup    == <<seen, slow>>
sessions  == <<pool, conn>>
staleness == <<gone, longest>>
mcpVars   == <<listed, syncing, shelf, shelfLeft, listings, seen, slow, place, uses, again,
               pool, conn, hiccups, gone, longest, upset>>

GoneCap == CopyLife + 1     \* bound: ages saturate here

McpInit ==
  /\ listed = TRUE /\ syncing = FALSE
  /\ shelf = FALSE /\ shelfLeft = 0
  /\ place = [c \in McpCall |-> "idle"] /\ seen = [c \in McpCall |-> FALSE]
  /\ uses = [c \in McpCall |-> NoConn] /\ again = [c \in McpCall |-> FALSE]
  /\ slow = [c \in McpCall |-> FALSE]
  /\ pool = NoConn /\ conn = [k \in Conn |-> "closed"]
  /\ listings = 0 /\ hiccups = 0 /\ gone = 0 /\ longest = 0 /\ upset = FALSE

Moves(c, here, next) == place[c] = here /\ place' = [place EXCEPT ![c] = next]

Hiccup == hiccups < MaxHiccups /\ hiccups' = hiccups + 1

-----------------------------------------------------------------------------
(* _get_mcp_server_url.                                                    *)

LetThrough ==
  longest' = IF ~listed /\ gone > longest THEN gone ELSE longest

\* A hit that renews the copy keeps a removed server on it.
MutShelfHit(c) ==
  /\ Moves(c, "idle", "session")
  /\ shelfLeft > 0 /\ shelf
  /\ LetThrough
  /\ shelfLeft' = CopyLife
  /\ UNCHANGED <<listed, syncing, shelf, listings, lookup, uses, again, sessions, hiccups, gone, upset>>

ShelfHit(c) ==
  /\ Moves(c, "idle", "session")
  /\ shelfLeft > 0 /\ shelf
  /\ LetThrough
  /\ UNCHANGED <<whitelist, lookup, uses, again, sessions, hiccups, gone, upset>>

\* No copy, one without the server, or Redis failed.
ShelfMiss(c) ==
  /\ Moves(c, "idle", "row")
  /\ UNCHANGED <<whitelist, lookup, uses, again, sessions, hiccups, staleness, upset>>

ReadRow(c) ==
  /\ Moves(c, "row", "shelve")
  /\ seen' = [seen EXCEPT ![c] = listed]
  /\ UNCHANGED <<whitelist, slow, uses, again, sessions, hiccups, staleness, upset>>

\* The database failed: "not whitelisted".
ReadRowFails(c) ==
  /\ Moves(c, "row", "idle")
  /\ slow' = [slow EXCEPT ![c] = FALSE]
  /\ UNCHANGED <<whitelist, seen, uses, again, sessions, hiccups, staleness, upset>>

\* SETEX, which may fail, and the answer.
Shelve(c) ==
  /\ Moves(c, "shelve", IF seen[c] THEN "session" ELSE "idle")
  /\ IF seen[c] THEN LetThrough ELSE UNCHANGED longest
  /\ \/ shelf' = seen[c] /\ shelfLeft' = CopyLife
     \/ UNCHANGED <<shelf, shelfLeft>>
  /\ seen' = [seen EXCEPT ![c] = FALSE] /\ slow' = [slow EXCEPT ![c] = FALSE]
  /\ UNCHANGED <<listed, syncing, listings, uses, again, sessions, hiccups, gone, upset>>

-----------------------------------------------------------------------------
(* The session and the call, attempted twice.                              *)

Ends(c) ==
  /\ place' = [place EXCEPT ![c] = "idle"]
  /\ uses' = [uses EXCEPT ![c] = NoConn] /\ again' = [again EXCEPT ![c] = FALSE]

UseSession(c) ==
  /\ Moves(c, "session", "talk")
  /\ pool # NoConn
  /\ uses' = [uses EXCEPT ![c] = pool]
  /\ UNCHANGED <<whitelist, lookup, again, sessions, hiccups, staleness, upset>>

Connect(c, k) ==
  /\ Moves(c, "session", "connect")
  /\ pool = NoConn
  /\ conn[k] = "closed" /\ \A d \in McpCall : uses[d] # k
  /\ conn' = [conn EXCEPT ![k] = "opening"]
  /\ uses' = [uses EXCEPT ![c] = k]
  /\ UNCHANGED <<whitelist, lookup, again, pool, hiccups, staleness, upset>>

\* Whoever connected meanwhile loses its place in the pool.
Connected(c) ==
  /\ Moves(c, "connect", "talk")
  /\ conn' = [conn EXCEPT ![uses[c]] = "open"]
  /\ pool' = uses[c]
  /\ upset' = (upset \/ pool # NoConn)
  /\ UNCHANGED <<whitelist, lookup, uses, again, hiccups, staleness>>

\* An attempt has failed: the first evicts the pooled session, whoever made it,
\* and tries again, the second answers with the error.
Evict(c) ==
  IF again[c] THEN Ends(c) /\ UNCHANGED pool
  ELSE /\ place' = [place EXCEPT ![c] = "close"]
       /\ uses' = [uses EXCEPT ![c] = pool] /\ pool' = NoConn
       /\ UNCHANGED again

\* The connection is closed before the exception goes on.
ConnectFails(c) ==
  /\ place[c] = "connect" /\ Hiccup
  /\ conn' = [conn EXCEPT ![uses[c]] = "closed"]
  /\ Evict(c)
  /\ UNCHANGED <<whitelist, lookup, staleness, upset>>

Talk(c) ==
  /\ place[c] = "talk" /\ conn[uses[c]] = "open"
  /\ Ends(c)
  /\ UNCHANGED <<whitelist, lookup, sessions, hiccups, staleness, upset>>

\* The server fails the call, or another call has closed the session.
TalkFails(c) ==
  /\ place[c] = "talk"
  /\ \/ conn[uses[c]] = "open" /\ Hiccup
     \/ conn[uses[c]] = "closed" /\ UNCHANGED hiccups
  /\ Evict(c)
  /\ UNCHANGED <<whitelist, lookup, conn, staleness, upset>>

MutClose(c) ==
  /\ Moves(c, "close", "session")
  /\ conn' = [k \in Conn |-> IF k \in {uses[c], pool} THEN "closed" ELSE conn[k]]
  /\ uses' = [uses EXCEPT ![c] = NoConn] /\ again' = [again EXCEPT ![c] = TRUE]
  /\ UNCHANGED <<whitelist, lookup, pool, hiccups, staleness, upset>>

\* _close_session took the session out of the pool before it awaits its end.
Close(c) ==
  /\ Moves(c, "close", "session")
  /\ conn' = [k \in Conn |-> IF k = uses[c] THEN "closed" ELSE conn[k]]
  /\ uses' = [uses EXCEPT ![c] = NoConn] /\ again' = [again EXCEPT ![c] = TRUE]
  /\ UNCHANGED <<whitelist, lookup, pool, hiccups, staleness, upset>>

\* The tool's time-out: "except Exception" does not see the cancellation, so
\* what the call was opening or closing stays as it is.
CallCancelled(c) ==
  /\ place[c] # "idle"
  /\ Ends(c)
  /\ seen' = [seen EXCEPT ![c] = FALSE] /\ slow' = [slow EXCEPT ![c] = FALSE]
  /\ conn' = [k \in Conn |-> IF k = uses[c] /\ conn[k] = "opening" THEN "open" ELSE conn[k]]
  /\ upset' = (upset \/ place[c] = "connect" \/ (place[c] = "close" /\ uses[c] # NoConn))
  /\ UNCHANGED <<whitelist, pool, hiccups, staleness>>

Loose(k) == conn[k] = "open" /\ pool # k

\* The interpreter's finaliser.
Finalised(k) ==
  /\ Loose(k) /\ upset
  /\ conn' = [conn EXCEPT ![k] = "closed"]
  /\ UNCHANGED <<whitelist, lookup, place, uses, again, pool, hiccups, staleness, upset>>

-----------------------------------------------------------------------------
(* The listener (ConfigSync): the copy goes first, then the row changes.   *)

\* A DELETE that fails is logged, and the commit follows all the same.
SyncDeletes ==
  /\ ~syncing /\ listings < MaxListing
  /\ syncing' = TRUE
  /\ shelfLeft' \in {0, shelfLeft}
  /\ UNCHANGED <<listed, shelf, listings, lookup, place, uses, again, sessions, hiccups,
                 staleness, upset>>

SyncCommits ==
  /\ syncing
  /\ syncing' = FALSE /\ listed' = ~listed /\ listings' = listings + 1
  /\ gone' = 0
  /\ UNCHANGED <<shelf, shelfLeft, lookup, place, uses, again, sessions, hiccups,
                 longest, upset>>

SyncAborts ==
  /\ syncing
  /\ syncing' = FALSE /\ listings' = listings + 1
  /\ UNCHANGED <<listed, shelf, shelfLeft, lookup, place, uses, again, sessions, hiccups,
                 staleness, upset>>

LookingUp(c) == place[c] \in {"row", "shelve"}

Minus(n) == IF n > 0 THEN n - 1 ELSE 0

McpTick ==
  /\ \A c \in McpCall : ~(LookingUp(c) /\ slow[c])
  /\ slow' = [c \in McpCall |-> LookingUp(c)]
  /\ shelfLeft' = Minus(shelfLeft)
  /\ gone' = IF ~listed /\ gone < GoneCap THEN gone + 1 ELSE gone
  /\ UNCHANGED <<listed, syncing, shelf, listings, seen, place, uses, again, sessions, hiccups,
                 longest, upset>>

-----------------------------------------------------------------------------
McpStep(c) ==
  \/ ShelfHit(c) \/ ShelfMiss(c) \/ ReadRow(c) \/ ReadRowFails(c) \/ Shelve(c)
  \/ UseSession(c) \/ (\E k \in Conn : Connect(c, k)) \/ Connected(c) \/ ConnectFails(c)
  \/ Talk(c) \/ TalkFails(c) \/ Close(c) \/ CallCancelled(c)

McpNext ==
  \/ SyncDeletes \/ SyncCommits \/ SyncAborts \/ McpTick
  \/ \E k \in Conn : Finalised(k)
  \/ \E c \in McpCall : McpStep(c)

McpSpec == McpInit /\ [][McpNext]_mcpVars

-----------------------------------------------------------------------------
(* Properties.                                                             *)

McpTypeOK ==
  /\ listed \in BOOLEAN /\ syncing \in BOOLEAN
  /\ shelf \in BOOLEAN /\ shelfLeft \in 0..CopyLife
  /\ place \in [McpCall -> {"idle", "row", "shelve", "session", "connect", "talk", "close"}]
  /\ seen \in [McpCall -> BOOLEAN] /\ slow \in [McpCall -> BOOLEAN]
  /\ uses \in [McpCall -> Conn \union {NoConn}] /\ again \in [McpCall -> BOOLEAN]
  /\ pool \in Conn \union {NoConn}
  /\ conn \in [Conn -> {"closed", "opening", "open"}]
  /\ listings \in 0..MaxListing /\ hiccups \in 0..MaxHiccups
  /\ gone \in 0..GoneCap /\ longest \in 0..GoneCap
  /\ upset \in BOOLEAN

\* A server taken off the whitelist is called for as long as a copy lives and no
\* longer, though a lookup may put the old row back after the listener deleted
\* the copy, which it does before it commits the new row.
RemovedServerRefused == longest <= CopyLife

\* The session in the pool is open, whatever calls fail, retry, connect at the
\* same time or close each other's sessions.
PooledIsOpen == pool # NoConn => conn[pool] = "open"

\* Until two calls connect at once, or a time-out cancels one that connects or
\* closes, no connection is left open that neither the pool nor a call holds.
NothingLeaks ==
  ~upset => \A k \in Conn : Loose(k) => \E c \in McpCall : uses[c] = k

\* Both: the pool and the calls account for every connection.
ConnectionsHeld == PooledIsOpen /\ NothingLeaks
=============================================================================
