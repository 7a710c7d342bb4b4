-------------------------- MODULE GatewayAccessProofs --------------------------
(***************************************************************************)
(* Proofs about GatewayAccess and PermissionCache, alone and side by side, *)
(* for any number of requests, roles and lookups, every limit and every    *)
(* life of a copy.                                                         *)
(*                                                                         *)
(* WithinLimits is not inductive: what got through is bounded together     *)
(* with what still may, the requests that hold a count (HoldsMinute,       *)
(* HoldsHour), and as long as the bucket lasts both are bounded by the     *)
(* counter.  After that the counter may expire, but a count taken then is  *)
(* late and entitles to nothing.                                           *)
(***************************************************************************)
EXTENDS MCAccess, FiniteSetTheorems, TLAPS

\* An earlier minute is not in a later hour.
LEMMA DivMonotone ==
  ASSUME NEW k \in Nat \ {0}, NEW a \in Nat, NEW b \in Nat, a <= b
  PROVE  a \div k \in Nat /\ a \div k <= b \div k
<1>1. a \div k \in Nat /\ b \div k \in Nat
  OBVIOUS
<1>2. a = k * (a \div k) + (a % k) /\ a % k \in 0..(k - 1)
  OBVIOUS
<1>3. b = k * (b \div k) + (b % k) /\ b % k \in 0..(k - 1)
  OBVIOUS
<1>4. ASSUME NEW x \in Nat, NEW y \in Nat, x >= y + 1 PROVE k * x >= k * y + k
  <2>1. PICK d \in Nat : x = y + 1 + d
    <3>1. x - (y + 1) \in Nat /\ x = y + 1 + (x - (y + 1))
      BY <1>4
    <3> QED BY <3>1
  <2>2. k * x = k * y + k + k * d /\ k * d \in Nat
    BY <2>1
  <2>3. k * y \in Nat
    OBVIOUS
  <2> QED BY <2>2, <2>3
<1>5. ~(a \div k >= (b \div k) + 1)
  <2>1. k * (a \div k) \in Nat /\ k * (b \div k) \in Nat
    BY <1>1
  <2> QED BY <1>1, <1>2, <1>3, <1>4, <2>1
<1> QED BY <1>1, <1>5

-----------------------------------------------------------------------------
(* The blacklist.                                                          *)

\* A doomed request has not passed the check that stops it.
Stopped ==
  \A q \in Request : doomed[q] =>
    /\ at[q] \in {"connect", "jti", "sub", "refused"}
    /\ at[q] = "connect" => who[q] # "anonymous"
    /\ at[q] = "sub" => "sub" \in black
    /\ black # {}

\* What is checked against the blacklist is a token.
Identified == \A q \in Request : at[q] \in {"jti", "sub"} => who[q] # "anonymous"

\* The counts of a request that is not yet counted.
Untimely ==
  \A q \in Request :
    /\ at[q] \notin {"hour", "decide", "forwarded", "refused"} => timely[q] = {}
    /\ at[q] = "hour" => "hour" \notin timely[q]

HoldsMinute(m) ==
  {q \in Request : /\ at[q] \in {"hour", "decide"} /\ bucket[q] = m
                   /\ within[q] = "yes" /\ "minute" \in timely[q]}

HoldsHour(h) ==
  {q \in Request : /\ at[q] = "decide" /\ HourOf(bucket[q]) = h
                   /\ within[q] = "yes" /\ "hour" \in timely[q]}

MinutesHeld ==
  \A m \in Minutes :
    /\ Cardinality(HoldsMinute(m)) + passedMinute[m] <= MinuteLimit
    /\ m >= minute => Cardinality(HoldsMinute(m)) + passedMinute[m] <= perMinute[m]

HoursHeld ==
  \A h \in Hours :
    /\ Cardinality(HoldsHour(h)) + passedHour[h] <= HourLimit
    /\ h >= HourOf(minute) => Cardinality(HoldsHour(h)) + passedHour[h] <= perHour[h]

AccessInv == AccessTypeOK /\ Identified /\ Stopped /\ Untimely /\ MinutesHeld /\ HoursHeld

-----------------------------------------------------------------------------
\* A counter within its limit has not saturated.
LEMMA Constants ==
  /\ MinuteLimit \in Nat /\ HourLimit \in Nat
  /\ CountCap \in Nat /\ MinuteLimit < CountCap /\ HourLimit < CountCap
  /\ \A n \in 0..CountCap : Capped(n + 1) \in 0..CountCap /\ Capped(n + 1) >= n /\ Capped(n + 1) <= n + 1
  /\ \A n \in 0..CountCap, limit \in {MinuteLimit, HourLimit} :
       ~Exceeds(Capped(n + 1), limit) => Capped(n + 1) = n + 1 /\ n + 1 <= limit
BY AccessAssumption DEF CountCap, Capped, Exceeds

\* Minutes and hours go together.
LEMMA Buckets ==
  /\ 0 \in Minutes /\ Minutes \subseteq Nat /\ Hours \subseteq Nat
  /\ \A m \in Minutes : HourOf(m) \in Hours
  /\ \A m \in Minutes : m < LastMinute => m + 1 \in Minutes
  /\ \A m, n \in Minutes : m <= n => HourOf(m) <= HourOf(n)
<1>1. HourLength \in Nat \ {0} /\ LastMinute \in Nat
  BY AccessAssumption
<1>2. \A m, n \in Minutes : m <= n => HourOf(m) \in Nat /\ HourOf(m) <= HourOf(n)
  BY <1>1, DivMonotone DEF HourOf, Minutes
<1>3. LastMinute \in Minutes /\ \A m \in Minutes : m <= LastMinute
  BY <1>1 DEF Minutes
<1>4. \A m \in Minutes : HourOf(m) \in 0..HourOf(LastMinute)
  BY <1>2, <1>3
<1> QED BY <1>1, <1>2, <1>3, <1>4 DEF Minutes, Hours

\* The steps, and what keeps each part of the invariant.
LEMMA TypeStep ==
  ASSUME AccessTypeOK, Identified, [AccessNext]_accessVars
  PROVE  AccessTypeOK'
<1> USE DEF AccessTypeOK
<1>1. CASE UNCHANGED accessVars
  BY <1>1 DEF accessVars
<1>2. ASSUME NEW q \in Request, RequestStep(q) PROVE AccessTypeOK'
  <2> USE DEF AccessAt, Places, shared, passes, request
  <2>1. CASE BeginExempt(q)
    BY <2>1 DEF BeginExempt, Arrives, Tokens
  <2>2. ASSUME NEW w \in Tokens, Begin(q, w) PROVE AccessTypeOK'
    BY <2>2 DEF Begin, Arrives
  <2>3. CASE Connect(q)
    BY <2>3 DEF Connect
  <2>4. CASE ConnectFails(q)
    BY <2>4 DEF ConnectFails
  <2>5. ASSUME NEW e \in Entries, Check(q, e) \/ CheckFails(q, e) PROVE AccessTypeOK'
    <3>1. at[q] = e /\ who[q] # "anonymous"
      BY <2>5 DEF Check, CheckFails, Identified, Entries
    <3>2. AfterCheck(q, e) \in Places
      BY <3>1 DEF AfterCheck, Cleared, Tokens
    <3>3. at' \in [Request -> Places]
      BY <2>5, <3>2 DEF Check, CheckFails
    <3>4. todo' \in [Request -> SUBSET Role]
      BY <2>5 DEF Check, CheckFails
    <3>5. doomed' \in [Request -> BOOLEAN]
      BY <2>5 DEF Check, CheckFails
    <3> QED BY <2>5, <3>3, <3>4, <3>5 DEF Check, CheckFails
  <2>6. ASSUME NEW r \in Role, ResolveRole(q, r) PROVE AccessTypeOK'
    BY <2>6 DEF ResolveRole
  <2>7. CASE RolesDone(q)
    BY <2>7 DEF RolesDone
  <2>8. CASE Policy(q)
    BY <2>8 DEF Policy, Tokens
  <2>9. CASE CountMinute(q)
    BY <2>9, Constants DEF CountMinute, OnTime
  <2>10. CASE CountMinuteFails(q)
    BY <2>10 DEF CountMinuteFails
  <2>11. CASE CountHour(q)
    BY <2>11, Constants, Buckets DEF CountHour, OnTime
  <2>12. CASE CountHourFails(q)
    BY <2>12 DEF CountHourFails
  <2>13. CASE Decide(q)
    BY <2>13, Constants, Buckets DEF Decide, Passes
  <2>14. CASE Leave(q)
    BY <2>14, Buckets DEF Leave, Tokens
  <2> QED BY <1>2, <2>1, <2>2, <2>3, <2>4, <2>5, <2>6, <2>7, <2>8, <2>9, <2>10, <2>11,
             <2>12, <2>13, <2>14 DEF RequestStep
<1>3. ASSUME NEW e \in Entries, Blacklisted(e) PROVE AccessTypeOK'
  BY <1>3 DEF Blacklisted, request, passes
<1>4. CASE NextMinute
  BY <1>4, Buckets DEF NextMinute, request, passes
<1>5. ASSUME NEW ms \in SUBSET Minutes, NEW hs \in SUBSET Hours, Expire(ms, hs)
      PROVE  AccessTypeOK'
  BY <1>5, Constants DEF Expire, request, passes
<1> QED BY <1>1, <1>2, <1>3, <1>4, <1>5 DEF AccessNext

\* A doomed request is stopped by the check of the entry that is there.
LEMMA BlacklistStep ==
  ASSUME AccessTypeOK, Identified, Stopped, [AccessNext]_accessVars
  PROVE  Identified' /\ Stopped'
<1> USE DEF AccessTypeOK, Identified, Stopped
<1>1. CASE UNCHANGED accessVars
  BY <1>1 DEF accessVars
<1>2. ASSUME NEW q \in Request, RequestStep(q) PROVE Identified' /\ Stopped'
  <2> USE DEF AccessAt, shared, passes, request
  <2>1. CASE BeginExempt(q)
    BY <2>1 DEF BeginExempt, Arrives
  <2>2. ASSUME NEW w \in Tokens, Begin(q, w) PROVE Identified' /\ Stopped'
    BY <2>2 DEF Begin, Arrives
  <2>3. CASE Connect(q)
    BY <2>3 DEF Connect
  <2>4. CASE ConnectFails(q)
    BY <2>4 DEF ConnectFails
  <2>5. ASSUME NEW e \in Entries, Check(q, e) PROVE Identified' /\ Stopped'
    <3>1. at[q] = e /\ who[q] # "anonymous"
      BY <2>5 DEF Check, Entries
    <3>2. /\ e \in black => at'[q] = "refused"
          /\ e = "jti" /\ e \notin black => at'[q] = "sub"
          /\ e = "sub" /\ e \notin black => at'[q] \in {"roles", "policy", "refused"}
      BY <2>5, <3>1 DEF Check, AfterCheck, Cleared, Tokens
    <3>3. \A p \in Request \ {q} : at'[p] = at[p]
      BY <2>5 DEF Check
    <3>4. UNCHANGED <<doomed, who, black>>
      BY <2>5 DEF Check
    <3>5. doomed[q] /\ e = "sub" => e \in black
      BY <3>1
    <3>6. doomed[q] /\ "jti" \notin black => "sub" \in black
      BY DEF Entries
    <3> QED BY <3>1, <3>2, <3>3, <3>4, <3>5, <3>6 DEF Entries
  <2>6. ASSUME NEW e \in Entries, CheckFails(q, e) PROVE Identified' /\ Stopped'
    <3>1. at[q] = e /\ who[q] # "anonymous"
      BY <2>6 DEF CheckFails, Entries
    <3>2. at'[q] \in {"sub", "roles", "policy", "refused"}
      BY <2>6, <3>1 DEF CheckFails, AfterCheck, Cleared, Tokens, Entries
    <3> QED BY <2>6, <3>1, <3>2 DEF CheckFails
  <2>7. ASSUME NEW r \in Role, ResolveRole(q, r) PROVE Identified' /\ Stopped'
    BY <2>7 DEF ResolveRole
  <2>8. CASE RolesDone(q)
    BY <2>8 DEF RolesDone
  <2>9. CASE Policy(q)
    BY <2>9 DEF Policy
  <2>10. CASE CountMinute(q) \/ CountMinuteFails(q)
    BY <2>10 DEF CountMinute, CountMinuteFails
  <2>11. CASE CountHour(q) \/ CountHourFails(q)
    BY <2>11 DEF CountHour, CountHourFails
  <2>12. CASE Decide(q)
    BY <2>12 DEF Decide
  <2>13. CASE Leave(q)
    BY <2>13 DEF Leave
  <2> QED BY <1>2, <2>1, <2>2, <2>3, <2>4, <2>5, <2>6, <2>7, <2>8, <2>9, <2>10, <2>11,
             <2>12, <2>13 DEF RequestStep
<1>3. ASSUME NEW e \in Entries, Blacklisted(e) PROVE Identified' /\ Stopped'
  BY <1>3 DEF Blacklisted, request, passes
<1>4. CASE NextMinute
  BY <1>4 DEF NextMinute, request, passes
<1>5. ASSUME NEW ms \in SUBSET Minutes, NEW hs \in SUBSET Hours, Expire(ms, hs)
      PROVE  Identified' /\ Stopped'
  BY <1>5 DEF Expire, request, passes
<1> QED BY <1>1, <1>2, <1>3, <1>4, <1>5 DEF AccessNext

\* Counts are taken in their order, and forgotten when a request leaves.
LEMMA UntimelyStep ==
  ASSUME AccessTypeOK, Untimely, [AccessNext]_accessVars
  PROVE  Untimely'
<1> USE DEF AccessTypeOK, Untimely
<1>1. CASE UNCHANGED accessVars
  BY <1>1 DEF accessVars
<1>2. ASSUME NEW q \in Request, RequestStep(q) PROVE Untimely'
  <2> USE DEF AccessAt, shared, passes, request
  <2>1. CASE BeginExempt(q) \/ \E w \in Tokens : Begin(q, w)
    BY <2>1 DEF BeginExempt, Begin, Arrives
  <2>2. CASE Connect(q) \/ ConnectFails(q)
    BY <2>2 DEF Connect, ConnectFails
  <2>3. CASE \E e \in Entries : Check(q, e) \/ CheckFails(q, e)
    <3>1. at[q] \in {"jti", "sub"} /\ timely' = timely
      BY <2>3 DEF Check, CheckFails, Entries
    <3>2. \A p \in Request \ {q} : at'[p] = at[p]
      BY <2>3 DEF Check, CheckFails
    <3> QED BY <3>1, <3>2
  <2>4. CASE (\E r \in Role : ResolveRole(q, r)) \/ RolesDone(q) \/ Policy(q)
    BY <2>4 DEF ResolveRole, RolesDone, Policy
  <2>5. CASE CountMinute(q) \/ CountMinuteFails(q)
    BY <2>5 DEF CountMinute, CountMinuteFails, OnTime
  <2>6. CASE CountHour(q) \/ CountHourFails(q)
    BY <2>6 DEF CountHour, CountHourFails, OnTime
  <2>7. CASE Decide(q) \/ Leave(q)
    BY <2>7 DEF Decide, Leave
  <2> QED BY <1>2, <2>1, <2>2, <2>3, <2>4, <2>5, <2>6, <2>7 DEF RequestStep
<1>3. CASE \E e \in Entries : Blacklisted(e)
  BY <1>3 DEF Blacklisted, request, passes
<1>4. CASE NextMinute
  BY <1>4 DEF NextMinute, request, passes
<1>5. CASE \E ms \in SUBSET Minutes, hs \in SUBSET Hours : Expire(ms, hs)
  BY <1>5 DEF Expire, request, passes
<1> QED BY <1>1, <1>2, <1>3, <1>4, <1>5 DEF AccessNext

-----------------------------------------------------------------------------
(* The limits.                                                             *)

\* Adding and removing a request.
LEMMA Sizes ==
  ASSUME NEW S, IsFiniteSet(S), NEW T, NEW q
  PROVE  /\ Cardinality(S) \in Nat
         /\ T \subseteq S => Cardinality(T) \in Nat /\ Cardinality(T) <= Cardinality(S)
         /\ T \subseteq S \union {q} =>
              Cardinality(T) \in Nat /\ Cardinality(T) <= Cardinality(S) + 1
         /\ q \in S /\ T \subseteq S \ {q} =>
              Cardinality(T) \in Nat /\ Cardinality(T) + 1 <= Cardinality(S)
<1>1. Cardinality(S) \in Nat
  BY FS_CardinalityType
<1>2. ASSUME T \subseteq S
      PROVE  Cardinality(T) \in Nat /\ Cardinality(T) <= Cardinality(S)
  BY <1>2, FS_Subset, FS_CardinalityType
<1>3. ASSUME T \subseteq S \union {q}
      PROVE  Cardinality(T) \in Nat /\ Cardinality(T) <= Cardinality(S) + 1
  <2>1. /\ IsFiniteSet(S \union {q}) /\ Cardinality(S \union {q}) \in Nat
        /\ Cardinality(S \union {q}) <= Cardinality(S) + 1
    BY <1>1, FS_AddElement, FS_CardinalityType
  <2>2. Cardinality(T) \in Nat /\ Cardinality(T) <= Cardinality(S \union {q})
    BY <1>3, <2>1, FS_Subset, FS_CardinalityType
  <2> QED BY <1>1, <2>1, <2>2
<1>4. ASSUME q \in S, T \subseteq S \ {q}
      PROVE  Cardinality(T) \in Nat /\ Cardinality(T) + 1 <= Cardinality(S)
  <2>1. IsFiniteSet(S \ {q}) /\ Cardinality(S \ {q}) = Cardinality(S) - 1
    BY <1>4, FS_RemoveElement
  <2>2. Cardinality(S \ {q}) \in Nat
    BY <2>1, FS_CardinalityType
  <2>3. Cardinality(T) \in Nat /\ Cardinality(T) <= Cardinality(S \ {q})
    BY <1>4, <2>1, FS_Subset, FS_CardinalityType
  <2> QED BY <1>1, <2>1, <2>2, <2>3
<1> QED BY <1>1, <1>2, <1>3, <1>4

\* Only finitely many requests hold a count.
LEMMA HoldersFinite ==
  /\ \A m \in Minutes : IsFiniteSet(HoldsMinute(m))
  /\ \A h \in Hours : IsFiniteSet(HoldsHour(h))
<1>1. IsFiniteSet(Request)
  BY AccessAssumption
<1>2. /\ \A m \in Minutes : HoldsMinute(m) \subseteq Request
      /\ \A h \in Hours : HoldsHour(h) \subseteq Request
  BY DEF HoldsMinute, HoldsHour
<1> QED BY <1>1, <1>2, FS_Subset

\* Nobody takes a count, and no counter of a bucket that lasts goes down.
QuietMinutes ==
  \A m \in Minutes :
    /\ HoldsMinute(m)' \subseteq HoldsMinute(m) /\ passedMinute'[m] = passedMinute[m]
    /\ m >= minute' => m >= minute /\ perMinute'[m] >= perMinute[m]

QuietHours ==
  \A h \in Hours :
    /\ HoldsHour(h)' \subseteq HoldsHour(h) /\ passedHour'[h] = passedHour[h]
    /\ h >= HourOf(minute)' => h >= HourOf(minute) /\ perHour'[h] >= perHour[h]

\* A request stays what it was, or is none that holds a count.
LetsGo ==
  \A q \in Request :
    \/ UNCHANGED <<at[q], bucket[q], within[q], timely[q]>>
    \/ at'[q] \notin {"hour", "decide"}
    \/ within'[q] # "yes"

\* Then no request comes to hold a count.
LEMMA LetsGoHolders ==
  ASSUME LetsGo
  PROVE  /\ \A m \in Minutes : HoldsMinute(m)' \subseteq HoldsMinute(m)
         /\ \A h \in Hours : HoldsHour(h)' \subseteq HoldsHour(h)
<1>1. ASSUME NEW m \in Minutes, NEW q \in HoldsMinute(m)' PROVE q \in HoldsMinute(m)
  BY <1>1 DEF LetsGo, HoldsMinute
<1>2. ASSUME NEW h \in Hours, NEW q \in HoldsHour(h)' PROVE q \in HoldsHour(h)
  BY <1>2 DEF LetsGo, HoldsHour, HourOf
<1> QED BY <1>1, <1>2

Counting(q) == CountMinute(q) \/ CountHour(q) \/ CountHourFails(q) \/ Decide(q)

\* All but four actions are quiet.
LEMMA QuietStep ==
  ASSUME AccessTypeOK, Identified, [AccessNext]_accessVars,
         \A q \in Request : ~Counting(q)
  PROVE  QuietMinutes /\ QuietHours
<1> USE DEF AccessTypeOK
<1>1. CASE UNCHANGED <<shared, passes>> /\ LetsGo
  <2>1. UNCHANGED <<minute, perMinute, perHour, passedMinute, passedHour>>
    BY <1>1 DEF shared, passes
  <2>2. HourOf(minute)' = HourOf(minute)
    BY <2>1 DEF HourOf
  <2>3. \A m \in Minutes : perMinute[m] \in Int
    BY Constants
  <2>4. \A h \in Hours : perHour[h] \in Int
    BY Constants
  <2> QED BY <1>1, <2>1, <2>2, <2>3, <2>4, LetsGoHolders DEF QuietMinutes, QuietHours
<1>2. CASE UNCHANGED accessVars
  BY <1>1, <1>2 DEF accessVars, shared, passes, LetsGo
<1>3. ASSUME NEW q \in Request, RequestStep(q)
      PROVE  UNCHANGED <<shared, passes>> /\ LetsGo
  <2> USE DEF AccessAt, shared, passes, request, LetsGo
  <2>1. CASE BeginExempt(q) \/ \E w \in Tokens : Begin(q, w)
    BY <2>1 DEF BeginExempt, Begin, Arrives
  <2>2. CASE Connect(q) \/ ConnectFails(q)
    BY <2>2 DEF Connect, ConnectFails
  <2>3. ASSUME NEW e \in Entries, Check(q, e) \/ CheckFails(q, e)
        PROVE  UNCHANGED <<shared, passes>> /\ LetsGo
    <3>1. at'[q] \notin {"hour", "decide"}
      <4>1. at[q] = e /\ who[q] # "anonymous"
        BY <2>3 DEF Check, CheckFails, Identified, Entries
      <4>2. AfterCheck(q, e) \notin {"hour", "decide"}
        BY <4>1 DEF AfterCheck, Cleared, Tokens
      <4> QED BY <2>3, <4>2 DEF Check, CheckFails
    <3> QED BY <2>3, <3>1 DEF Check, CheckFails
  <2>4. CASE (\E r \in Role : ResolveRole(q, r)) \/ RolesDone(q) \/ Policy(q)
    BY <2>4 DEF ResolveRole, RolesDone, Policy
  <2>5. CASE CountMinuteFails(q)
    BY <2>5 DEF CountMinuteFails
  <2>6. CASE Leave(q)
    BY <2>6 DEF Leave
  <2> QED BY <1>3, <2>1, <2>2, <2>3, <2>4, <2>5, <2>6 DEF RequestStep, Counting
<1>4. CASE \E e \in Entries : Blacklisted(e)
  <2>1. UNCHANGED <<minute, perMinute, perHour, at, bucket, within, timely, passes>>
    BY <1>4 DEF Blacklisted, request
  <2>2. LetsGo
    BY <2>1 DEF LetsGo
  <2>3. HourOf(minute)' = HourOf(minute)
    BY <2>1 DEF HourOf
  <2>4. \A m \in Minutes : perMinute[m] \in Int
    BY Constants
  <2>5. \A h \in Hours : perHour[h] \in Int
    BY Constants
  <2> QED BY <2>1, <2>2, <2>3, <2>4, <2>5, LetsGoHolders DEF QuietMinutes, QuietHours, passes
<1>5. CASE NextMinute
  <2>1. UNCHANGED <<perMinute, perHour, at, bucket, within, timely, passes>>
    BY <1>5 DEF NextMinute, request
  <2>2. LetsGo
    BY <2>1 DEF LetsGo
  <2>3. minute <= minute' /\ minute' \in Minutes
    BY <1>5, Buckets DEF NextMinute
  <2>4. HourOf(minute) <= HourOf(minute') /\ HourOf(minute) \in Nat /\ HourOf(minute') \in Nat
    BY <2>3, Buckets
  <2>5. HourOf(minute)' = HourOf(minute')
    BY DEF HourOf
  <2>6. ASSUME NEW m \in Minutes, m >= minute'
        PROVE  m >= minute /\ perMinute'[m] >= perMinute[m]
    BY <2>1, <2>3, <2>6, Constants, Buckets
  <2>7. ASSUME NEW h \in Hours, h >= HourOf(minute')
        PROVE  h >= HourOf(minute) /\ perHour'[h] >= perHour[h]
    BY <2>1, <2>4, <2>7, Constants, Buckets
  <2> QED BY <2>1, <2>2, <2>5, <2>6, <2>7, LetsGoHolders DEF QuietMinutes, QuietHours, passes
<1>6. ASSUME NEW ms \in SUBSET Minutes, NEW hs \in SUBSET Hours, Expire(ms, hs)
      PROVE  QuietMinutes /\ QuietHours
  <2>1. UNCHANGED <<minute, at, bucket, within, timely, passes>>
    BY <1>6 DEF Expire, request
  <2>2. LetsGo
    BY <2>1 DEF LetsGo
  <2>3. HourOf(minute)' = HourOf(minute) /\ HourOf(minute) \in Nat
    BY <2>1, Buckets DEF HourOf
  <2>4. ASSUME NEW m \in Minutes, m >= minute PROVE perMinute'[m] >= perMinute[m]
    BY <1>6, <2>4, Constants, Buckets DEF Expire
  <2>5. ASSUME NEW h \in Hours, h >= HourOf(minute) PROVE perHour'[h] >= perHour[h]
    BY <1>6, <2>3, <2>5, Constants, Buckets DEF Expire
  <2> QED BY <2>1, <2>2, <2>3, <2>4, <2>5, LetsGoHolders DEF QuietMinutes, QuietHours, passes
<1> QED BY <1>1, <1>2, <1>3, <1>4, <1>5, <1>6 DEF AccessNext

\* A quiet step keeps the limits.
LEMMA QuietHolds ==
  ASSUME AccessTypeOK, AccessTypeOK', MinutesHeld, HoursHeld
  PROVE  (QuietMinutes => MinutesHeld') /\ (QuietHours => HoursHeld')
<1>1. ASSUME QuietMinutes, NEW m \in Minutes
      PROVE  /\ Cardinality(HoldsMinute(m)') + passedMinute'[m] <= MinuteLimit
             /\ m >= minute' => Cardinality(HoldsMinute(m)') + passedMinute'[m] <= perMinute'[m]
  <2>1. /\ Cardinality(HoldsMinute(m)) \in Nat /\ Cardinality(HoldsMinute(m)') \in Nat
        /\ Cardinality(HoldsMinute(m)') <= Cardinality(HoldsMinute(m))
    BY <1>1, HoldersFinite, Sizes DEF QuietMinutes
  <2>2. /\ passedMinute[m] \in Nat /\ perMinute[m] \in Nat /\ perMinute'[m] \in Nat
        /\ MinuteLimit \in Nat
    BY Constants DEF AccessTypeOK
  <2>3. passedMinute'[m] = passedMinute[m]
    BY <1>1 DEF QuietMinutes
  <2>4. m >= minute' => m >= minute /\ perMinute'[m] >= perMinute[m]
    BY <1>1 DEF QuietMinutes
  <2> QED BY <2>1, <2>2, <2>3, <2>4 DEF MinutesHeld
<1>2. ASSUME QuietHours, NEW h \in Hours
      PROVE  /\ Cardinality(HoldsHour(h)') + passedHour'[h] <= HourLimit
             /\ h >= HourOf(minute)' => Cardinality(HoldsHour(h)') + passedHour'[h] <= perHour'[h]
  <2>1. /\ Cardinality(HoldsHour(h)) \in Nat /\ Cardinality(HoldsHour(h)') \in Nat
        /\ Cardinality(HoldsHour(h)') <= Cardinality(HoldsHour(h))
    BY <1>2, HoldersFinite, Sizes DEF QuietHours
  <2>2. /\ passedHour[h] \in Nat /\ perHour[h] \in Nat /\ perHour'[h] \in Nat
        /\ HourLimit \in Nat
    BY Constants DEF AccessTypeOK
  <2>3. passedHour'[h] = passedHour[h]
    BY <1>2 DEF QuietHours
  <2>4. h >= HourOf(minute)' => h >= HourOf(minute) /\ perHour'[h] >= perHour[h]
    BY <1>2 DEF QuietHours
  <2> QED BY <2>1, <2>2, <2>3, <2>4 DEF HoursHeld
<1> QED BY <1>1, <1>2 DEF MinutesHeld, HoursHeld

\* A request that finds the minute's counter within the limit now holds a count.
LEMMA CountMinuteHolds ==
  ASSUME AccessTypeOK, AccessTypeOK', Untimely, MinutesHeld, NEW q \in Request, CountMinute(q)
  PROVE  MinutesHeld' /\ QuietHours
<1> USE DEF AccessTypeOK, CountMinute, AccessAt, OnTime
<1>1. QuietHours
  <2>1. HourOf(minute)' = HourOf(minute)
    BY DEF HourOf
  <2>2. ASSUME NEW h \in Hours, NEW p \in HoldsHour(h)' PROVE p \in HoldsHour(h)
    BY <2>2 DEF HoldsHour, HourOf
  <2>3. \A h \in Hours : perHour[h] \in Int
    BY Constants
  <2> QED BY <2>1, <2>2, <2>3 DEF QuietHours, passes
<1>2. ASSUME NEW m \in Minutes
      PROVE  /\ Cardinality(HoldsMinute(m)') + passedMinute'[m] <= MinuteLimit
             /\ m >= minute' => Cardinality(HoldsMinute(m)') + passedMinute'[m] <= perMinute'[m]
  <2>1. /\ passedMinute[m] \in Nat /\ perMinute[m] \in 0..CountCap /\ perMinute'[m] \in Nat
        /\ MinuteLimit \in Nat /\ CountCap \in Nat /\ IsFiniteSet(HoldsMinute(m))
    BY Constants, HoldersFinite
  <2>2. passedMinute'[m] = passedMinute[m] /\ minute' = minute
    BY DEF passes
  <2>3. perMinute'[m] = IF m = bucket[q] THEN Capped(perMinute[m] + 1) ELSE perMinute[m]
    OBVIOUS
  <2>4. perMinute'[m] >= perMinute[m]
    BY <2>1, <2>3, Constants
  <2>5. /\ Cardinality(HoldsMinute(m)) + passedMinute[m] <= MinuteLimit
        /\ m >= minute => Cardinality(HoldsMinute(m)) + passedMinute[m] <= perMinute[m]
    BY DEF MinutesHeld
  <2>6. HoldsMinute(m)' \subseteq HoldsMinute(m) \union {q}
    BY DEF HoldsMinute
  <2>7. CASE q \in HoldsMinute(m)'
    <3>0. bucket[q] = m /\ within'[q] = "yes" /\ "minute" \in timely'[q]
      BY <2>7 DEF HoldsMinute
    <3>1. bucket[q] = m /\ within'[q] = "yes" /\ m = minute
      BY <3>0 DEF Untimely
    <3>2. perMinute'[m] = perMinute[m] + 1 /\ perMinute[m] + 1 <= MinuteLimit
      <4>1. ~Exceeds(Capped(perMinute[m] + 1), MinuteLimit)
        BY <2>3, <3>1
      <4> QED BY <2>1, <2>3, <3>1, <4>1, Constants
    <3>3. /\ Cardinality(HoldsMinute(m)) \in Nat /\ Cardinality(HoldsMinute(m)') \in Nat
          /\ Cardinality(HoldsMinute(m)') <= Cardinality(HoldsMinute(m)) + 1
      BY <2>1, <2>6, Sizes
    <3>4. m >= minute /\ m \in Int
      BY <3>1, Buckets
    <3> QED BY <2>1, <2>2, <2>5, <3>2, <3>3, <3>4
  <2>8. CASE q \notin HoldsMinute(m)'
    <3>1. HoldsMinute(m)' \subseteq HoldsMinute(m)
      BY <2>6, <2>8
    <3>2. /\ Cardinality(HoldsMinute(m)) \in Nat /\ Cardinality(HoldsMinute(m)') \in Nat
          /\ Cardinality(HoldsMinute(m)') <= Cardinality(HoldsMinute(m))
      BY <2>1, <3>1, Sizes
    <3> QED BY <2>1, <2>2, <2>4, <2>5, <3>2
  <2> QED BY <2>7, <2>8
<1> QED BY <1>1, <1>2 DEF MinutesHeld

\* The same for the hour; and it may lose its hold on the minute.
LEMMA CountHourHolds ==
  ASSUME AccessTypeOK, AccessTypeOK', Untimely, HoursHeld, NEW q \in Request, CountHour(q)
  PROVE  HoursHeld' /\ QuietMinutes
<1> USE DEF AccessTypeOK, CountHour, AccessAt, OnTime
<1>1. QuietMinutes
  <2>1. ASSUME NEW m \in Minutes, NEW p \in HoldsMinute(m)' PROVE p \in HoldsMinute(m)
    BY <2>1 DEF HoldsMinute
  <2>2. \A m \in Minutes : perMinute[m] \in Int
    BY Constants
  <2> QED BY <2>1, <2>2 DEF QuietMinutes, passes
<1>2. HourOf(bucket[q]) \in Hours /\ HourOf(minute)' = HourOf(minute) /\ bucket' = bucket
  BY Buckets DEF HourOf
<1>3. ASSUME NEW h \in Hours
      PROVE  /\ Cardinality(HoldsHour(h)') + passedHour'[h] <= HourLimit
             /\ h >= HourOf(minute)' => Cardinality(HoldsHour(h)') + passedHour'[h] <= perHour'[h]
  <2>1. /\ passedHour[h] \in Nat /\ perHour[h] \in 0..CountCap /\ perHour'[h] \in Nat
        /\ HourLimit \in Nat /\ CountCap \in Nat /\ IsFiniteSet(HoldsHour(h))
    BY Constants, HoldersFinite
  <2>2. passedHour'[h] = passedHour[h]
    BY DEF passes
  <2>3. perHour'[h] = IF h = HourOf(bucket[q]) THEN Capped(perHour[h] + 1) ELSE perHour[h]
    BY <1>2
  <2>4. perHour'[h] >= perHour[h]
    BY <2>1, <2>3, Constants
  <2>5. /\ Cardinality(HoldsHour(h)) + passedHour[h] <= HourLimit
        /\ h >= HourOf(minute) => Cardinality(HoldsHour(h)) + passedHour[h] <= perHour[h]
    BY DEF HoursHeld
  <2>6. HoldsHour(h)' \subseteq HoldsHour(h) \union {q}
    BY DEF HoldsHour, HourOf
  <2>7. CASE q \in HoldsHour(h)'
    <3>1. HourOf(bucket[q]) = h /\ within'[q] = "yes" /\ "hour" \in timely'[q]
      BY <2>7, <1>2 DEF HoldsHour, HourOf
    <3>2. HourOf(minute) = h
      BY <3>1 DEF Untimely
    <3>3. perHour'[h] = perHour[h] + 1 /\ perHour[h] + 1 <= HourLimit
      <4>1. ~Exceeds(Capped(perHour[h] + 1), HourLimit)
        BY <2>3, <3>1
      <4> QED BY <2>1, <2>3, <3>1, <4>1, Constants
    <3>4. /\ Cardinality(HoldsHour(h)) \in Nat /\ Cardinality(HoldsHour(h)') \in Nat
          /\ Cardinality(HoldsHour(h)') <= Cardinality(HoldsHour(h)) + 1
      <4> HIDE DEF AccessTypeOK, CountHour, AccessAt, OnTime
      <4>1. IsFiniteSet(HoldsHour(h))
        BY <2>1
      <4> QED BY <2>6, <4>1, Sizes
    <3>5. h >= HourOf(minute) /\ h \in Int
      BY <3>2, Buckets
    <3> QED BY <2>1, <2>2, <2>5, <3>3, <3>4, <3>5
  <2>8. CASE q \notin HoldsHour(h)'
    <3>1. HoldsHour(h)' \subseteq HoldsHour(h)
      BY <2>6, <2>8
    <3>2. /\ Cardinality(HoldsHour(h)) \in Nat /\ Cardinality(HoldsHour(h)') \in Nat
          /\ Cardinality(HoldsHour(h)') <= Cardinality(HoldsHour(h))
      BY <2>1, <3>1, Sizes
    <3> QED BY <1>2, <2>1, <2>2, <2>4, <2>5, <3>2
  <2> QED BY <2>7, <2>8
<1> QED BY <1>1, <1>3 DEF HoursHeld

\* A request whose hour was not counted holds none.
LEMMA HourFailsQuiet ==
  ASSUME AccessTypeOK, Untimely, NEW q \in Request, CountHourFails(q)
  PROVE  QuietMinutes /\ QuietHours
<1> USE DEF AccessTypeOK, CountHourFails, AccessAt
<1>1. UNCHANGED <<minute, perMinute, perHour, passedMinute, passedHour, bucket, within, timely>>
  BY DEF shared, passes, request
<1>2. ASSUME NEW m \in Minutes, NEW p \in HoldsMinute(m)' PROVE p \in HoldsMinute(m)
  BY <1>1, <1>2 DEF HoldsMinute
<1>3. ASSUME NEW h \in Hours, NEW p \in HoldsHour(h)' PROVE p \in HoldsHour(h)
  <2>1. "hour" \in timely[p] /\ p \in Request
    BY <1>1, <1>3 DEF HoldsHour
  <2>2. p # q
    BY <2>1 DEF Untimely
  <2> QED BY <1>1, <1>3, <2>2 DEF HoldsHour, HourOf
<1>4. HourOf(minute)' = HourOf(minute)
  BY <1>1 DEF HourOf
<1>5. \A m \in Minutes : perMinute[m] \in Int
  BY Constants
<1>6. \A h \in Hours : perHour[h] \in Int
  BY Constants
<1> QED BY <1>1, <1>2, <1>3, <1>4, <1>5, <1>6 DEF QuietMinutes, QuietHours

\* A request that gets through spends what it held.
LEMMA DecideHolds ==
  ASSUME AccessTypeOK, AccessTypeOK', MinutesHeld, HoursHeld, NEW q \in Request, Decide(q)
  PROVE  MinutesHeld' /\ HoursHeld'
<1> USE DEF AccessTypeOK, Decide, AccessAt
<1>1. /\ UNCHANGED <<minute, perMinute, perHour, bucket, within, timely>>
      /\ at[q] = "decide" /\ at'[q] \in {"refused", "forwarded"}
      /\ \A p \in Request \ {q} : at'[p] = at[p]
  BY DEF shared, request
<1>2. HourOf(minute)' = HourOf(minute) /\ HourOf(bucket[q]) \in Hours
  BY <1>1, Buckets DEF HourOf
<1>3. ASSUME NEW m \in Minutes
      PROVE  /\ Cardinality(HoldsMinute(m)') + passedMinute'[m] <= MinuteLimit
             /\ m >= minute' => Cardinality(HoldsMinute(m)') + passedMinute'[m] <= perMinute'[m]
  <2>1. /\ passedMinute[m] \in 0..CountCap /\ perMinute[m] \in Nat
        /\ MinuteLimit \in Nat /\ CountCap \in Nat /\ IsFiniteSet(HoldsMinute(m))
    BY Constants, HoldersFinite
  <2>2. /\ Cardinality(HoldsMinute(m)) + passedMinute[m] <= MinuteLimit
        /\ m >= minute => Cardinality(HoldsMinute(m)) + passedMinute[m] <= perMinute[m]
    BY DEF MinutesHeld
  <2>3. HoldsMinute(m)' \subseteq HoldsMinute(m) \ {q}
    BY <1>1 DEF HoldsMinute
  <2>4. CASE passedMinute'[m] = passedMinute[m]
    <3>1. /\ Cardinality(HoldsMinute(m)) \in Nat /\ Cardinality(HoldsMinute(m)') \in Nat
          /\ Cardinality(HoldsMinute(m)') <= Cardinality(HoldsMinute(m))
      BY <2>1, <2>3, Sizes
    <3> QED BY <1>1, <2>1, <2>2, <2>4, <3>1
  <2>5. CASE passedMinute'[m] # passedMinute[m]
    <3>1. /\ within[q] = "yes" /\ "minute" \in timely[q] /\ bucket[q] = m
          /\ passedMinute'[m] = Capped(passedMinute[m] + 1)
      BY <2>5 DEF Passes
    <3>2. q \in HoldsMinute(m)
      BY <1>1, <3>1 DEF HoldsMinute
    <3>3. /\ Cardinality(HoldsMinute(m)) \in Nat /\ Cardinality(HoldsMinute(m)') \in Nat
          /\ Cardinality(HoldsMinute(m)') + 1 <= Cardinality(HoldsMinute(m))
      BY <2>1, <2>3, <3>2, Sizes
    <3>4. passedMinute'[m] \in Nat /\ passedMinute'[m] <= passedMinute[m] + 1
      BY <2>1, <3>1, Constants
    <3> QED BY <1>1, <2>1, <2>2, <3>3, <3>4
  <2> QED BY <2>4, <2>5
<1>4. ASSUME NEW h \in Hours
      PROVE  /\ Cardinality(HoldsHour(h)') + passedHour'[h] <= HourLimit
             /\ h >= HourOf(minute)' => Cardinality(HoldsHour(h)') + passedHour'[h] <= perHour'[h]
  <2>1. /\ passedHour[h] \in 0..CountCap /\ perHour[h] \in Nat
        /\ HourLimit \in Nat /\ CountCap \in Nat /\ IsFiniteSet(HoldsHour(h))
    BY Constants, HoldersFinite
  <2>2. /\ Cardinality(HoldsHour(h)) + passedHour[h] <= HourLimit
        /\ h >= HourOf(minute) => Cardinality(HoldsHour(h)) + passedHour[h] <= perHour[h]
    BY DEF HoursHeld
  <2>3. HoldsHour(h)' \subseteq HoldsHour(h) \ {q}
    BY <1>1 DEF HoldsHour, HourOf
  <2>4. CASE passedHour'[h] = passedHour[h]
    <3>1. /\ Cardinality(HoldsHour(h)) \in Nat /\ Cardinality(HoldsHour(h)') \in Nat
          /\ Cardinality(HoldsHour(h)') <= Cardinality(HoldsHour(h))
      BY <2>1, <2>3, Sizes
    <3> QED BY <1>1, <1>2, <2>1, <2>2, <2>4, <3>1
  <2>5. CASE passedHour'[h] # passedHour[h]
    <3>1. /\ within[q] = "yes" /\ "hour" \in timely[q] /\ HourOf(bucket[q]) = h
          /\ passedHour'[h] = Capped(passedHour[h] + 1)
      BY <2>5 DEF Passes
    <3>2. q \in HoldsHour(h)
      BY <1>1, <3>1 DEF HoldsHour
    <3>3. /\ Cardinality(HoldsHour(h)) \in Nat /\ Cardinality(HoldsHour(h)') \in Nat
          /\ Cardinality(HoldsHour(h)') + 1 <= Cardinality(HoldsHour(h))
      BY <2>1, <2>3, <3>2, Sizes
    <3>4. passedHour'[h] \in Nat /\ passedHour'[h] <= passedHour[h] + 1
      BY <2>1, <3>1, Constants
    <3> QED BY <1>1, <1>2, <2>1, <2>2, <3>3, <3>4
  <2> QED BY <2>4, <2>5
<1> QED BY <1>3, <1>4 DEF MinutesHeld, HoursHeld

-----------------------------------------------------------------------------
(* The theorems about the access phase.                                    *)

\* The invariant of the access phase.
LEMMA AccessHolds == AccessSpec => []AccessInv
<1>1. AccessInit => AccessInv
  <2> SUFFICES ASSUME AccessInit PROVE AccessInv
    OBVIOUS
  <2>1. AccessTypeOK
    BY Constants, Buckets DEF AccessInit, AccessTypeOK, Places, Tokens, Entries
  <2>2. Identified /\ Stopped /\ Untimely
    BY DEF AccessInit, Identified, Stopped, Untimely
  <2>3. /\ \A m \in Minutes : HoldsMinute(m) = {} /\ passedMinute[m] = 0 /\ perMinute[m] = 0
        /\ \A h \in Hours : HoldsHour(h) = {} /\ passedHour[h] = 0 /\ perHour[h] = 0
    BY DEF AccessInit, HoldsMinute, HoldsHour
  <2>4. MinutesHeld /\ HoursHeld
    <3>1. Cardinality({}) = 0 /\ MinuteLimit \in Nat /\ HourLimit \in Nat
      BY FS_EmptySet, Constants
    <3>2. MinutesHeld
      BY <2>3, <3>1 DEF MinutesHeld
    <3>3. HoursHeld
      BY <2>3, <3>1 DEF HoursHeld
    <3> QED BY <3>2, <3>3
  <2> QED BY <2>1, <2>2, <2>4 DEF AccessInv
<1>2. AccessInv /\ [AccessNext]_accessVars => AccessInv'
  <2> SUFFICES ASSUME AccessInv, [AccessNext]_accessVars PROVE AccessInv'
    OBVIOUS
  <2> USE DEF AccessInv
  <2>1. AccessTypeOK' /\ Identified' /\ Stopped' /\ Untimely'
    BY TypeStep, BlacklistStep, UntimelyStep
  <2>2. CASE \A q \in Request : ~Counting(q)
    BY <2>1, <2>2, QuietStep, QuietHolds
  <2>3. ASSUME NEW q \in Request, Counting(q) PROVE MinutesHeld' /\ HoursHeld'
    <3>1. CASE CountMinute(q)
      BY <2>1, <3>1, CountMinuteHolds, QuietHolds
    <3>2. CASE CountHour(q)
      BY <2>1, <3>2, CountHourHolds, QuietHolds
    <3>3. CASE CountHourFails(q)
      BY <2>1, <3>3, HourFailsQuiet, QuietHolds
    <3>4. CASE Decide(q)
      BY <2>1, <3>4, DecideHolds
    <3> QED BY <2>3, <3>1, <3>2, <3>3, <3>4 DEF Counting
  <2> QED BY <2>1, <2>2, <2>3
<1> QED BY <1>1, <1>2, PTL DEF AccessSpec

\* Every reachable state of the access phase is well typed, for any number of
\* requests and roles and every limit.
THEOREM AccessTypeCorrect == AccessSpec => []AccessTypeOK
<1>1. AccessInv => AccessTypeOK
  BY DEF AccessInv
<1> QED BY <1>1, AccessHolds, PTL

\* No token that was on the blacklist when its request began gets through,
\* whatever fails and however requests interleave, but by the failure of the very
\* GET that would have found it.
THEOREM BlacklistStops == AccessSpec => []BlacklistedStopped
<1>1. AccessInv => BlacklistedStopped
  BY DEF AccessInv, Stopped, BlacklistedStopped
<1> QED BY <1>1, AccessHolds, PTL

\* At most the limit of a tenant's requests get through on the counts of a minute
\* and of an hour, for any limits and any number of concurrent requests.
THEOREM LimitsHold == AccessSpec => []WithinLimits
<1>1. AccessInv => WithinLimits
  <2> SUFFICES ASSUME AccessInv PROVE WithinLimits
    OBVIOUS
  <2>1. ASSUME NEW m \in Minutes PROVE passedMinute[m] <= MinuteLimit
    <3>1. Cardinality(HoldsMinute(m)) \in Nat /\ passedMinute[m] \in Nat /\ MinuteLimit \in Nat
      BY HoldersFinite, FS_CardinalityType, Constants DEF AccessInv, AccessTypeOK
    <3> QED BY <3>1 DEF AccessInv, MinutesHeld
  <2>2. ASSUME NEW h \in Hours PROVE passedHour[h] <= HourLimit
    <3>1. Cardinality(HoldsHour(h)) \in Nat /\ passedHour[h] \in Nat /\ HourLimit \in Nat
      BY HoldersFinite, FS_CardinalityType, Constants DEF AccessInv, AccessTypeOK
    <3> QED BY <3>1 DEF AccessInv, HoursHeld
  <2> QED BY <2>1, <2>2 DEF WithinLimits
<1> QED BY <1>1, AccessHolds, PTL

-----------------------------------------------------------------------------
(* Permissions: how old what a lookup holds and what a copy holds can be.  *)
(* A tick passes at most once during a lookup, so what is fetched is at    *)
(* most one tick old when it is written, and so is what is copied.         *)

CopiesAged ==
  /\ \A v \in Grants : v >= role => since[v] = 0
  /\ \A q \in Resolve :
       /\ look[q] = "setL2" => since[held[q]] <= slow[q]
       /\ look[q] = "setL1" => since[held[q]] <= L2Life + slow[q]
  /\ l2left > 0 => since[l2] + l2left <= L2Life + 1
  /\ \A g \in Gateway :
       l1left[g] > 0 => since[l1[g]] + l1left[g] <= L1Life + L2Life + 1

PermInv == PermTypeOK /\ CopiesAged /\ GrantsBounded

\* The lookup's steps keep its types.
LEMMA PermTypeStep ==
  ASSUME PermTypeOK, [PermNext]_permVars
  PROVE  PermTypeOK'
<1> USE PermissionAssumption DEF PermTypeOK, copies, lookups, LookAt, Granted, OldestGrant, AgeCap
<1>1. CASE UNCHANGED permVars
  BY <1>1 DEF permVars
<1>2. ASSUME NEW q \in Resolve, ResolveStep(q) PROVE PermTypeOK'
  <2>0. NodeOf[q] \in Gateway /\ \A v \in Grants : since[v] \in 0..AgeCap
    OBVIOUS
  <2>1. CASE L1Hit(q)
    BY <2>0, <2>1 DEF L1Hit
  <2>2. CASE L1Miss(q) \/ L2Miss(q) \/ Unresolved(q) \/ SetL2Fails(q)
    BY <2>2 DEF L1Miss, L2Miss, Unresolved, SetL2Fails
  <2>3. CASE L2Hit(q) \/ Fetch(q)
    BY <2>3 DEF L2Hit, Fetch
  <2>4. CASE SetL2(q)
    BY <2>4 DEF SetL2
  <2>5. CASE SetL1(q)
    BY <2>0, <2>5 DEF SetL1
  <2> QED BY <1>2, <2>1, <2>2, <2>3, <2>4, <2>5 DEF ResolveStep
<1>3. CASE ChangeRole
  BY <1>3 DEF ChangeRole, Grants
<1>4. CASE PermTick
  BY <1>4 DEF PermTick, Less, Grants
<1> QED BY <1>1, <1>2, <1>3, <1>4 DEF PermNext

\* The lookup's steps keep what is held and copied young enough.
LEMMA AgedStep ==
  ASSUME PermInv, PermTypeOK', [PermNext]_permVars
  PROVE  CopiesAged' /\ GrantsBounded'
<1>0. /\ L1Life \in Nat \ {0} /\ L2Life \in Nat \ {0} /\ AgeCap \in Nat
      /\ role \in Grants /\ Grants \subseteq Nat /\ eldest \in Nat
      /\ \A v \in Grants : since[v] \in Nat
      /\ l2 \in Grants /\ l2left \in Nat
      /\ \A g \in Gateway : l1[g] \in Grants /\ l1left[g] \in Nat
      /\ \A q \in Resolve : held[q] \in Grants /\ slow[q] \in 0..1 /\ NodeOf[q] \in Gateway
  BY PermissionAssumption DEF PermInv, PermTypeOK, Grants, AgeCap, OldestGrant
<1> USE <1>0 DEF PermInv, CopiesAged, GrantsBounded, OldestGrant, LookAt, copies, lookups
<1>1. CASE UNCHANGED permVars
  BY <1>1 DEF permVars
<1>2. ASSUME NEW q \in Resolve, ResolveStep(q) PROVE CopiesAged' /\ GrantsBounded'
  <2> USE DEF PermTypeOK
  <2>1. CASE L1Hit(q)
    <3>1. PICK g \in Gateway : g = NodeOf[q]
      OBVIOUS
    <3>2. since[l1[g]] \in Nat /\ l1left[g] \in Nat /\ l1left[g] > 0
      BY <2>1, <3>1 DEF L1Hit
    <3>3. since[l1[g]] + l1left[g] <= L1Life + L2Life + 1
      BY <3>2
    <3>4. since[l1[g]] <= L1Life + L2Life
      BY <3>2, <3>3
    <3>5. eldest' = IF since[l1[g]] > eldest THEN since[l1[g]] ELSE eldest
      BY <2>1, <3>1 DEF L1Hit, Granted
    <3>6. eldest' <= L1Life + L2Life
      BY <3>4, <3>5
    <3> QED BY <2>1, <3>6 DEF L1Hit
  <2>2. CASE L1Miss(q)
    BY <2>2 DEF L1Miss
  <2>3. CASE L2Miss(q) \/ Unresolved(q)
    BY <2>3 DEF L2Miss, Unresolved
  <2>4. CASE SetL2Fails(q)
    <3>1. since[held[q]] <= L2Life + slow[q]
      <4>1. since[held[q]] \in Nat /\ slow[q] \in 0..1
        OBVIOUS
      <4>2. look[q] = "setL2"
        BY <2>4 DEF SetL2Fails
      <4>3. since[held[q]] <= slow[q]
        BY <4>2
      <4> QED BY <4>1, <4>3
    <3>2. UNCHANGED <<role, l1, l1left, l2, l2left, held, slow, since, eldest>>
      BY <2>4 DEF SetL2Fails
    <3>3. look'[q] = "setL1" /\ \A p \in Resolve \ {q} : look'[p] = look[p]
      BY <2>4 DEF SetL2Fails
    <3> QED BY <3>1, <3>2, <3>3
  <2>5. CASE L2Hit(q)
    <3>1. since[l2] <= L2Life + slow[q]
      <4>1. since[l2] \in Nat /\ slow[q] \in Nat /\ l2left > 0 /\ since[l2] + l2left <= L2Life + 1
        BY <2>5 DEF L2Hit
      <4> QED BY <4>1
    <3>2. held'[q] = l2 /\ look'[q] = "setL1"
      BY <2>5 DEF L2Hit
    <3>3. \A p \in Resolve \ {q} : held'[p] = held[p] /\ look'[p] = look[p]
      BY <2>5 DEF L2Hit
    <3>4. UNCHANGED <<role, l1, l1left, l2, l2left, slow, since, eldest>>
      BY <2>5 DEF L2Hit
    <3> QED BY <3>1, <3>2, <3>3, <3>4
  <2>6. CASE Fetch(q)
    BY <2>6 DEF Fetch
  <2>7. CASE SetL2(q)
    BY <2>7 DEF SetL2
  <2>8. CASE SetL1(q)
    <3>1. since[held[q]] \in Nat /\ since[held[q]] <= L2Life + 1
      <4>1. since[held[q]] \in Nat /\ slow[q] \in 0..1 /\ since[held[q]] <= L2Life + slow[q]
        BY <2>8 DEF SetL1
      <4> QED BY <4>1
    <3>2. GrantsBounded'
      BY <2>8, <3>1 DEF SetL1, Granted
    <3>3. ASSUME NEW g \in Gateway, l1left'[g] > 0
          PROVE  since[l1'[g]] + l1left'[g] <= L1Life + L2Life + 1
      <4>1. CASE g = NodeOf[q]
        <5>1. l1'[g] = held[q] /\ l1left'[g] = L1Life
          BY <2>8, <4>1 DEF SetL1
        <5> QED BY <3>1, <5>1
      <4>2. CASE g # NodeOf[q]
        <5>1. l1'[g] = l1[g] /\ l1left'[g] = l1left[g]
          BY <2>8, <4>2 DEF SetL1
        <5> QED BY <3>3, <5>1
      <4> QED BY <4>1, <4>2
    <3> QED BY <2>8, <3>2, <3>3 DEF SetL1
  <2> QED BY <1>2, <2>1, <2>2, <2>3, <2>4, <2>5, <2>6, <2>7, <2>8 DEF ResolveStep
<1>3. CASE ChangeRole
  BY <1>3 DEF ChangeRole
<1>4. CASE PermTick
  <2>1. \A v \in Grants : since'[v] \in Nat /\ since'[v] <= since[v] + 1
    BY <1>4 DEF PermTick
  <2>2. \A v \in Grants : v >= role => since'[v] = 0
    BY <1>4 DEF PermTick
  <2>3. UNCHANGED <<role, l1, l2, look, held, eldest>>
    BY <1>4 DEF PermTick
  <2>4. \A q \in Resolve : look[q] # "idle" => slow[q] = 0 /\ slow'[q] = 1
    BY <1>4 DEF PermTick
  <2>5. l2left' > 0 => l2left > 0 /\ l2left' = l2left - 1
    BY <1>4 DEF PermTick, Less
  <2>6. \A g \in Gateway : l1left'[g] > 0 => l1left[g] > 0 /\ l1left'[g] = l1left[g] - 1
    BY <1>4 DEF PermTick, Less
  <2>7. ASSUME NEW q \in Resolve
        PROVE  /\ look[q] = "setL2" => since'[held[q]] <= slow'[q]
               /\ look[q] = "setL1" => since'[held[q]] <= L2Life + slow'[q]
    <3>1. since'[held[q]] \in Nat /\ since[held[q]] \in Nat /\ since'[held[q]] <= since[held[q]] + 1
      BY <2>1
    <3> QED BY <2>4, <3>1
  <2>8. l2left' > 0 => since'[l2] + l2left' <= L2Life + 1
    <3>1. since'[l2] \in Nat /\ since[l2] \in Nat /\ since'[l2] <= since[l2] + 1
      BY <2>1
    <3> QED BY <2>5, <3>1
  <2>9. ASSUME NEW g \in Gateway, l1left'[g] > 0
        PROVE  since'[l1[g]] + l1left'[g] <= L1Life + L2Life + 1
    <3>1. since'[l1[g]] \in Nat /\ since[l1[g]] \in Nat /\ since'[l1[g]] <= since[l1[g]] + 1
      BY <2>1
    <3>2. l1left[g] \in Nat /\ l1left[g] > 0 /\ l1left'[g] = l1left[g] - 1
      BY <2>6, <2>9
    <3>3. since[l1[g]] + l1left[g] <= L1Life + L2Life + 1
      BY <3>2
    <3> QED BY <3>1, <3>2, <3>3
  <2> QED BY <2>2, <2>3, <2>7, <2>8, <2>9
<1> QED BY <1>1, <1>2, <1>3, <1>4 DEF PermNext

\* The invariant of the permission caches.
LEMMA PermHolds == PermSpec => []PermInv
<1>1. PermInit => PermInv
  <2> SUFFICES ASSUME PermInit PROVE PermInv
    OBVIOUS
  <2>1. PermTypeOK
    BY PermissionAssumption DEF PermInit, PermTypeOK, Grants, AgeCap, OldestGrant
  <2>2. CopiesAged /\ GrantsBounded
    BY PermissionAssumption DEF PermInit, CopiesAged, GrantsBounded, OldestGrant
  <2> QED BY <2>1, <2>2 DEF PermInv
<1>2. PermInv /\ [PermNext]_permVars => PermInv'
  BY PermTypeStep, AgedStep DEF PermInv
<1> QED BY <1>1, <1>2, PTL DEF PermSpec

\* No request is given permissions that were replaced longer ago than the two
\* copies live together, for any lives, nodes and number of lookups.
THEOREM GrantsExpire == PermSpec => []GrantsBounded
<1>1. PermInv => GrantsBounded
  BY DEF PermInv
<1> QED BY <1>1, PermHolds, PTL

-----------------------------------------------------------------------------
(* The parts side by side.                                                 *)

\* Each part behaves as it does alone, so what holds of it alone holds of both.
THEOREM PartsHold == Spec => AccessSpec /\ PermSpec
<1>1. Init => AccessInit /\ PermInit
  BY DEF Init
<1>2. [Next]_<<accessVars, permVars, part>> =>
        [AccessNext]_accessVars /\ [PermNext]_permVars
  BY Zenon DEF Next
<1> QED BY <1>1, <1>2, PTL DEF Spec, AccessSpec, PermSpec

\* Every variable of both parts stays in its type.
THEOREM TypesHold == Spec => []TypesOK
<1>1. PermInv => PermTypeOK
  BY DEF PermInv
<1>2. AccessTypeOK /\ PermTypeOK => TypesOK
  BY DEF TypesOK
<1> QED BY <1>1, <1>2, PartsHold, AccessTypeCorrect, PermHolds, PTL

\* Blacklist, limits and permissions hold whichever part moves.
THEOREM AccessIsGuarded == Spec => [](BlacklistedStopped /\ WithinLimits /\ GrantsBounded)
BY PartsHold, BlacklistStops, LimitsHold, GrantsExpire, PTL
=============================================================================
