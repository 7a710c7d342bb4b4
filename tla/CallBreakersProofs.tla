-------------------------- MODULE CallBreakersProofs --------------------------
(***************************************************************************)
(* Proofs about ai-core's calls and what they may cost (CallBreakers and   *)
(* CostLimit), for any number of providers, tools, tasks and requests and  *)
(* every FailMax, Timeout, limit and life.                                 *)
(*                                                                         *)
(* What the breakers see of a step is one of four things (Seen): time      *)
(* passes, a task gets in, a task's calls are settled, or nothing.  Shape  *)
(* says why the breakers a step settles differ from one another: under a   *)
(* tool's breaker a task calls providers only.  The promise of FailFast    *)
(* follows from that; OpenForCause needs Blamed as well, which keeps the   *)
(* counter below the history of failures that no late success resets.      *)
(*                                                                         *)
(* That the cost limit stops a tenant is not inductive: a gateway's copy may *)
(* come from Redis, and Redis may have been filled by a request that read  *)
(* the log earlier.  SumsAge bounds how long the log can have been at the  *)
(* limit while a sum below it is still somewhere on that way.              *)
(***************************************************************************)
EXTENDS MCRecovery, CostLimit, SequenceTheorems, TLAPS

Shape ==
  \A r \in Task :
    /\ at[r] = "idle" => outer[r] = NoTool
    /\ \/ ahead[r] \in Seq(Provider)
       \/ at[r] = "call" /\ outer[r] = NoTool /\ Len(ahead[r]) = 1

Blamed ==
  \A b \in Breaker :
    /\ fails[b] <= blame[b]
    /\ mode[b] # "closed" => blame[b] = FailMax

CallInv == CallTypeOK /\ Shape /\ Blamed

-----------------------------------------------------------------------------
(* What the breakers see of a step.                                        *)

\* The tasks in each breaker, as FailFast sees them.
inside == [b \in Breaker |-> InFlight(b)]

GetsIn(r, b) ==
  /\ LetIn(b) /\ r \notin inside[b]
  /\ \A c \in Breaker :
       inside'[c] = IF c = b THEN inside[c] \union {r} ELSE inside[c]

Settled(r, good, bad) ==
  /\ Settle(good, bad)
  /\ \A c \in good : c \notin bad
  /\ \A c \in good \union bad : r \in inside[c]
  /\ \A c \in Breaker :
       inside'[c] = IF c \in good \union bad THEN inside[c] \ {r} ELSE inside[c]

Unmoved == \A c \in Breaker : inside'[c] = inside[c]

Seen ==
  \/ CallTick /\ Unmoved
  \/ \E r \in Task, b \in Breaker : GetsIn(r, b)
  \/ \E r \in Task : \E good, bad \in SUBSET Breaker : Settled(r, good, bad)
  \/ UNCHANGED breakers /\ Unmoved

-----------------------------------------------------------------------------
(* The queue of calls of a task.                                           *)

\* A route is a queue of providers.
LEMMA RouteIsQueue ==
  ASSUME NEW route \in Route
  PROVE  route \in Seq(Provider) /\ route # <<>>
<1>1. PICK p \in Provider, f \in Provider : route = <<p, f>>
  BY CallAssumption
<1>2. <<p, f>> \in Seq(Provider) /\ <<p, f>> # <<>>
  OBVIOUS
<1> QED BY <1>1, <1>2

\* Behind the current call there is another, or the last one was reached.
LEMMA QueueMoves ==
  ASSUME NEW S, NEW q \in Seq(S), q # <<>>
  PROVE  /\ Head(q) \in S
         /\ Len(q) > 1 => Tail(q) \in Seq(S) /\ Tail(q) # <<>>
<1>1. Head(q) \in S /\ Tail(q) \in Seq(S) /\ Len(Tail(q)) = Len(q) - 1
  BY HeadTailProperties
<1>2. Len(q) \in Nat
  BY LenProperties
<1>3. Len(q) > 1 => Len(Tail(q)) # 0
  BY <1>1, <1>2
<1> QED BY <1>1, <1>3, EmptySeq

\* The current call of a task that has one.
LEMMA CurrentCall ==
  ASSUME CallTypeOK, Shape, NEW r \in Task, at[r] # "idle"
  PROVE  /\ ahead[r] # <<>> /\ ahead[r] \in Seq(Breaker)
         /\ Head(ahead[r]) \in Breaker
         /\ at[r] # "call" \/ outer[r] # NoTool => Head(ahead[r]) \in Provider
         /\ Len(ahead[r]) > 1 => /\ Tail(ahead[r]) # <<>>
                                 /\ Tail(ahead[r]) \in Seq(Breaker)
                                 /\ Tail(ahead[r]) \in Seq(Provider)
<1>1. ahead[r] \in Seq(Breaker) /\ ahead[r] # <<>>
  BY DEF CallTypeOK
<1>2. at[r] # "call" \/ outer[r] # NoTool \/ Len(ahead[r]) # 1 => ahead[r] \in Seq(Provider)
  BY DEF Shape
<1>3. at[r] # "call" \/ outer[r] # NoTool => Head(ahead[r]) \in Provider
  BY <1>1, <1>2, QueueMoves
<1>4. Len(ahead[r]) > 1 => Len(ahead[r]) # 1
  <2>1. Len(ahead[r]) \in Nat
    BY <1>1, LenProperties
  <2>2. \A n \in Nat : n > 1 => n # 1
    OBVIOUS
  <2> QED BY <2>1, <2>2, Zenon
<1>5. Len(ahead[r]) > 1 => Tail(ahead[r]) \in Seq(Provider)
  BY <1>1, <1>2, <1>4, QueueMoves
<1> QED BY <1>1, <1>3, <1>5, QueueMoves

-----------------------------------------------------------------------------
(* Where tasks are.                                                        *)

\* A task that goes somewhere leaves its calls, and is in those it goes to.
LEMMA GoesWhere ==
  ASSUME CallTypeOK, Shape, NEW r \in Task,
         NEW place \in {"idle", "next", "call", "retry"},
         NEW calls \in Seq(Breaker), NEW tool \in Tool \union {NoTool},
         place # "idle" => calls # <<>>,
         place = "idle" => tool = NoTool,
         \/ calls \in Seq(Provider)
         \/ place = "call" /\ tool = NoTool /\ Len(calls) = 1,
         Goes(r, place, calls, tool)
  PROVE  /\ at' \in [Task -> {"idle", "next", "call", "retry"}]
         /\ ahead' \in [Task -> Seq(Breaker)] /\ outer' \in [Task -> Tool \union {NoTool}]
         /\ \A q \in Task : at'[q] # "idle" => ahead'[q] # <<>>
         /\ Shape'
         /\ \A b \in Breaker :
              inside'[b] = IF tool = b \/ (place = "call" /\ Head(calls) = b)
                             THEN inside[b] \union {r} ELSE inside[b] \ {r}
<1> USE DEF CallTypeOK, Goes
<1>1. /\ at' \in [Task -> {"idle", "next", "call", "retry"}]
      /\ ahead' \in [Task -> Seq(Breaker)] /\ outer' \in [Task -> Tool \union {NoTool}]
  OBVIOUS
<1>2. \A q \in Task : at'[q] # "idle" => ahead'[q] # <<>>
  OBVIOUS
<1>3. Shape'
  BY DEF Shape
<1>4. ASSUME NEW b \in Breaker
      PROVE  inside'[b] = IF tool = b \/ (place = "call" /\ Head(calls) = b)
                            THEN inside[b] \union {r} ELSE inside[b] \ {r}
  BY DEF inside, InFlight, Calling
<1> QED BY <1>1, <1>2, <1>3, <1>4

WellPlaced ==
  /\ at \in [Task -> {"idle", "next", "call", "retry"}]
  /\ ahead \in [Task -> Seq(Breaker)] /\ outer \in [Task -> Tool \union {NoTool}]
  /\ \A q \in Task : at[q] # "idle" => ahead[q] # <<>>
  /\ Shape

\* A task that leaves is in no call any more.
LEMMA LeavesAll ==
  ASSUME CallTypeOK, Shape, NEW r \in Task, Leaves(r)
  PROVE  WellPlaced' /\ \A b \in Breaker : inside'[b] = inside[b] \ {r}
<1>1. <<>> \in Seq(Breaker) /\ <<>> \in Seq(Provider)
  BY EmptySeq
<1>2. NoTool \notin Breaker
  BY CallAssumption
<1>3. WellPlaced'
  BY <1>1, GoesWhere DEF Leaves, WellPlaced
<1>4. \A b \in Breaker : inside'[b] = inside[b] \ {r}
  BY <1>2 DEF Leaves, Goes, CallTypeOK, inside, InFlight, Calling
<1> QED BY <1>3, <1>4

\* The calls a task is in: those around it and the current one, which differ.
LEMMA InBoth ==
  ASSUME CallTypeOK, Shape, NEW r \in Task
  PROVE  /\ \A b \in Breaker : r \in inside[b] <=> b \in Calling(r) \union Around(r)
         /\ Calling(r) \subseteq Breaker /\ Around(r) \subseteq Breaker
         /\ \A b \in Calling(r) : b \notin Around(r)
<1>1. Around(r) \subseteq Tool
  BY DEF Around, CallTypeOK
<1>2. Calling(r) \subseteq Breaker /\ (outer[r] # NoTool => Calling(r) \subseteq Provider)
  BY CurrentCall DEF Calling
<1>3. \A b \in Calling(r) : b \notin Around(r)
  BY <1>1, <1>2, CallAssumption DEF Around
<1>4. \A b \in Breaker : r \in inside[b] <=> b \in Calling(r) \union Around(r)
  BY CallAssumption DEF inside, InFlight, Around
<1> QED BY <1>1, <1>2, <1>3, <1>4 DEF Breaker

\* Who leaves takes part no more in the calls it was in, and in no other.
LEMMA AllLeft ==
  ASSUME CallTypeOK, Shape, NEW r \in Task, Leaves(r),
         NEW good, NEW bad, Settle(good, bad), \A c \in good : c \notin bad,
         good \union bad = Calling(r) \union Around(r)
  PROVE  Settled(r, good, bad)
<1>1. good \union bad \subseteq Breaker
  BY InBoth
<1>2. \A c \in Breaker : r \in inside[c] <=> c \in good \union bad
  BY InBoth
<1>3. ASSUME NEW c \in Breaker
      PROVE  inside'[c] = IF c \in good \union bad THEN inside[c] \ {r} ELSE inside[c]
  <2>1. inside'[c] = inside[c] \ {r}
    BY LeavesAll
  <2>2. \A S : r \notin S => S \ {r} = S
    OBVIOUS
  <2> QED BY <1>2, <2>1, <2>2
<1>4. \A c \in good \union bad : r \in inside[c]
  BY <1>1, <1>2
<1> QED BY <1>3, <1>4 DEF Settled

-----------------------------------------------------------------------------
(* Steps of tasks.                                                         *)

\* What a failed call, or one refused, leaves behind.
LEMMA FailoverSeen ==
  ASSUME CallTypeOK, Shape, NEW r \in Task, at[r] # "idle",
         NEW good \in SUBSET Breaker, NEW bad \in SUBSET Breaker,
         good \union bad = Calling(r), \A c \in good : c \notin bad,
         Failover(r, good, bad)
  PROVE  WellPlaced' /\ \E b \in SUBSET Breaker : Settled(r, good, b)
<1>1. CASE Len(ahead[r]) > 1
  <2>1. Goes(r, "retry", Tail(ahead[r]), outer[r]) /\ Settle(good, bad)
    BY <1>1 DEF Failover
  <2>2. outer[r] \in Tool \union {NoTool}
    BY DEF CallTypeOK
  <2>3. Tail(ahead[r]) \in Seq(Breaker) /\ Tail(ahead[r]) # <<>>
    BY <1>1, CurrentCall
  <2>4. Tail(ahead[r]) \in Seq(Provider)
    BY <1>1, CurrentCall
  <2>5. WellPlaced'
    BY <2>1, <2>2, <2>3, <2>4, GoesWhere DEF WellPlaced
  <2>6. \A c \in Breaker : inside'[c] = IF outer[r] = c THEN inside[c] \union {r}
                                          ELSE inside[c] \ {r}
    BY <2>1 DEF Goes, CallTypeOK, inside, InFlight, Calling
  <2>7. \A c \in good \union bad : r \in inside[c] /\ outer[r] # c
    BY InBoth, CallAssumption DEF Around
  <2>8. \A c \in Breaker \ (good \union bad) : r \in inside[c] <=> outer[r] = c
    BY InBoth, CallAssumption DEF Around
  <2>9. inside \in [Breaker -> SUBSET Task]
    BY DEF inside, InFlight
  <2>10. \A c \in Breaker :
           inside'[c] = IF c \in good \union bad THEN inside[c] \ {r} ELSE inside[c]
    <3>1. ASSUME NEW c \in Breaker, c \in good \union bad
          PROVE  inside'[c] = inside[c] \ {r}
      BY <2>6, <2>7, <3>1
    <3>2. ASSUME NEW c \in Breaker, c \notin good \union bad
          PROVE  inside'[c] = inside[c]
      <4>1. r \in inside[c] <=> outer[r] = c
        BY <2>8, <3>2
      <4>2. inside'[c] = IF outer[r] = c THEN inside[c] \union {r} ELSE inside[c] \ {r}
        BY <2>6
      <4>3. \A S : (r \in S => S \union {r} = S) /\ (r \notin S => S \ {r} = S)
        OBVIOUS
      <4> QED BY <4>1, <4>2, <4>3
    <3> QED BY <3>1, <3>2
  <2>11. Settled(r, good, bad)
    BY <2>1, <2>7, <2>10 DEF Settled
  <2> QED BY <2>5, <2>11
<1>2. CASE ~(Len(ahead[r]) > 1)
  <2>1. Leaves(r) /\ Settle(good, bad \union Around(r))
    BY <1>2 DEF Failover
  <2>2. Settled(r, good, bad \union Around(r))
    <3>1. \A c \in good : c \notin bad \union Around(r)
      BY InBoth
    <3>2. good \union (bad \union Around(r)) = Calling(r) \union Around(r)
      OBVIOUS
    <3> QED BY <2>1, <3>1, <3>2, AllLeft
  <2>3. bad \union Around(r) \in SUBSET Breaker
    BY InBoth
  <2> QED BY <2>1, <2>2, <2>3, LeavesAll
<1> QED BY <1>1, <1>2

\* A call that ends, well or badly.
LEMMA EndSeen ==
  ASSUME CallTypeOK, Shape, NEW r \in Task, Ends(r)
  PROVE  WellPlaced' /\ \E good, bad \in SUBSET Breaker : Settled(r, good, bad)
<1>1. Calling(r) \union Around(r) \subseteq Breaker
  BY InBoth
<1>2. CASE Succeeds(r)
  <2>1. Leaves(r) /\ Settle(Calling(r) \union Around(r), {})
    BY <1>2 DEF Succeeds, Calling
  <2>2. Settled(r, Calling(r) \union Around(r), {})
    BY <2>1, AllLeft
  <2> QED BY <1>1, <2>1, <2>2, LeavesAll
<1>3. CASE Rejected(r)
  BY <1>3, FailoverSeen, CurrentCall DEF Rejected, Calling
<1>4. CASE Fails(r)
  BY <1>4, FailoverSeen, CurrentCall DEF Fails, Calling
<1>5. CASE Cancelled(r)
  <2>1. Leaves(r) /\ Settle({}, Calling(r) \union Around(r))
    BY <1>5 DEF Cancelled
  <2>2. Settled(r, {}, Calling(r) \union Around(r))
    BY <2>1, AllLeft
  <2> QED BY <1>1, <2>1, <2>2, LeavesAll
<1> QED BY <1>2, <1>3, <1>4, <1>5 DEF Ends

\* A task that asks the breaker at the head of its queue, and is let in.
LEMMA BeginSeen ==
  ASSUME CallTypeOK, Shape, NEW r \in Task, Begin(r)
  PROVE  WellPlaced' /\ \E b \in Breaker : GetsIn(r, b)
<1> DEFINE b == Head(ahead[r])
<1>1. /\ Goes(r, "call", ahead[r], outer[r]) /\ LetIn(b)
      /\ at[r] # "idle" /\ at[r] # "call"
  BY DEF Begin
<1>2. /\ ahead[r] # <<>> /\ ahead[r] \in Seq(Breaker) /\ b \in Breaker
      /\ b \in Provider /\ outer[r] \in Tool \union {NoTool}
  BY <1>1, CurrentCall DEF CallTypeOK
<1>3. ahead[r] \in Seq(Provider)
  BY <1>1 DEF Shape
<1>4. WellPlaced'
  BY <1>1, <1>2, <1>3, GoesWhere DEF WellPlaced
<1>5. outer[r] # b /\ r \notin inside[b]
  BY <1>1, <1>2, CallAssumption DEF inside, InFlight, Calling
<1>6. ASSUME NEW c \in Breaker
      PROVE  inside'[c] = IF c = b THEN inside[c] \union {r} ELSE inside[c]
  BY <1>1, <1>5 DEF Goes, CallTypeOK, inside, InFlight, Calling
<1>7. GetsIn(r, b)
  BY <1>1, <1>5, <1>6 DEF GetsIn
<1> QED BY <1>2, <1>4, <1>7

\* A task that starts asks nobody yet, or one tool's breaker.
LEMMA StartSeen ==
  ASSUME CallTypeOK, Shape, NEW r \in Task, StartTask(r)
  PROVE  /\ WellPlaced'
         /\ (\E b \in Breaker : GetsIn(r, b)) \/ (UNCHANGED breakers /\ Unmoved)
<1>1. ASSUME NEW route \in Route, StartRequest(r, route)
      PROVE  WellPlaced' /\ UNCHANGED breakers /\ Unmoved
  <2>1. route \in Seq(Provider) /\ route \in Seq(Breaker) /\ route # <<>>
    BY RouteIsQueue, SeqMonotonic DEF Breaker
  <2>2. Goes(r, "next", route, NoTool) /\ at[r] = "idle" /\ UNCHANGED breakers
    BY <1>1 DEF StartRequest
  <2>3. WellPlaced'
    BY <2>1, <2>2, GoesWhere DEF WellPlaced
  <2>4. Unmoved
    BY <2>2, CallAssumption DEF Unmoved, Goes, Shape, CallTypeOK, inside, InFlight, Calling
  <2> QED BY <2>2, <2>3, <2>4
<1>2. ASSUME NEW t \in Tool, StartTool(r, t)
      PROVE  WellPlaced' /\ GetsIn(r, t)
  <2>1. <<t>> \in Seq(Breaker) /\ <<t>> # <<>> /\ Len(<<t>>) = 1 /\ Head(<<t>>) = t
    BY DEF Breaker
  <2>2. Goes(r, "call", <<t>>, NoTool) /\ at[r] = "idle" /\ LetIn(t)
    BY <1>2 DEF StartTool
  <2>3. WellPlaced'
    BY <2>1, <2>2, GoesWhere DEF WellPlaced
  <2>4. r \notin inside[t]
    BY <2>2, CallAssumption DEF Shape, inside, InFlight, Calling, Breaker
  <2>5. ASSUME NEW c \in Breaker
        PROVE  inside'[c] = IF c = t THEN inside[c] \union {r} ELSE inside[c]
    BY <2>1, <2>2, CallAssumption DEF Goes, Shape, CallTypeOK, inside, InFlight, Calling
  <2> QED BY <2>2, <2>3, <2>4, <2>5 DEF GetsIn
<1>3. ASSUME NEW t \in Tool, NEW route \in Route, StartGatewayTool(r, t, route)
      PROVE  WellPlaced' /\ GetsIn(r, t)
  <2>1. route \in Seq(Provider) /\ route \in Seq(Breaker) /\ route # <<>>
    BY RouteIsQueue, SeqMonotonic DEF Breaker
  <2>2. Goes(r, "next", route, t) /\ at[r] = "idle" /\ LetIn(t)
    BY <1>3 DEF StartGatewayTool
  <2>3. WellPlaced'
    BY <2>1, <2>2, GoesWhere DEF WellPlaced
  <2>4. r \notin inside[t]
    BY <2>2, CallAssumption DEF Shape, inside, InFlight, Calling, Breaker
  <2>5. ASSUME NEW c \in Breaker
        PROVE  inside'[c] = IF c = t THEN inside[c] \union {r} ELSE inside[c]
    BY <2>1, <2>2, CallAssumption DEF Goes, Shape, CallTypeOK, inside, InFlight, Calling
  <2> QED BY <2>2, <2>3, <2>4, <2>5 DEF GetsIn
<1> QED BY <1>1, <1>2, <1>3 DEF StartTask, Breaker

\* Every step keeps tasks where they can be, and shows the breakers one of four
\* things.
LEMMA StepSeen ==
  ASSUME CallTypeOK, Shape, [CallNext]_callVars
  PROVE  WellPlaced' /\ Seen
<1>1. CASE CallTick
  BY <1>1 DEF CallTick, tasks, WellPlaced, Seen, CallTypeOK, Shape, Unmoved, inside, InFlight,
              Calling
<1>2. ASSUME NEW r \in Task, StartTask(r)
      PROVE  WellPlaced' /\ Seen
  BY <1>2, StartSeen DEF Seen
<1>3. ASSUME NEW r \in Task, Begin(r)
      PROVE  WellPlaced' /\ Seen
  BY <1>3, BeginSeen DEF Seen
<1>4. ASSUME NEW r \in Task, Refused(r)
      PROVE  WellPlaced' /\ Seen
  <2>1. Calling(r) = {} /\ Failover(r, {}, {}) /\ at[r] # "idle"
    BY <1>4 DEF Refused, Calling
  <2>2. WellPlaced' /\ \E b \in SUBSET Breaker : Settled(r, {}, b)
    BY <2>1, FailoverSeen
  <2> QED BY <2>2 DEF Seen
<1>5. ASSUME NEW r \in Task, Ends(r)
      PROVE  WellPlaced' /\ Seen
  BY <1>5, EndSeen DEF Seen
<1>6. CASE UNCHANGED callVars
  BY <1>6 DEF callVars, breakers, WellPlaced, Seen, CallTypeOK, Shape, Unmoved, inside,
              InFlight, Calling
<1> QED BY <1>1, <1>2, <1>3, <1>4, <1>5, <1>6 DEF CallNext, Continue

-----------------------------------------------------------------------------
(* The invariant.                                                          *)

Counters ==
  /\ mode \in [Breaker -> {"closed", "open", "half"}]
  /\ fails \in [Breaker -> 0..FailMax] /\ left \in [Breaker -> 0..Timeout]
  /\ blame \in [Breaker -> 0..FailMax]

\* The counters stay in their ranges, and a breaker that is not closed is to blame.
LEMMA CountersStep ==
  ASSUME Counters, Blamed, Seen
  PROVE  Counters' /\ Blamed'
<1> USE CallAssumption DEF Counters, Blamed
<1>1. CASE CallTick
  BY <1>1 DEF CallTick
<1>2. ASSUME NEW r \in Task, NEW b \in Breaker, GetsIn(r, b)
      PROVE  Counters' /\ Blamed'
  BY <1>2 DEF GetsIn, LetIn
<1>3. ASSUME NEW good, NEW bad, Settle(good, bad), \A c \in good : c \notin bad
      PROVE  Counters' /\ Blamed'
  <2>1. Counters'
    BY <1>3 DEF Settle, Up, Opens
  <2>2. ASSUME NEW b \in Breaker
        PROVE  /\ fails'[b] <= blame'[b]
               /\ mode'[b] # "closed" => blame'[b] = FailMax
    <3>1. CASE b \in good
      BY <1>3, <3>1 DEF Settle
    <3>2. CASE b \notin good /\ b \in bad
      BY <1>3, <3>2 DEF Settle, Up, Opens
    <3>3. CASE b \notin good /\ b \notin bad
      BY <1>3, <3>3 DEF Settle
    <3> QED BY <3>1, <3>2, <3>3
  <2> QED BY <2>1, <2>2
<1>4. CASE UNCHANGED breakers
  BY <1>4 DEF breakers
<1> QED BY <1>1, <1>2, <1>3, <1>4 DEF Seen, Settled

\* The invariant of the calls.
LEMMA Holds == CallSpec => []CallInv
<1>1. CallInit => CallInv
  <2> SUFFICES ASSUME CallInit PROVE CallInv
    OBVIOUS
  <2>1. <<>> \in Seq(Breaker) /\ <<>> \in Seq(Provider)
    BY EmptySeq
  <2> QED BY <2>1, CallAssumption DEF CallInit, CallInv, CallTypeOK, Shape, Blamed
<1>2. CallInv /\ [CallNext]_callVars => CallInv'
  <2> SUFFICES ASSUME CallInv, [CallNext]_callVars PROVE CallInv'
    OBVIOUS
  <2>1. WellPlaced' /\ Seen
    BY StepSeen DEF CallInv
  <2>2. Counters' /\ Blamed'
    BY <2>1, CountersStep DEF CallInv, CallTypeOK, Counters
  <2> QED BY <2>1, <2>2 DEF CallInv, CallTypeOK, WellPlaced, Counters
<1> QED BY <1>1, <1>2, PTL DEF CallSpec

\* Every reachable state is well typed, for any breakers, tasks and bounds.
THEOREM CallTypeCorrect == CallSpec => []CallTypeOK
<1>1. CallInv => CallTypeOK
  BY DEF CallInv
<1> QED BY <1>1, Holds, PTL

\* A breaker is open or half open only after FailMax failures since it was last
\* closed, whatever late successes of earlier calls have reset its counter.
THEOREM OnlyForCause == CallSpec => []OpenForCause
<1>1. CallInv => OpenForCause
  BY DEF CallInv, Blamed, OpenForCause
<1> QED BY <1>1, Holds, PTL

-----------------------------------------------------------------------------
(* The refinement.                                                         *)

\* The abstract breakers begin closed, with nobody inside.
LEMMA InitPromised == CallInit => Promise!Init
<1> SUFFICES ASSUME CallInit PROVE Promise!Init
  OBVIOUS
<1>1. ASSUME NEW b \in Breaker PROVE InFlight(b) = {}
  <2>1. b # NoTool
    BY CallAssumption
  <2>2. ASSUME NEW r \in Task PROVE outer[r] # b /\ b \notin Calling(r)
    BY <2>1 DEF CallInit, Calling
  <2> QED BY <2>2 DEF InFlight
<1>2. [b \in Breaker |-> mode[b] = "open"] = [b \in Breaker |-> FALSE]
  BY DEF CallInit
<1>3. fails = [b \in Breaker |-> 0]
  BY DEF CallInit
<1>4. [b \in Breaker |-> IF mode[b] = "open" THEN left[b] ELSE 0] = [b \in Breaker |-> 0]
  BY DEF CallInit
<1>5. [b \in Breaker |-> InFlight(b)] = [b \in Breaker |-> {}]
  BY <1>1
<1> QED BY <1>2, <1>3, <1>4, <1>5 DEF Promise!Init

\* Each breaker takes a step of its promise, or rests.
LEMMA StepPromised ==
  ASSUME CallInv, Seen
  PROVE  Promise!Next
<1> SUFFICES ASSUME NEW b \in Breaker
             PROVE  \/ Promise!Rests(b) \/ Promise!Elapses(b)
                    \/ \E r \in Task : Promise!Admits(b, r) \/ Promise!Good(b, r) \/ Promise!Bad(b, r)
  BY DEF Promise!Next
<1> USE DEF inside
<1>t. left[b] \in Nat /\ fails[b] \in Nat /\ mode[b] \in {"closed", "open", "half"}
  BY CallAssumption DEF CallInv, CallTypeOK
<1>1. CASE CallTick /\ Unmoved
  <2>1. mode'[b] = mode[b] /\ fails'[b] = fails[b] /\ InFlight(b)' = InFlight(b)
    BY <1>1 DEF CallTick, Unmoved
  <2>2. left'[b] = IF left[b] > 0 THEN left[b] - 1 ELSE 0
    BY <1>1 DEF CallTick
  <2>3. CASE mode[b] = "open" /\ left[b] > 0
    BY <2>1, <2>2, <2>3 DEF Promise!Elapses
  <2>4. CASE ~(mode[b] = "open" /\ left[b] > 0)
    BY <1>t, <2>1, <2>2, <2>4 DEF Promise!Rests
  <2> QED BY <2>3, <2>4
<1>2. ASSUME NEW r \in Task, NEW c \in Breaker, GetsIn(r, c)
      PROVE  Promise!Rests(b) \/ Promise!Admits(b, r)
  <2>1. fails'[b] = fails[b] /\ left'[b] = left[b]
    BY <1>2 DEF GetsIn, LetIn, breakers
  <2>2. CASE b # c
    <3>1. mode'[b] = mode[b]
      BY <1>2, <2>2 DEF GetsIn, LetIn, CallInv, CallTypeOK
    <3>2. InFlight(b)' = InFlight(b)
      BY <1>2, <2>2 DEF GetsIn
    <3> QED BY <2>1, <3>1, <3>2 DEF Promise!Rests
  <2>3. CASE b = c
    <3>1. ~(mode[b] = "open" /\ left[b] > 0) /\ mode'[b] # "open"
      BY <1>2, <2>3, <1>t DEF GetsIn, LetIn, Refuses, CallInv, CallTypeOK
    <3>2. r \notin InFlight(b) /\ InFlight(b)' = InFlight(b) \union {r}
      BY <1>2, <2>3 DEF GetsIn
    <3>3. (IF mode[b] = "open" THEN left[b] ELSE 0) = 0
      BY <1>t, <3>1
    <3>4. Promise!Admits(b, r)
      BY <2>1, <3>1, <3>2, <3>3 DEF Promise!Admits
    <3> QED BY <3>4
  <2> QED BY <2>2, <2>3
<1>3. ASSUME NEW r \in Task, NEW good \in SUBSET Breaker, NEW bad \in SUBSET Breaker,
             Settled(r, good, bad)
      PROVE  Promise!Rests(b) \/ Promise!Good(b, r) \/ Promise!Bad(b, r)
  <2>0. Settle(good, bad)
    BY <1>3 DEF Settled
  <2>1. CASE b \in good
    <3>1. b \notin bad /\ r \in InFlight(b) /\ InFlight(b)' = InFlight(b) \ {r}
      BY <1>3, <2>1 DEF Settled
    <3>2. fails'[b] = 0 /\ left'[b] = left[b]
      BY <2>0, <2>1, <3>1 DEF Settle
    <3>3. mode'[b] = IF mode[b] = "half" THEN "closed" ELSE mode[b]
      BY <2>0, <2>1, <3>1 DEF Settle
    <3> QED BY <3>1, <3>2, <3>3 DEF Promise!Good
  <2>2. CASE b \in bad
    <3>1. b \notin good /\ r \in InFlight(b) /\ InFlight(b)' = InFlight(b) \ {r}
      BY <1>3, <2>2 DEF Settled
    <3>2. fails'[b] = Up(fails[b])
      BY <2>0, <2>2, <3>1 DEF Settle
    <3>3. left'[b] = IF Opens(b) THEN Timeout ELSE left[b]
      BY <2>0, <2>2 DEF Settle
    <3>4. mode'[b] = IF Opens(b) THEN "open" ELSE mode[b]
      BY <2>0, <2>2, <3>1 DEF Settle
    <3>5. CASE Opens(b)
      <4>1. mode[b] # "open"
        BY <3>5 DEF Opens
      <4> QED BY <3>1, <3>2, <3>3, <3>4, <3>5, <4>1 DEF Promise!Bad, Up
    <3>6. CASE ~Opens(b)
      <4>1. Up(fails[b]) \in Nat
        BY <1>t DEF Up
      <4>2. mode[b] = "open" \/ Up(fails[b]) < FailMax
        BY <1>t, <3>6, <4>1, CallAssumption DEF Opens
      <4> QED BY <3>1, <3>2, <3>3, <3>4, <3>6, <4>2 DEF Promise!Bad, Up
    <3> QED BY <3>5, <3>6
  <2>3. CASE b \notin good \union bad
    <3>1. InFlight(b)' = InFlight(b)
      BY <1>3, <2>3 DEF Settled
    <3>2. fails'[b] = fails[b] /\ left'[b] = left[b] /\ mode'[b] = mode[b]
      BY <2>0, <2>3 DEF Settle
    <3> QED BY <3>1, <3>2 DEF Promise!Rests
  <2> QED BY <2>1, <2>2, <2>3
<1>4. CASE UNCHANGED breakers /\ Unmoved
  <2>1. mode'[b] = mode[b] /\ fails'[b] = fails[b] /\ left'[b] = left[b]
    BY <1>4 DEF breakers
  <2>2. InFlight(b)' = InFlight(b)
    BY <1>4 DEF Unmoved
  <2> QED BY <2>1, <2>2 DEF Promise!Rests
<1> QED BY <1>1, <1>2, <1>3, <1>4 DEF Seen

\* The breakers implement FailFast: however many calls overlap, end late, are
\* nested or cancelled, FailMax failures in a row keep every caller out until the
\* time-out is over.
THEOREM KeepsItsPromise == CallSpec => KeepsPromise
<1>1. CallInv /\ [CallNext]_callVars => Promise!Next
  <2> SUFFICES ASSUME CallInv, [CallNext]_callVars PROVE Promise!Next
    OBVIOUS
  <2>1. Seen
    BY StepSeen DEF CallInv
  <2> QED BY <2>1, StepPromised
<1> QED BY InitPromised, <1>1, Holds, PTL DEF CallSpec, KeepsPromise, Promise!Spec

\* Beside the registry the calls behave as they do alone, and keep what they promise.
THEOREM CallsRecover ==
  RecoverySpec => [](CallTypeOK /\ OpenForCause) /\ KeepsPromise
<1>1. RecoveryInit => CallInit
  BY DEF RecoveryInit
<1>2. [RecoveryNext]_<<vars, callVars, part>> => [CallNext]_callVars
  BY Zenon DEF RecoveryNext
<1>3. RecoverySpec => CallSpec
  BY <1>1, <1>2, PTL DEF RecoverySpec, CallSpec
<1> QED BY <1>3, CallTypeCorrect, OnlyForCause, KeepsItsPromise, PTL

-----------------------------------------------------------------------------
(* The cost limit.                                                         *)

\* How long the log can have been at the limit when a sum below it is still
\* somewhere: on its way, in Redis, in a gateway.
SumsAge ==
  /\ logged < Limit => atLimit = 0
  /\ atLimit > 0 => limits
  /\ \A r \in Prompt :
       step[r] \in {"keep", "report"} /\ read[r] < Limit => atLimit <= delays
  /\ sumLeft > 0 /\ sum < Limit => atLimit + sumLeft <= CostLife + delays
  /\ \A g \in LLMGateway :
       copyLeft[g] > 0 /\ copy[g] < Limit => atLimit + copyLeft[g] <= 2 * CostLife + delays

\* A sum at the threshold has somebody who will see it.
Watched ==
  logged >= AlertAt =>
    \/ alerted \/ unseen
    \/ \E r \in Prompt : \/ step[r] \in {"alert", "tally"}
                         \/ step[r] = "report" /\ read[r] >= AlertAt

\* The numbers of the cost limit.
LEMMA CostNumbers ==
  /\ Limit \in Nat /\ AlertAt \in Nat /\ AlertAt > 0
  /\ CostLife \in Nat /\ CostLife > 0 /\ MaxLogged \in Nat /\ MaxDelay \in Nat
  /\ MaxLag \in Nat /\ MaxLag = 2 * CostLife + MaxDelay
BY CostAssumption DEF MaxLag

\* What a verdict leaves of a request.
LEMMA DecidesTypes ==
  ASSUME CostTypeOK, NEW r \in Prompt, NEW lost \in BOOLEAN,
         NEW verdict \in {"primary", "refused", "fallback"}, Decides(r, verdict, lost)
  PROVE  /\ step' \in [Prompt -> {"idle", "limits", "sum", "query", "keep", "call",
                                  "alert", "tally", "report"}]
         /\ kind' \in [Prompt -> Kind] /\ tier' \in [Prompt -> {"primary", "fallback"}]
         /\ read' \in [Prompt -> 0..MaxLogged \union {NoSum}]
         /\ age' \in [Prompt -> 0..CostLife]
         /\ unsure' \in [Prompt -> BOOLEAN]
<1> USE DEF CostTypeOK, Decides
<1>1. 0 \in 0..CostLife
  BY CostNumbers
<1>2. (lost /\ verdict # "refused") \in BOOLEAN
  OBVIOUS
<1>3. unsure' \in [Prompt -> BOOLEAN]
  BY <1>2, Zenon
<1> QED BY <1>1, <1>3, KindAssumption

\* What the end of a request leaves of it.
LEMMA FinishesTypes ==
  ASSUME CostTypeOK, NEW r \in Prompt, Finishes(r)
  PROVE  /\ step' \in [Prompt -> {"idle", "limits", "sum", "query", "keep", "call",
                                  "alert", "tally", "report"}]
         /\ kind' \in [Prompt -> Kind] /\ tier' \in [Prompt -> {"primary", "fallback"}]
         /\ read' \in [Prompt -> 0..MaxLogged \union {NoSum}]
         /\ age' \in [Prompt -> 0..CostLife]
         /\ unsure' \in [Prompt -> BOOLEAN]
BY CostNumbers, KindAssumption DEF CostTypeOK, Finishes

\* A verdict is one of three.
LEMMA VerdictTypes ==
  ASSUME NEW r, NEW spent
  PROVE  Verdict(r, spent) \in {"primary", "refused", "fallback"}
BY DEF Verdict

\* A copy is given no more than a whole life, in one of the gateways.
LEMMA RemainingTypes ==
  ASSUME CostTypeOK, NEW r \in Prompt
  PROVE  Remaining(r) \in 0..CostLife /\ Of(r) \in LLMGateway
BY CostNumbers DEF CostTypeOK, Remaining, Of, LLMGateway

\* Every step of the cost limit keeps the types.
LEMMA CostTypes ==
  ASSUME CostTypeOK, [CostNext]_costVars
  PROVE  CostTypeOK'
<1> USE CostNumbers DEF CostTypeOK, sumVars, alertVars, Steps
<1>1. CASE UNCHANGED costVars
  BY <1>1 DEF costVars
<1>2. CASE CostTick
  <2>1. /\ delays' \in 0..MaxDelay /\ atLimit' \in 0..MaxLag + 1
        /\ sumLeft' \in 0..CostLife
    BY <1>2 DEF CostTick, MinusOne
  <2>2. sum' \in 0..MaxLogged \union {NoSum}
    BY <1>2 DEF CostTick
  <2>3. copyLeft' \in [LLMGateway -> 0..CostLife]
    BY <1>2 DEF CostTick, MinusOne
  <2>4. age' \in [Prompt -> 0..CostLife]
    BY <1>2 DEF CostTick
  <2> QED BY <1>2, <2>1, <2>2, <2>3, <2>4 DEF CostTick
<1>3. CASE LimitsArrive
  BY <1>3 DEF LimitsArrive
<1>4. ASSUME NEW r \in Prompt, CostStep(r) PROVE CostTypeOK'
  <2>r. Remaining(r) \in 0..CostLife /\ Of(r) \in LLMGateway
    BY RemainingTypes
  <2>c. Copied(r) => /\ copy' \in [LLMGateway -> 0..MaxLogged \union {NoSum}]
                     /\ copyLeft' \in [LLMGateway -> 0..CostLife]
    BY <2>r DEF Copied
  <2>s. Redis10s(r) => /\ sum' \in 0..MaxLogged \union {NoSum}
                       /\ sumLeft' \in 0..CostLife
    BY DEF Redis10s
  <2>v. ASSUME NEW spent, NEW lost \in BOOLEAN, Decides(r, Verdict(r, spent), lost)
        PROVE  /\ step' \in [Prompt -> {"idle", "limits", "sum", "query", "keep", "call",
                                        "alert", "tally", "report"}]
               /\ kind' \in [Prompt -> Kind] /\ tier' \in [Prompt -> {"primary", "fallback"}]
               /\ read' \in [Prompt -> 0..MaxLogged \union {NoSum}]
               /\ age' \in [Prompt -> 0..CostLife]
               /\ unsure' \in [Prompt -> BOOLEAN]
    BY <2>v, VerdictTypes, DecidesTypes
  <2>a. ASSUME NEW present \in BOOLEAN, NEW lost \in BOOLEAN, Applies(r, present, lost)
        PROVE  /\ step' \in [Prompt -> {"idle", "limits", "sum", "query", "keep", "call",
                                        "alert", "tally", "report"}]
               /\ kind' \in [Prompt -> Kind] /\ tier' \in [Prompt -> {"primary", "fallback"}]
               /\ read' \in [Prompt -> 0..MaxLogged \union {NoSum}]
               /\ age' \in [Prompt -> 0..CostLife]
               /\ unsure' \in [Prompt -> BOOLEAN]
    <3>1. CASE present
      BY <2>a, <3>1 DEF Applies
    <3>2. CASE ~present
      BY <2>a, <3>2, DecidesTypes DEF Applies
    <3> QED BY <3>1, <3>2
  <2>b. unsure[r] \in BOOLEAN /\ FALSE \in BOOLEAN /\ TRUE \in BOOLEAN
    OBVIOUS
  <2> HIDE DEF Decides
  <2>1. ASSUME NEW k \in Kind, Arrive(r, k) PROVE CostTypeOK'
    BY <2>1 DEF Arrive
  <2>2. CASE LimitsRead(r)
    BY <2>2, <2>a DEF LimitsRead
  <2>3. CASE LimitsFail(r)
    BY <2>3, <2>a DEF LimitsFail
  <2>4. CASE SumLocal(r)
    BY <2>4, <2>v, <2>b DEF SumLocal
  <2>5. CASE SumRedis(r)
    <3>1. /\ copy' \in [LLMGateway -> 0..MaxLogged \union {NoSum}]
          /\ copyLeft' \in [LLMGateway -> 0..CostLife]
      BY <2>5, <2>r DEF SumRedis
    <3> QED BY <2>5, <2>v, <2>b, <3>1 DEF SumRedis
  <2>6. CASE SumMiss(r)
    BY <2>6 DEF SumMiss
  <2>7. CASE SumFails(r)
    <3>1. CASE copy[Of(r)] # NoSum
      BY <2>7, <2>v, <2>b, <3>1 DEF SumFails
    <3>2. CASE copy[Of(r)] = NoSum
      BY <2>7, <3>2 DEF SumFails
    <3> QED BY <3>1, <3>2
  <2>8. CASE SumQuery(r)
    BY <2>8 DEF SumQuery
  <2>9. CASE QueryFails(r)
    BY <2>9, <2>v, <2>b DEF QueryFails
  <2>10. CASE SumKept(r)
    BY <2>10, <2>v, <2>b, <2>c, <2>s DEF SumKept
  <2>11. CASE Unlogged(r)
    BY <2>11, FinishesTypes DEF Unlogged
  <2>12. CASE Logged(r)
    BY <2>12 DEF Logged
  <2>13. CASE AlertLimits(r)
    <3>1. CASE Finishes(r) /\ unseen' = TRUE
      BY <2>13, <3>1, FinishesTypes DEF AlertLimits
    <3>2. CASE ~(Finishes(r) /\ unseen' = TRUE)
      BY <2>13, <3>2 DEF AlertLimits
    <3> QED BY <3>1, <3>2
  <2>14. CASE Tally(r)
    BY <2>14 DEF Tally
  <2>15. CASE TallyFails(r)
    BY <2>15, FinishesTypes DEF TallyFails
  <2>16. CASE Report(r)
    <3>1. alerted' \in BOOLEAN
      BY <2>16, Zenon DEF Report
    <3> QED BY <2>16, <2>c, <2>s, <3>1, FinishesTypes DEF Report
  <2> QED BY <1>4, <2>1, <2>2, <2>3, <2>4, <2>5, <2>6, <2>7, <2>8, <2>9, <2>10, <2>11, <2>12,
             <2>13, <2>14, <2>15, <2>16 DEF CostStep
<1> QED BY <1>1, <1>2, <1>3, <1>4 DEF CostNext

\* What one tick adds to an age it takes from a life.
LEMMA OneLess ==
  \A k, x, y, u, v, w, z \in Nat :
    x <= u + 1 /\ y = v - 1 /\ w <= z /\ u + v <= k + w => x + y <= k + z
OBVIOUS

\* Time brings every sum closer to its end as fast as it ages.
LEMMA TickAges ==
  ASSUME CostTypeOK, CostTypeOK', SumsAge, CostTick
  PROVE  SumsAge'
<1> USE CostNumbers DEF CostTypeOK, SumsAge
<1>1. /\ UNCHANGED <<logged, limits, copy, step, read>>
      /\ sumLeft' = MinusOne(sumLeft) /\ copyLeft' = [g \in LLMGateway |-> MinusOne(copyLeft[g])]
      /\ sumLeft' # 0 => sum' = sum
  BY DEF CostTick
<1>2. /\ atLimit' \in Nat /\ atLimit \in Nat /\ delays' \in Nat /\ delays \in Nat
      /\ atLimit <= atLimit' /\ atLimit' <= atLimit + 1 /\ delays <= delays'
      /\ logged < Limit => atLimit' = atLimit
      /\ atLimit' # atLimit => limits
  BY DEF CostTick
<1>3. ASSUME NEW r \in Prompt, step[r] \in {"keep", "report"} PROVE delays' = delays + 1
  BY <1>3 DEF CostTick, Looking
<1>4. sumLeft' > 0 /\ sum' < Limit => atLimit' + sumLeft' <= CostLife + delays'
  <2> SUFFICES ASSUME sumLeft' > 0, sum' < Limit
               PROVE  atLimit' + sumLeft' <= CostLife + delays'
    OBVIOUS
  <2>1. sum < Limit /\ sumLeft > 0 /\ sumLeft' = sumLeft - 1
    BY <1>1 DEF MinusOne
  <2>2. atLimit + sumLeft <= CostLife + delays
    BY <2>1
  <2>3. sumLeft \in Nat /\ sumLeft' \in Nat
    OBVIOUS
  <2> HIDE DEF CostTypeOK, SumsAge
  <2>4. /\ atLimit' \in Nat /\ atLimit \in Nat /\ delays' \in Nat /\ delays \in Nat
        /\ atLimit' <= atLimit + 1 /\ delays <= delays'
    BY <1>2, Zenon
  <2>5. sumLeft' = sumLeft - 1
    BY <2>1
  <2>6. atLimit + sumLeft <= CostLife + delays
    BY <2>2
  <2>7. CostLife \in Nat
    BY CostNumbers
  <2> QED BY OneLess, <2>3, <2>4, <2>5, <2>6, <2>7
<1>5. ASSUME NEW g \in LLMGateway, copyLeft'[g] > 0, copy'[g] < Limit
      PROVE  atLimit' + copyLeft'[g] <= 2 * CostLife + delays'
  <2>1. copy[g] < Limit /\ copyLeft[g] > 0 /\ copyLeft'[g] = copyLeft[g] - 1
    BY <1>1, <1>5 DEF MinusOne
  <2>2. atLimit + copyLeft[g] <= 2 * CostLife + delays
    BY <2>1
  <2>3. copyLeft[g] \in Nat
    OBVIOUS
  <2> QED BY <1>2, <2>1, <2>2, <2>3
<1>6. ASSUME NEW r \in Prompt, step'[r] \in {"keep", "report"}, read'[r] < Limit
      PROVE  atLimit' <= delays'
  BY <1>1, <1>2, <1>3, <1>6
<1>7. logged' < Limit => atLimit' = 0
  BY <1>1, <1>2
<1>8. atLimit' > 0 => limits'
  BY <1>1, <1>2
<1> QED BY <1>4, <1>5, <1>6, <1>7, <1>8

\* A gateway's copy is no older than the log's reading or Redis's sum was.
LEMMA CopiesAge ==
  ASSUME CostTypeOK, SumsAge, NEW r \in Prompt,
         UNCHANGED <<atLimit, delays>>, step[r] \in {"keep", "report"},
         Copied(r), Redis10s(r)
  PROVE  /\ sumLeft' > 0 /\ sum' < Limit => atLimit' + sumLeft' <= CostLife + delays'
         /\ \A g \in LLMGateway :
              copyLeft'[g] > 0 /\ copy'[g] < Limit => atLimit' + copyLeft'[g] <= 2 * CostLife + delays'
<1> USE CostNumbers DEF CostTypeOK, SumsAge
<1>1. read[r] < Limit => atLimit <= delays
  OBVIOUS
<1>2. sumLeft' > 0 /\ sum' < Limit => atLimit' + sumLeft' <= CostLife + delays'
  BY <1>1 DEF Redis10s
<1>3. ASSUME NEW g \in LLMGateway, copyLeft'[g] > 0, copy'[g] < Limit
      PROVE  atLimit' + copyLeft'[g] <= 2 * CostLife + delays'
  <2>1. CASE g = Of(r)
    <3>1. copy'[g] = read[r] /\ copyLeft'[g] = Remaining(r)
      BY <2>1 DEF Copied
    <3>2. Remaining(r) \in 0..CostLife
      BY RemainingTypes
    <3> QED BY <1>1, <1>3, <3>1, <3>2
  <2>2. CASE g # Of(r)
    BY <1>3, <2>2 DEF Copied
  <2> QED BY <2>1, <2>2
<1> QED BY <1>2, <1>3

\* Sums below the limit do not outlive the copies' lives.
LEMMA SumsStep ==
  ASSUME CostTypeOK, CostTypeOK', SumsAge, [CostNext]_costVars
  PROVE  SumsAge'
<1> USE DEF sumVars, alertVars, Steps
<1>1. CASE UNCHANGED costVars
  BY <1>1 DEF costVars, SumsAge
<1>2. CASE CostTick
  BY <1>2, TickAges
<1>3. CASE LimitsArrive
  BY <1>3 DEF LimitsArrive, SumsAge
<1>4. ASSUME NEW r \in Prompt, CostStep(r) PROVE SumsAge'
  <2> USE CostNumbers DEF CostTypeOK
  <2>u. UNCHANGED <<limits, delays, atLimit>>
    BY <1>4 DEF CostStep, Arrive, LimitsRead, LimitsFail, SumLocal, SumRedis, SumMiss, SumFails,
             SumQuery, QueryFails, SumKept, Unlogged, Logged, AlertLimits, Tally, TallyFails,
             Report
  <2>l. /\ logged' < Limit => atLimit' = 0
        /\ atLimit' > 0 => limits'
    <3>1. logged' \in {logged, logged + 1}
      BY <1>4 DEF CostStep, Arrive, LimitsRead, LimitsFail, SumLocal, SumRedis, SumMiss,
         SumFails, SumQuery, QueryFails, SumKept, Unlogged, Logged, AlertLimits, Tally,
         TallyFails, Report
    <3>2. logged' < Limit => logged < Limit
      BY <3>1
    <3> QED BY <2>u, <3>2 DEF SumsAge
  <2>k. ASSUME \A q \in Prompt :
                 step'[q] \in {"keep", "report"} =>
                   \/ step[q] \in {"keep", "report"} /\ read'[q] = read[q]
                   \/ read'[q] = logged
        PROVE  \A q \in Prompt :
                 step'[q] \in {"keep", "report"} /\ read'[q] < Limit => atLimit' <= delays'
    BY <2>u, <2>k DEF SumsAge
  <2>d. ASSUME NEW verdict, NEW lost, Decides(r, verdict, lost)
        PROVE  \A q \in Prompt :
                 step'[q] \in {"keep", "report"} =>
                   step[q] \in {"keep", "report"} /\ read'[q] = read[q]
    BY <2>d DEF Decides
  <2>f. ASSUME Finishes(r)
        PROVE  \A q \in Prompt :
                 step'[q] \in {"keep", "report"} =>
                   step[q] \in {"keep", "report"} /\ read'[q] = read[q]
    BY <2>f DEF Finishes
  <2>s. ASSUME UNCHANGED sumVars,
               \A q \in Prompt :
                 step'[q] \in {"keep", "report"} =>
                   \/ step[q] \in {"keep", "report"} /\ read'[q] = read[q]
                   \/ read'[q] = logged
        PROVE  SumsAge'
    BY <2>u, <2>l, <2>k, <2>s DEF SumsAge
  <2>1. ASSUME NEW k \in Kind, Arrive(r, k) PROVE SumsAge'
    BY <2>1, <2>s DEF Arrive
  <2>2. CASE LimitsRead(r)
    BY <2>2, <2>s, <2>d DEF LimitsRead, Applies
  <2>3. CASE LimitsFail(r)
    BY <2>3, <2>s, <2>d DEF LimitsFail, Applies
  <2>4. CASE SumLocal(r)
    BY <2>4, <2>s, <2>d DEF SumLocal
  <2>5. CASE SumRedis(r)
    <3>1. ASSUME NEW g \in LLMGateway, copyLeft'[g] > 0, copy'[g] < Limit
          PROVE  atLimit' + copyLeft'[g] <= 2 * CostLife + delays'
      <4>1. CASE g = Of(r)
        <5>1. copy'[g] = sum /\ copyLeft'[g] = Remaining(r) /\ sumLeft > 0
          BY <2>5, <4>1 DEF SumRedis
        <5>2. Remaining(r) \in 0..CostLife
          BY RemainingTypes
        <5>3. atLimit + sumLeft <= CostLife + delays
          BY <3>1, <5>1 DEF SumsAge
        <5> QED BY <2>u, <5>1, <5>2, <5>3
      <4>2. CASE g # Of(r)
        BY <2>5, <2>u, <3>1, <4>2 DEF SumRedis, SumsAge
      <4> QED BY <4>1, <4>2
    <3>2. UNCHANGED <<sum, sumLeft>>
      BY <2>5 DEF SumRedis
    <3>3. \A q \in Prompt :
            step'[q] \in {"keep", "report"} =>
              step[q] \in {"keep", "report"} /\ read'[q] = read[q]
      BY <2>5, <2>d DEF SumRedis
    <3> QED BY <2>u, <2>l, <2>k, <3>1, <3>2, <3>3 DEF SumsAge
  <2>6. CASE SumMiss(r)
    BY <2>6, <2>s DEF SumMiss
  <2>7. CASE SumFails(r)
    BY <2>7, <2>s, <2>d DEF SumFails
  <2>8. CASE SumQuery(r)
    BY <2>8, <2>s DEF SumQuery
  <2>9. CASE QueryFails(r)
    BY <2>9, <2>s, <2>d DEF QueryFails
  <2>10. CASE SumKept(r)
    <3>1. \A q \in Prompt :
            step'[q] \in {"keep", "report"} =>
              step[q] \in {"keep", "report"} /\ read'[q] = read[q]
      BY <2>10, <2>d DEF SumKept
    <3> QED BY <2>10, <2>u, <2>l, <2>k, <3>1, CopiesAge DEF SumKept, SumsAge
  <2>11. CASE Unlogged(r)
    BY <2>11, <2>s, <2>f DEF Unlogged
  <2>12. CASE Logged(r)
    BY <2>12, <2>s DEF Logged
  <2>13. CASE AlertLimits(r)
    BY <2>13, <2>s, <2>f DEF AlertLimits
  <2>14. CASE Tally(r)
    BY <2>14, <2>s DEF Tally
  <2>15. CASE TallyFails(r)
    BY <2>15, <2>s, <2>f DEF TallyFails
  <2>16. CASE Report(r)
    BY <2>16, <2>u, <2>l, <2>k, <2>f, CopiesAge DEF Report, SumsAge
  <2> QED BY <1>4, <2>1, <2>2, <2>3, <2>4, <2>5, <2>6, <2>7, <2>8, <2>9, <2>10, <2>11, <2>12,
             <2>13, <2>14, <2>15, <2>16 DEF CostStep
<1> QED BY <1>1, <1>2, <1>3, <1>4 DEF CostNext

\* A sum at the threshold never loses the last check that will see it.
LEMMA WatchedStep ==
  ASSUME CostTypeOK, CostTypeOK', Watched, [CostNext]_costVars
  PROVE  Watched'
<1> USE DEF alertVars, Steps
<1>1. CASE UNCHANGED costVars
  BY <1>1 DEF costVars, Watched
<1>2. CASE CostTick
  BY <1>2 DEF CostTick, Watched
<1>3. CASE LimitsArrive
  BY <1>3 DEF LimitsArrive, Watched
<1>4. ASSUME NEW r \in Prompt, CostStep(r) PROVE Watched'
  <2> USE CostNumbers DEF CostTypeOK
  \* A step that is not the alert's leaves the checks of the others alone.
  <2>s. ASSUME UNCHANGED <<logged, alertVars>>, step[r] \notin {"alert", "tally", "report"},
               \A q \in Prompt \ {r} : step'[q] = step[q] /\ read'[q] = read[q]
        PROVE  Watched'
    BY <2>s DEF Watched
  <2>d. ASSUME NEW verdict, NEW lost, Decides(r, verdict, lost)
        PROVE  \A q \in Prompt \ {r} : step'[q] = step[q] /\ read'[q] = read[q]
    BY <2>d DEF Decides
  <2>f. ASSUME Finishes(r)
        PROVE  \A q \in Prompt \ {r} : step'[q] = step[q] /\ read'[q] = read[q]
    BY <2>f DEF Finishes
  <2>1. ASSUME NEW k \in Kind, Arrive(r, k) PROVE Watched'
    BY <2>1, <2>s DEF Arrive
  <2>a. ASSUME NEW present, NEW lost, Applies(r, present, lost)
        PROVE  \A q \in Prompt \ {r} : step'[q] = step[q] /\ read'[q] = read[q]
    BY <2>a, <2>d DEF Applies
  <2>2. CASE LimitsRead(r)
    BY <2>2, <2>s, <2>a DEF LimitsRead
  <2>3. CASE LimitsFail(r)
    BY <2>3, <2>s, <2>a DEF LimitsFail
  <2>4. CASE SumLocal(r)
    BY <2>4, <2>s, <2>d DEF SumLocal
  <2>5. CASE SumRedis(r)
    BY <2>5, <2>s, <2>d DEF SumRedis
  <2>6. CASE SumMiss(r)
    BY <2>6, <2>s DEF SumMiss
  <2>7. CASE SumFails(r)
    BY <2>7, <2>s, <2>d DEF SumFails
  <2>8. CASE SumQuery(r)
    BY <2>8, <2>s DEF SumQuery
  <2>9. CASE QueryFails(r)
    BY <2>9, <2>s, <2>d DEF QueryFails
  <2>10. CASE SumKept(r)
    BY <2>10, <2>s, <2>d DEF SumKept
  <2>11. CASE Unlogged(r)
    BY <2>11, <2>s, <2>f DEF Unlogged
  <2>12. CASE Logged(r)
    <3>1. step'[r] = "alert"
      BY <2>12 DEF Logged
    <3> QED BY <3>1 DEF Watched
  <2>13. CASE AlertLimits(r)
    BY <2>13 DEF AlertLimits, Watched
  <2>14. CASE Tally(r)
    BY <2>14 DEF Tally, Watched
  <2>15. CASE TallyFails(r)
    BY <2>15 DEF TallyFails, Watched
  <2>16. CASE Report(r)
    <3>1. read[r] >= AlertAt => alerted'
      BY <2>16 DEF Report
    <3>2. (alerted => alerted') /\ UNCHANGED <<logged, unseen>>
      BY <2>16, Zenon DEF Report
    <3>3. step[r] = "report" /\ \A q \in Prompt \ {r} : step'[q] = step[q] /\ read'[q] = read[q]
      BY <2>16, <2>f DEF Report
    <3> QED BY <3>1, <3>2, <3>3 DEF Watched
  <2> QED BY <1>4, <2>1, <2>2, <2>3, <2>4, <2>5, <2>6, <2>7, <2>8, <2>9, <2>10, <2>11, <2>12,
             <2>13, <2>14, <2>15, <2>16 DEF CostStep
<1> QED BY <1>1, <1>2, <1>3, <1>4 DEF CostNext

CostInv == CostTypeOK /\ SumsAge /\ Watched

\* The invariant of the cost limit.
LEMMA CostHolds == CostSpec => []CostInv
<1>1. CostInit => CostInv
  <2> SUFFICES ASSUME CostInit PROVE CostInv
    OBVIOUS
  <2> USE CostNumbers, KindAssumption DEF CostInit
  <2>1. /\ copy \in [LLMGateway -> {NoSum}] /\ copyLeft \in [LLMGateway -> {0}]
        /\ step \in [Prompt -> {"idle"}] /\ kind \in [Prompt -> {"complete"}]
        /\ tier \in [Prompt -> {"primary"}] /\ read \in [Prompt -> {NoSum}]
        /\ age \in [Prompt -> {0}] /\ unsure \in [Prompt -> {FALSE}]
    OBVIOUS
  <2>2. unsure \in [Prompt -> BOOLEAN]
    BY <2>1
  <2>3. alerted \in BOOLEAN /\ unseen \in BOOLEAN /\ limits \in BOOLEAN
    OBVIOUS
  <2>4. /\ 0 \in 0..MaxLogged /\ 0 \in 0..CostLife /\ 0 \in 0..MaxDelay
        /\ 0 \in 0..MaxLag + 1
    OBVIOUS
  <2>5. CostTypeOK
    BY <2>1, <2>2, <2>3, <2>4 DEF CostTypeOK
  <2>6. SumsAge
    BY <2>1, <2>4 DEF SumsAge
  <2>7. Watched
    BY <2>1 DEF Watched
  <2> QED BY <2>5, <2>6, <2>7 DEF CostInv
<1>2. CostInv /\ [CostNext]_costVars => CostInv'
  BY CostTypes, SumsStep, WatchedStep DEF CostInv
<1> QED BY <1>1, <1>2, PTL DEF CostSpec

\* The cost limit's state is well typed.
THEOREM CostTypeCorrect == CostSpec => []CostTypeOK
BY CostHolds, PTL DEF CostInv

\* A sum at the threshold raises an alert, however completions overlap.
THEOREM AlertsAreRaised == CostSpec => []AlertRaised
<1>1. CostInv => AlertRaised
  BY DEF CostInv, Watched, AlertRaised
<1> QED BY <1>1, CostHolds, PTL

\* A look-up that saw no failure finds a sum at the limit once the log has been
\* there for the lives of the copies.
LEMMA OldSumsRefuse ==
  ASSUME CostInv, NEW r \in Prompt, CostStep(r), atLimit > MaxLag,
         step[r] # "call", step'[r] = "call", tier'[r] = "primary"
  PROVE  unsure'[r] \/ (kind[r] = "embed" /\ policy = "auto_downgrade")
<1> USE CostNumbers DEF CostInv, CostTypeOK, Steps
<1>t. atLimit \in Nat /\ delays \in Nat /\ delays <= MaxDelay
  OBVIOUS
<1>l. limits
  BY <1>t DEF SumsAge
<1>v. ASSUME NEW spent, NEW lost, Decides(r, Verdict(r, spent), lost)
      PROVE  \/ spent < Limit /\ (lost => unsure'[r])
             \/ kind[r] = "embed" /\ policy = "auto_downgrade"
  BY <1>v DEF Decides, Verdict
<1> HIDE DEF CostTypeOK, CostInv
<1> USE DEF CostInv
<1>1. CASE LimitsRead(r)
  BY <1>1, <1>l DEF LimitsRead, Applies, CostTypeOK
<1>2. CASE LimitsFail(r)
  <2>1. CASE Applies(r, TRUE, TRUE)
    BY <2>1 DEF Applies, CostTypeOK
  <2>2. CASE Applies(r, FALSE, TRUE)
    BY <2>2 DEF Applies, Decides, CostTypeOK
  <2> QED BY <1>2, <1>l, <2>1, <2>2 DEF LimitsFail
<1>3. CASE SumLocal(r)
  <2>1. ~(copy[Of(r)] < Limit)
    BY <1>3, <1>t, RemainingTypes DEF SumLocal, SumsAge, CostTypeOK
  <2> QED BY <1>3, <1>v, <2>1 DEF SumLocal
<1>4. CASE SumRedis(r)
  <2>1. ~(sum < Limit)
    BY <1>4, <1>t DEF SumRedis, SumsAge, CostTypeOK
  <2> QED BY <1>4, <1>v, <2>1 DEF SumRedis
<1>5. CASE SumFails(r)
  BY <1>5, <1>v DEF SumFails, CostTypeOK
<1>6. CASE QueryFails(r)
  BY <1>6, <1>v DEF QueryFails
<1>7. CASE SumKept(r)
  <2>1. ~(read[r] < Limit)
    BY <1>7, <1>t DEF SumKept, SumsAge, CostTypeOK
  <2> QED BY <1>7, <1>v, <2>1 DEF SumKept
<1>8. ~(\E k \in Kind : Arrive(r, k)) /\ ~SumMiss(r) /\ ~SumQuery(r) /\ ~Logged(r) /\ ~Tally(r)
  BY DEF CostTypeOK, Arrive, SumMiss, SumQuery, Logged, Tally
<1>9. ~Unlogged(r) /\ ~AlertLimits(r) /\ ~TallyFails(r) /\ ~Report(r)
  BY DEF CostTypeOK, Unlogged, AlertLimits, TallyFails, Report, Finishes
<1> QED BY <1>1, <1>2, <1>3, <1>4, <1>5, <1>6, <1>7, <1>8, <1>9 DEF CostStep

\* A tenant at its limit is stopped.
THEOREM LimitStops == CostSpec => OverLimitStopped
<1> DEFINE Stopped(r) ==
      step[r] # "call" /\ step'[r] = "call" /\ tier'[r] = "primary" /\ atLimit > MaxLag
        => \/ unsure'[r]
           \/ kind[r] = "embed" /\ policy = "auto_downgrade"
<1>1. ASSUME CostInv, [CostNext]_costVars PROVE [\A r \in Prompt : Stopped(r)]_costVars
  <2> SUFFICES ASSUME CostNext, NEW r \in Prompt PROVE Stopped(r)
    BY <1>1
  <2>1. CASE CostTick
    BY <2>1 DEF CostTick
  <2>2. CASE LimitsArrive
    BY <2>2 DEF LimitsArrive
  <2>3. ASSUME NEW q \in Prompt, CostStep(q) PROVE Stopped(r)
    <3>1. CASE q = r
      BY <1>1, <2>3, <3>1, OldSumsRefuse
    <3>2. CASE q # r
      <4>1. step'[r] = step[r]
        BY <1>1, <2>3, <3>2
        DEF CostInv, CostTypeOK, CostStep, Steps, Decides, Finishes, Applies, Arrive, LimitsRead,
            LimitsFail, SumLocal, SumRedis, SumMiss, SumFails, SumQuery, QueryFails, SumKept,
            Unlogged, Logged, AlertLimits, Tally, TallyFails, Report
      <4> QED BY <4>1
    <3> QED BY <3>1, <3>2
  <2> QED BY <2>1, <2>2, <2>3 DEF CostNext
<1> HIDE DEF Stopped
<1>2. CostSpec => [][\A r \in Prompt : Stopped(r)]_costVars
  BY <1>1, CostHolds, PTL DEF CostSpec
<1> QED BY <1>2 DEF OverLimitStopped, Stopped
=============================================================================
