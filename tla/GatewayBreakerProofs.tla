------------------------ MODULE GatewayBreakerProofs ------------------------
(***************************************************************************)
(* Proofs about GatewayBreaker, for every number of calls, every threshold *)
(* and every cooldown.                                                     *)
(*                                                                         *)
(* While no two functions of the breaker have overlapped, which is always  *)
(* so with one worker process, the counter is the streak: Serial says so   *)
(* between two functions and, point by point, how far each function has    *)
(* come inside one.  Once two workers overlap, an update may be lost and   *)
(* nothing is left of it.                                                  *)
(*                                                                         *)
(* The same invariant makes the breaker implement LockedBreaker so long:   *)
(* the point of the one call inside says which locked step has been taken. *)
(***************************************************************************)
EXTENDS GatewayBreaker, TLAPS

OneInside == \A c, d \in Call : Mid(c) /\ Mid(d) => c = d

\* The counter stands at the threshold exactly when the circuit is not closed.
Agree == failures >= Threshold <=> state # "CLOSED"

\* Nobody is inside record_success or record_failure.
Settled == \A c \in Call : pc[c] \in {"idle", "calling", "gateTime", "setHalfOpen"}

Point(c) ==
  /\ pc[c] = "gateTime"      => lstate[c] = state
  /\ pc[c] = "setHalfOpen"   => state = "OPEN"
  /\ pc[c] = "setClosed"     => streak = 0
  /\ pc[c] = "zero"          => streak = 0 /\ state = "CLOSED"
  /\ pc[c] = "readFailures"  => streak = UpTo(failures + 1, Threshold) /\ Agree
  /\ pc[c] = "writeFailures" => /\ lfail[c] = streak /\ Agree
                                /\ streak = UpTo(failures + 1, Threshold)
  /\ pc[c] = "writeTime"     => /\ lfail[c] = streak /\ failures = streak
                                /\ state # "CLOSED" => failures >= Threshold
  /\ pc[c] \in {"readState", "setOpen"} => failures = streak /\ streak = Threshold

Serial ==
  /\ OneInside
  /\ Settled => failures = streak /\ Agree
  /\ \A c \in Call : Point(c)

CounterInv == ~raced => Serial

\* Every variable stays in its type, however the workers interleave.
THEOREM TypeCorrect == Spec => []TypeOK
<1>1. Init => TypeOK
  <2> SUFFICES ASSUME Init PROVE TypeOK
    OBVIOUS
  <2>1. raced \in BOOLEAN BY Zenon DEF Init
  <2> QED BY <2>1, BreakerAssumption, SMT DEF Init, TypeOK, States, Inside
<1>2. TypeOK /\ [Next]_vars => TypeOK'
  <2> SUFFICES ASSUME TypeOK, [Next]_vars PROVE TypeOK'
    OBVIOUS
  <2> USE BreakerAssumption DEF TypeOK, States, Inside, UpTo
  <2>1. CASE Tick BY <2>1 DEF Tick, locals
  <2>2. CASE BackendChanges BY <2>2 DEF BackendChanges, dict, locals
  <2>3. ASSUME NEW c \in Call, ReadState(c) \/ ResetHeader(c) \/ Proceed(c)
        PROVE  TypeOK'
    <3> USE <2>3 DEF At, dict, locals
    <3>1. CASE ReadState(c) BY <3>1 DEF ReadState
    <3>2. CASE ResetHeader(c) BY <3>2 DEF ResetHeader
    <3>3. CASE Reject(c) BY <3>3 DEF Reject
    <3>4. CASE Admit(c) BY <3>4 DEF Admit
    <3>5. CASE CoolDown(c) BY <3>5 DEF CoolDown
    <3>6. CASE SetHalfOpen(c) BY <3>6 DEF SetHalfOpen
    <3>7. CASE AnswerSuccess(c) BY <3>7 DEF AnswerSuccess
    <3>8. CASE AnswerFailure(c) BY <3>8 DEF AnswerFailure
    <3>9. CASE SetClosed(c) BY <3>9 DEF SetClosed
    <3>10. CASE Zero(c) BY <3>10 DEF Zero
    <3>11. CASE ReadFailures(c) BY <3>11 DEF ReadFailures
    <3>12. CASE WriteFailures(c) BY <3>12 DEF WriteFailures
    <3>13. CASE WriteTime(c) BY <3>13 DEF WriteTime
    <3>14. CASE CheckState(c) BY <3>14 DEF CheckState
    <3>15. CASE SetOpen(c) BY <3>15 DEF SetOpen
    <3> QED
      BY <3>1, <3>2, <3>3, <3>4, <3>5, <3>6, <3>7, <3>8, <3>9, <3>10, <3>11,
         <3>12, <3>13, <3>14, <3>15 DEF Proceed
  <2>4. CASE UNCHANGED vars BY <2>4 DEF vars, dict, locals
  <2> QED BY <2>1, <2>2, <2>3, <2>4 DEF Next
<1> QED BY <1>1, <1>2, PTL DEF Spec

\* As long as nothing has overlapped, no step of a function finds another one
\* half done, and the counter keeps up with the streak.
LEMMA CounterStep ==
  ASSUME TypeOK, ~raced', Serial, [Next]_vars
  PROVE  Serial'
<1> USE BreakerAssumption
    DEF TypeOK, Serial, OneInside, Settled, Agree, Point, Mid, Inside, States, UpTo
<1>1. CASE Tick BY <1>1 DEF Tick, locals
<1>2. CASE BackendChanges BY <1>2 DEF BackendChanges, dict, locals
<1>3. ASSUME NEW c \in Call, ReadState(c) \/ ResetHeader(c) \/ Proceed(c)
      PROVE  Serial'
  <2> USE <1>3 DEF At, dict, locals
  <2>1. CASE ReadState(c)
    <3> USE <2>1 DEF ReadState
    <3>1. \A d \in Call \ {c} : ~Mid(d)
      OBVIOUS
    <3>2. OneInside'
      BY <3>1
    <3>3. (Settled => failures = streak /\ Agree)'
      BY <3>1
    <3>4. \A d \in Call : Point(d)'
      BY <3>1
    <3> QED BY <3>2, <3>3, <3>4
  <2>2. CASE ResetHeader(c)
    <3> USE <2>2 DEF ResetHeader
    <3>1. \A d \in Call \ {c} : ~Mid(d)
      OBVIOUS
    <3>2. OneInside'
      BY <3>1
    <3>3. (Settled => failures = streak /\ Agree)'
      BY <3>1
    <3>4. \A d \in Call : Point(d)'
      BY <3>1
    <3> QED BY <3>2, <3>3, <3>4
  <2>3. CASE Reject(c) BY <2>3 DEF Reject
  <2>4. CASE Admit(c) BY <2>4 DEF Admit
  <2>5. CASE CoolDown(c) BY <2>5 DEF CoolDown
  <2>6. CASE SetHalfOpen(c) BY <2>6 DEF SetHalfOpen
  <2>7. CASE AnswerSuccess(c)
    <3> USE <2>7 DEF AnswerSuccess
    <3>1. \A d \in Call \ {c} : ~Mid(d)
      OBVIOUS
    <3>2. OneInside'
      BY <3>1
    <3>3. (Settled => failures = streak /\ Agree)'
      BY <3>1
    <3>4. \A d \in Call : Point(d)'
      BY <3>1
    <3> QED BY <3>2, <3>3, <3>4
  <2>8. CASE AnswerFailure(c)
    <3> USE <2>8 DEF AnswerFailure
    <3>1. \A d \in Call \ {c} : ~Mid(d)
      OBVIOUS
    <3>2. OneInside'
      BY <3>1
    <3>3. (Settled => failures = streak /\ Agree)'
      BY <3>1
    <3>4. \A d \in Call : Point(d)'
      BY <3>1
    <3> QED BY <3>2, <3>3, <3>4
  <2>9. CASE SetClosed(c) BY <2>9 DEF SetClosed
  <2>10. CASE Zero(c) BY <2>10 DEF Zero
  <2>11. CASE ReadFailures(c) BY <2>11 DEF ReadFailures
  <2>12. CASE WriteFailures(c) BY <2>12 DEF WriteFailures
  <2>13. CASE WriteTime(c) BY <2>13 DEF WriteTime, Trips
  <2>14. CASE CheckState(c) BY <2>14 DEF CheckState
  <2>15. CASE SetOpen(c) BY <2>15 DEF SetOpen
  <2> QED
    BY <2>1, <2>2, <2>3, <2>4, <2>5, <2>6, <2>7, <2>8, <2>9, <2>10, <2>11,
       <2>12, <2>13, <2>14, <2>15 DEF Proceed
<1>4. CASE UNCHANGED vars BY <1>4 DEF vars, dict, locals
<1> QED BY <1>1, <1>2, <1>3, <1>4 DEF Next

\* An overlap is never forgotten.
LEMMA RacedSticks == [Next]_vars /\ ~raced' => ~raced
  BY DEF Next, ReadState, ResetHeader, Proceed, Reject, Admit, CoolDown, SetHalfOpen,
         AnswerSuccess, AnswerFailure, SetClosed, Zero, ReadFailures, WriteFailures,
         WriteTime, CheckState, SetOpen, Tick, BackendChanges, At, vars

\* The invariant of the counter.
LEMMA CounterHolds == Spec => [](TypeOK /\ CounterInv)
<1>1. Init => CounterInv
  BY BreakerAssumption
  DEF Init, CounterInv, Serial, OneInside, Settled, Agree, Point, Mid, Inside
<1>2. TypeOK /\ CounterInv /\ [Next]_vars => CounterInv'
  BY CounterStep, RacedSticks DEF CounterInv
<1> QED BY <1>1, <1>2, TypeCorrect, PTL DEF Spec

\* Threshold failures in a row open the circuit while no functions overlap.
THEOREM StreakTrips == Spec => []FailuresTrip
<1>1. TypeOK /\ CounterInv => FailuresTrip
  BY BreakerAssumption
  DEF CounterInv, Serial, TypeOK, Settled, Agree, FailuresTrip, Quiet, Mid, Inside
<1> QED BY <1>1, CounterHolds, PTL

\* One failing probe is enough to open the circuit again, likewise.
THEOREM ProbeReopens == Spec => []ProbeFailureReopens
<1>1. TypeOK /\ CounterInv => ProbeFailureReopens
  BY BreakerAssumption
  DEF CounterInv, Serial, TypeOK, Settled, Agree, ProbeFailureReopens, Quiet, Mid, Inside
<1> QED BY <1>1, CounterHolds, PTL

\* Until functions of the breaker overlap, its counter misses neither a streak of
\* failures nor a failing probe.
THEOREM CounterTrips == Spec => []TripsInTime
<1>1. FailuresTrip /\ ProbeFailureReopens => TripsInTime
  BY DEF TripsInTime
<1> QED BY <1>1, StreakTrips, ProbeReopens, PTL

-----------------------------------------------------------------------------
(* The refinement of LockedBreaker.  A call is alone in the breaker until  *)
(* functions overlap, so its own point decides what the locked breaker     *)
(* looks like, before the step and after it.                               *)

\* Whoever moves to HALF-OPEN has seen the cooldown pass, and no failure since.
CooledInv == ~raced => \A c \in Call : pc[c] = "setHalfOpen" => age >= Cooldown

\* The others of a step that nobody overlaps are outside the breaker.
LEMMA Alone ==
  ASSUME TypeOK, NEW c \in Call, NEW here, NEW next, At(c, here, next), ~raced'
  PROVE  /\ pc[c] = here /\ pc' = [pc EXCEPT ![c] = next]
         /\ \A d \in Call \ {c} : pc[d] \notin Inside
         /\ \A P \in SUBSET Inside :
              /\ Some(P) <=> here \in P
              /\ (\E d \in Call : pc'[d] \in P) <=> next \in P
<1>1. pc[c] = here /\ pc' = [pc EXCEPT ![c] = next] /\ pc'[c] = next
  BY DEF At, TypeOK
<1>2. \A d \in Call \ {c} : pc[d] \notin Inside /\ pc'[d] = pc[d]
  BY <1>1 DEF At, Mid, TypeOK
<1> QED BY <1>1, <1>2 DEF Some

\* What the locked breaker looks like around such a step.
LEMMA Looks ==
  ASSUME TypeOK, NEW c \in Call, NEW here, NEW next, At(c, here, next), ~raced'
  PROVE  /\ Circuit = IF here = "setClosed" THEN "CLOSED"
                       ELSE IF streak = Threshold /\ here \in Tripping THEN "OPEN" ELSE state
         /\ Circuit' = IF next = "setClosed" THEN "CLOSED"
                       ELSE IF streak' = Threshold /\ next \in Tripping THEN "OPEN" ELSE state'
         /\ Since = IF here \in Recording THEN 0 ELSE age
         /\ Since' = IF next \in Recording THEN 0 ELSE age'
         /\ c \in InCall <=> here = "calling"
         /\ InCall' = IF next = "calling" THEN InCall \union {c} ELSE InCall \ {c}
<1>1. {"setClosed"} \subseteq Inside /\ Tripping \subseteq Inside /\ Recording \subseteq Inside
  BY DEF Inside, Tripping, Recording
<1>2. /\ Some({"setClosed"}) <=> here = "setClosed"
      /\ Some({"setClosed"})' <=> next = "setClosed"
      /\ Some(Tripping) <=> here \in Tripping
      /\ Some(Tripping)' <=> next \in Tripping
      /\ Some(Recording) <=> here \in Recording
      /\ Some(Recording)' <=> next \in Recording
  <2>1. \A P \in SUBSET Inside : (Some(P) <=> here \in P) /\ (Some(P)' <=> next \in P)
    BY Alone DEF Some
  <2> QED BY <1>1, <2>1
<1>3. Circuit = IF here = "setClosed" THEN "CLOSED"
                ELSE IF streak = Threshold /\ here \in Tripping THEN "OPEN" ELSE state
  BY <1>2 DEF Circuit
<1>4. Circuit' = IF next = "setClosed" THEN "CLOSED"
                ELSE IF streak' = Threshold /\ next \in Tripping THEN "OPEN" ELSE state'
  BY <1>2 DEF Circuit
<1>5. /\ Since = IF here \in Recording THEN 0 ELSE age
      /\ Since' = IF next \in Recording THEN 0 ELSE age'
  BY <1>2 DEF Since
<1>6. /\ c \in InCall <=> here = "calling"
      /\ InCall' = IF next = "calling" THEN InCall \union {c} ELSE InCall \ {c}
  BY Alone DEF InCall, TypeOK
<1> QED BY <1>3, <1>4, <1>5, <1>6

\* Only a failure resets the age, and none does while another call is inside.
LEMMA CooledHolds == Spec => []CooledInv
<1>1. Init => CooledInv
  BY DEF Init, CooledInv
<1>2. TypeOK /\ CooledInv /\ [Next]_vars => CooledInv'
  <2> SUFFICES ASSUME TypeOK, CooledInv, [Next]_vars, ~raced' PROVE CooledInv'
    BY DEF CooledInv
  <2>r. \A c \in Call : pc[c] = "setHalfOpen" => age >= Cooldown
    BY RacedSticks DEF CooledInv
  <2>1. CASE Tick
    BY <2>1, <2>r, BreakerAssumption DEF Tick, CooledInv, TypeOK, UpTo
  <2>2. CASE BackendChanges \/ UNCHANGED vars
    BY <2>2, <2>r DEF BackendChanges, CooledInv, dict, vars
  <2>3. ASSUME NEW c \in Call, NEW here, NEW next, At(c, here, next),
               next = "setHalfOpen" => age' >= Cooldown,
               age' = age \/ here \in Inside
        PROVE  CooledInv'
    <3>1. \A d \in Call \ {c} : pc[d] \notin Inside /\ pc'[d] = pc[d]
      BY <2>3, Alone DEF TypeOK
    <3>2. pc'[c] = next
      BY <2>3 DEF At, TypeOK
    <3> QED BY <2>3, <3>1, <3>2 DEF CooledInv, Inside
  <2>4. ASSUME NEW c \in Call, ReadState(c) \/ ResetHeader(c) \/ Proceed(c)
        PROVE  CooledInv'
    <3> USE DEF dict, locals
    <3>1. CASE \/ ReadState(c) \/ ResetHeader(c) \/ Reject(c) \/ Admit(c) \/ SetHalfOpen(c)
               \/ AnswerSuccess(c) \/ AnswerFailure(c) \/ SetClosed(c) \/ Zero(c)
               \/ ReadFailures(c) \/ WriteFailures(c) \/ CheckState(c) \/ SetOpen(c)
      <4>1. age' = age
        BY <3>1
        DEF ReadState, ResetHeader, Reject, Admit, SetHalfOpen, AnswerSuccess, AnswerFailure,
            SetClosed, Zero, ReadFailures, WriteFailures, CheckState, SetOpen
      <4>2. \E here, next : At(c, here, next) /\ next # "setHalfOpen"
        BY <3>1
        DEF ReadState, ResetHeader, Reject, Admit, SetHalfOpen, AnswerSuccess, AnswerFailure,
            SetClosed, Zero, ReadFailures, WriteFailures, CheckState, SetOpen
      <4> QED BY <4>1, <4>2, <2>3
    <3>2. CASE CoolDown(c)
      BY <3>2, <2>3 DEF CoolDown, Cooled
    <3>3. CASE WriteTime(c)
      <4>1. \E next : At(c, "writeTime", next) /\ next # "setHalfOpen"
        BY <3>3 DEF WriteTime
      <4> QED BY <4>1, <2>3 DEF Inside
    <3> QED BY <2>4, <3>1, <3>2, <3>3 DEF Proceed
  <2> QED BY <2>1, <2>2, <2>4 DEF Next
<1> QED BY <1>1, <1>2, TypeCorrect, PTL DEF Spec

\* Every step that nobody overlaps is one of the locked breaker, or none of it: a
\* function takes effect as a whole in its first step, a HALF-OPEN in its second.
LEMMA StepsAsLocked ==
  ASSUME TypeOK, Serial, ~raced', Next,
         \A c \in Call : pc[c] = "setHalfOpen" => age >= Cooldown
  PROVE  Lock!Next \/ UNCHANGED Lock!locked
<1>n. Threshold \in Nat \ {0} /\ Cooldown \in Nat /\ streak \in 0..Threshold /\ age \in 0..Cooldown
  BY BreakerAssumption DEF TypeOK
<1>1. CASE Tick
  <2>1. /\ Circuit' = Circuit /\ InCall' = InCall /\ streak' = streak
        /\ Since' = IF Some(Recording) THEN 0 ELSE age'
    BY <1>1 DEF Tick, Circuit, InCall, Since, Some
  <2>2. Since = IF Some(Recording) THEN 0 ELSE age
    BY DEF Since
  <2>3. age' = IF age < Cooldown THEN age + 1 ELSE Cooldown
    BY <1>1, <1>n DEF Tick, UpTo
  <2>4. CASE Some(Recording)
    BY <2>1, <2>2, <2>4 DEF Lock!locked
  <2>5. CASE ~Some(Recording)
    BY <2>1, <2>2, <2>3, <2>5 DEF Lock!Next, Lock!Elapse
  <2> QED BY <2>4, <2>5
<1>2. CASE BackendChanges
  BY <1>2 DEF BackendChanges, dict, locals, Lock!locked, Circuit, InCall, Since, Some
<1>3. ASSUME NEW c \in Call, ReadState(c) \/ ResetHeader(c) \/ Proceed(c)
      PROVE  Lock!Next \/ UNCHANGED Lock!locked
  <2>s. pc[c] \in Inside \union {"idle", "calling"} /\ Point(c)
    BY DEF TypeOK, Serial
  <2> USE DEF dict, locals, Recording, Tripping
  <2>1. CASE ReadState(c)
    <3>1. At(c, "idle", "gateTime") /\ UNCHANGED <<state, age, streak>>
      BY <2>1 DEF ReadState
    <3> QED BY <3>1, Looks DEF Lock!locked
  <2>2. CASE ResetHeader(c)
    <3>1. At(c, "idle", "setClosed") /\ UNCHANGED <<state, age>> /\ streak' = 0
      BY <2>2 DEF ResetHeader
    <3>2. Lock!Reset
      BY <3>1, Looks DEF Lock!Reset
    <3> QED BY <3>2 DEF Lock!Next
  <2>3. CASE Reject(c)
    <3>1. At(c, "gateTime", "idle") /\ UNCHANGED <<state, age, streak>>
      BY <2>3 DEF Reject
    <3> QED BY <3>1, Looks DEF Lock!locked
  <2>4. CASE Admit(c)
    <3>1. At(c, "gateTime", "calling") /\ UNCHANGED <<state, age, streak>> /\ lstate[c] # "OPEN"
      BY <2>4 DEF Admit
    <3>2. state # "OPEN"
      BY <3>1, <2>s DEF Point, At
    <3>3. Lock!Enter(c)
      BY <3>1, <3>2, Looks DEF Lock!Enter
    <3> QED BY <3>3 DEF Lock!Next
  <2>5. CASE CoolDown(c)
    <3>1. At(c, "gateTime", "setHalfOpen") /\ UNCHANGED <<state, age, streak>>
      BY <2>5 DEF CoolDown
    <3> QED BY <3>1, Looks DEF Lock!locked
  <2>6. CASE SetHalfOpen(c)
    <3>1. At(c, "setHalfOpen", "calling") /\ UNCHANGED <<age, streak>> /\ state' = "HALF-OPEN"
      BY <2>6 DEF SetHalfOpen
    <3>2. state = "OPEN" /\ age >= Cooldown
      BY <3>1, <2>s DEF Point, At
    <3>3. Lock!Enter(c)
      BY <3>1, <3>2, Looks DEF Lock!Enter
    <3> QED BY <3>3 DEF Lock!Next
  <2>7. CASE AnswerSuccess(c)
    <3>1. At(c, "calling", "setClosed") /\ UNCHANGED <<state, age>> /\ streak' = 0
      BY <2>7 DEF AnswerSuccess
    <3>2. Lock!Succeed(c)
      BY <3>1, Looks DEF Lock!Succeed
    <3> QED BY <3>2 DEF Lock!Next
  <2>8. CASE AnswerFailure(c)
    <3>1. At(c, "calling", "readFailures") /\ UNCHANGED <<state, age>>
      BY <2>8 DEF AnswerFailure
    <3>2. streak' = IF streak < Threshold THEN streak + 1 ELSE Threshold
      BY <2>8, <1>n DEF AnswerFailure, UpTo
    <3>3. Lock!Fail(c)
      BY <3>1, <3>2, Looks DEF Lock!Fail
    <3> QED BY <3>3 DEF Lock!Next
  <2>9. CASE SetClosed(c)
    <3>1. At(c, "setClosed", "zero") /\ UNCHANGED <<age, streak>> /\ state' = "CLOSED"
      BY <2>9 DEF SetClosed
    <3> QED BY <3>1, Looks DEF Lock!locked
  <2>10. CASE Zero(c)
    <3>1. At(c, "zero", "idle") /\ UNCHANGED <<state, age, streak>>
      BY <2>10 DEF Zero
    <3> QED BY <3>1, Looks DEF Lock!locked
  <2>11. CASE ReadFailures(c)
    <3>1. At(c, "readFailures", "writeFailures") /\ UNCHANGED <<state, age, streak>>
      BY <2>11 DEF ReadFailures
    <3> QED BY <3>1, Looks DEF Lock!locked
  <2>12. CASE WriteFailures(c)
    <3>1. At(c, "writeFailures", "writeTime") /\ UNCHANGED <<state, age, streak>>
      BY <2>12 DEF WriteFailures
    <3> QED BY <3>1, Looks DEF Lock!locked
  <2>13. CASE WriteTime(c)
    <3>1. pc[c] = "writeTime" /\ lfail[c] = streak
      BY <2>13, <2>s DEF WriteTime, At, Point
    <3>2. /\ At(c, "writeTime", IF streak = Threshold THEN "readState" ELSE "idle")
          /\ UNCHANGED <<state, streak>> /\ age' = 0
      BY <2>13, <3>1, <1>n DEF WriteTime, Trips
    <3>3. CASE streak = Threshold
      <4>1. At(c, "writeTime", "readState")
        BY <3>2, <3>3
      <4> QED BY <3>2, <3>3, <4>1, Looks DEF Lock!locked
    <3>4. CASE streak # Threshold
      <4>1. At(c, "writeTime", "idle")
        BY <3>2, <3>4
      <4> QED BY <3>2, <3>4, <4>1, Looks DEF Lock!locked
    <3> QED BY <3>3, <3>4
  <2>14. CASE CheckState(c)
    <3>1. UNCHANGED <<state, age, streak>>
      BY <2>14 DEF CheckState
    <3>2. CASE state = "OPEN"
      <4>1. At(c, "readState", "idle")
        BY <2>14, <3>2 DEF CheckState
      <4> QED BY <3>1, <3>2, <4>1, Looks DEF Lock!locked
    <3>3. CASE state # "OPEN"
      <4>1. At(c, "readState", "setOpen")
        BY <2>14, <3>3 DEF CheckState
      <4> QED BY <3>1, <3>3, <4>1, Looks DEF Lock!locked
    <3> QED BY <3>2, <3>3
  <2>15. CASE SetOpen(c)
    <3>1. At(c, "setOpen", "idle") /\ UNCHANGED <<age, streak>> /\ state' = "OPEN"
      BY <2>15 DEF SetOpen
    <3>2. streak = Threshold
      BY <3>1, <2>s DEF Point, At
    <3> QED BY <3>1, <3>2, Looks DEF Lock!locked
  <2> QED
    BY <1>3, <2>1, <2>2, <2>3, <2>4, <2>5, <2>6, <2>7, <2>8, <2>9, <2>10, <2>11,
       <2>12, <2>13, <2>14, <2>15 DEF Proceed
<1> QED BY <1>1, <1>2, <1>3 DEF Next

\* The locked breaker's first state.
LEMMA BeginsLocked == Init => Lock!Init
<1> SUFFICES ASSUME Init PROVE Lock!Init
  OBVIOUS
<1>1. ~Some({"setClosed"}) /\ ~Some(Tripping) /\ ~Some(Recording) /\ InCall = {}
  BY DEF Init, Some, Tripping, Recording, InCall
<1> QED BY <1>1 DEF Init, Lock!Init, Circuit, Since

\* Until two functions overlap, gets and sets amount to functions under a lock.
THEOREM ActsAsLocked == Spec => AsIfLocked
<1>1. TypeOK /\ CounterInv /\ CooledInv /\ [Next]_vars
        => [raced' \/ Lock!Next \/ UNCHANGED Lock!locked]_vars
  BY StepsAsLocked, RacedSticks DEF CounterInv, CooledInv
<1> QED BY <1>1, BeginsLocked, CounterHolds, CooledHolds, PTL DEF Spec, AsIfLocked

\* With one worker process functions never overlap.
OneWorker == Init /\ [][Next /\ ~raced']_vars

\* Such a breaker implements the locked one.
THEOREM OneWorkerIsLocked == OneWorker => Lock!Spec
<1>1. TypeOK /\ CounterInv /\ CooledInv /\ [Next /\ ~raced']_vars => [Lock!Next]_(Lock!locked)
  <2>1. UNCHANGED vars => UNCHANGED Lock!locked
    BY DEF vars, Lock!locked, Circuit, Since, InCall, Some
  <2> QED BY <2>1, StepsAsLocked, RacedSticks DEF CounterInv, CooledInv
<1>2. [Next /\ ~raced']_vars => [Next]_vars
  OBVIOUS
<1>3. OneWorker => Spec
  BY <1>2, PTL DEF OneWorker, Spec
<1> QED BY <1>1, <1>3, BeginsLocked, CounterHolds, CooledHolds, PTL DEF OneWorker, Lock!Spec
=============================================================================
