--------------------------- MODULE AgentLoopProofs ---------------------------
(***************************************************************************)
(* Theorems about AgentLoop.  All but TypeCorrect rest on an invariant     *)
(* that follows a request through the graph: what the tools already called *)
(* allow, what is left of the budget, and where the text that will be      *)
(* returned comes from.                                                    *)
(***************************************************************************)
EXTENDS MCAgentLoop, FiniteSetTheorems, TLAPS

\* What the model asks for in one reply is a sequence of tools.
LEMMA BatchesAreSequences == Batches \subseteq Seq(Tools)
  BY DEF Batches

\* What a completion leaves behind, whoever answered.
LEMMA Completed ==
  ASSUME TypeOK, NEW key, NEW refused \in SUBSET Keys, Complete(key, refused)
  PROVE  /\ text' \in Texts /\ source' \in Keys \cup {"model"} /\ calls' \in Seq(Tools)
         /\ cached' \in [Keys -> Texts] /\ rejected' \subseteq Keys
         /\ tokens' \in 0..(Budget + 1) /\ (tokens > Budget => tokens' > Budget)
         /\ late' \in Nat /\ (tokens <= Budget => late' = late) /\ late' <= late + 1
<1>0. /\ Budget \in Nat /\ Costs \subseteq Nat /\ tokens \in 0..(Budget + 1) /\ late \in Nat
      /\ cached \in [Keys -> Texts] /\ rejected \subseteq Keys
  BY AgentAssumption DEF TypeOK
<1>1. CASE Hit(key, refused)
  <2>1. key \in Keys /\ text' = cached[key] /\ source' = key /\ calls' = <<>>
        /\ rejected' = refused /\ tokens' = tokens /\ late' = late /\ cached' = cached
    BY <1>1 DEF Hit
  <2>2. calls' \in Seq(Tools)
    BY <2>1
  <2>3. text' \in Texts
    BY <1>0, <2>1
  <2>4. late' <= late + 1
    BY <1>0, <2>1
  <2> QED BY <1>0, <2>1, <2>2, <2>3, <2>4
<1>2. CASE Generate(key, refused)
  <2>1. PICK t \in Texts, b \in Batches, c \in Costs, stored \in BOOLEAN :
          /\ stored => request.chatbot /\ key \in Keys /\ b = <<>> /\ t # "none"
          /\ text' = t /\ calls' = b
          /\ source' = IF stored THEN key ELSE "model"
          /\ cached' = IF stored THEN [cached EXCEPT ![key] = t] ELSE cached
          /\ rejected' = IF stored THEN refused \ {key} ELSE refused
          /\ tokens' = Spend(c)
          /\ late' = IF tokens > Budget THEN late + 1 ELSE late
    BY <1>2 DEF Generate
  <2>2. calls' \in Seq(Tools)
    BY <2>1, BatchesAreSequences
  <2>3. c \in Nat
    BY <1>0, <2>1
  <2>4. tokens' \in 0..(Budget + 1) /\ (tokens > Budget => tokens' > Budget)
    BY <1>0, <2>1, <2>3 DEF Spend
  <2>5. late' \in Nat /\ (tokens <= Budget => late' = late) /\ late' <= late + 1
    BY <1>0, <2>1
  <2>6. text' \in Texts /\ source' \in Keys \cup {"model"}
    BY <2>1
  <2>7. cached' \in [Keys -> Texts] /\ rejected' \subseteq Keys
    BY <1>0, <2>1
  <2> QED BY <2>2, <2>4, <2>5, <2>6, <2>7
<1> QED BY <1>1, <1>2 DEF Complete

\* Moderation lets no rejected text through and makes nothing empty.
LEMMA ModeratedTexts ==
  /\ \A t \in Texts : Moderated(t) \in Texts \cup Canned
  /\ \A t \in Texts \cup {"escalation"} : Moderated(t) \in Texts \cup Canned
  /\ \A t \in Texts \cup {"escalation"} : Moderated(t) # "toxic"
  /\ \A t \in Texts : Moderated(t) = "none" => t = "none"
  BY DEF Texts, Canned, Moderated

\* Every reachable state is well typed.
THEOREM TypeCorrect == Spec => []TypeOK
<1> USE AgentAssumption
<1>1. Init => TypeOK
  <2> SUFFICES ASSUME Init PROVE TypeOK
    OBVIOUS
  <2>1. calls \in Seq(Tools) /\ called \in Seq(Tools)
    BY DEF Init
  <2>2. cached \in [Keys -> Texts]
    BY DEF Init, Texts
  <2>3. /\ iter \in 0..MaxIter /\ tokens \in 0..(Budget + 1) /\ retries \in 0..MaxRetries
        /\ late \in Nat /\ served \in 0..MaxRequests
    BY DEF Init
  <2>4. /\ text \in Texts /\ spoken \in Texts /\ final \in Texts /\ answer \in Texts
    BY DEF Init, Texts
  <2> QED BY <2>1, <2>2, <2>3, <2>4 DEF Init, TypeOK
<1>2. TypeOK /\ [Next]_vars => TypeOK'
  <2> SUFFICES ASSUME TypeOK, [Next]_vars PROVE TypeOK'
    OBVIOUS
  <2> USE DEF conversation, message, cache
  <2>1. CASE Run
    <3>1. calls' \in Seq(Tools) /\ called' \in Seq(Tools)
      BY <2>1 DEF Run
    <3>2. cached' \in [Keys -> Texts] /\ rejected' \subseteq Keys
      BY <2>1 DEF Run, TypeOK
    <3>3. served' \in 0..MaxRequests
      BY <2>1 DEF Run, TypeOK
    <3>4. /\ text' \in Texts /\ spoken' \in Texts /\ final' \in Texts /\ answer' \in Texts
      BY <2>1 DEF Run, Texts
    <3> QED BY <2>1, <3>1, <3>2, <3>3, <3>4 DEF Run, TypeOK
  <2>2. CASE GiveUp
    BY <2>2 DEF GiveUp, TypeOK, Canned
  <2>3. CASE Decline
    BY <2>3 DEF Decline, TypeOK, Canned
  <2>4. CASE Reason
    <3>1. rejected \in SUBSET Keys /\ Complete(Question, rejected)
      BY <2>4 DEF Reason, TypeOK
    <3>2. final' \in Texts \cup Canned
      BY <2>4, <3>1, Completed, ModeratedTexts DEF Reason, TypeOK
    <3>3. pc' \in {"ground", "route"}
      BY <2>4 DEF Reason
    <3>4. spoken' \in Texts \cup {"escalation"} /\ retries' \in 0..MaxRetries
      BY <2>4 DEF Reason, TypeOK
    <3>5. /\ text' \in Texts /\ source' \in Keys \cup {"model"} /\ calls' \in Seq(Tools)
          /\ cached' \in [Keys -> Texts] /\ rejected' \subseteq Keys
          /\ tokens' \in 0..(Budget + 1) /\ late' \in Nat
      BY <3>1, Completed
    <3> QED BY <2>4, <3>2, <3>3, <3>4, <3>5 DEF Reason, TypeOK
  <2>5. CASE Grounded
    BY <2>5, ModeratedTexts DEF Grounded, TypeOK
  <2>6. CASE Retry
    <3>1. Refused \in SUBSET Keys /\ Complete("warning", Refused)
      BY <2>6 DEF Retry, Refused, TypeOK
    <3>2. pc' = "ground"
      BY <2>6 DEF Retry, Ground
    <3>3. retries' \in 0..MaxRetries
      <4>1. retries \in 0..MaxRetries /\ retries < MaxRetries /\ retries' = retries + 1
        BY <2>6 DEF Retry, TypeOK
      <4> QED BY <4>1
    <3>4. /\ text' \in Texts /\ source' \in Keys \cup {"model"} /\ calls' \in Seq(Tools)
          /\ cached' \in [Keys -> Texts] /\ rejected' \subseteq Keys
          /\ tokens' \in 0..(Budget + 1) /\ late' \in Nat
      BY <3>1, Completed
    <3> QED BY <2>6, <3>2, <3>3, <3>4 DEF Retry, TypeOK
  <2>7. CASE Escalate
    BY <2>7, ModeratedTexts DEF Escalate, Refused, TypeOK
  <2>8. CASE Fail
    BY <2>8 DEF Fail, Refused, TypeOK
  <2>9. CASE ShouldContinue
    BY <2>9 DEF ShouldContinue, TypeOK
  <2>10. CASE HandleCall
    <3> DEFINE t == Head(calls)
    <3>1. t \in Tools /\ Tail(calls) \in Seq(Tools)
      BY <2>10 DEF HandleCall, TypeOK
    <3>2. called' \in Seq(Tools)
      BY <2>10, <3>1 DEF HandleCall, TypeOK
    <3>3. calls' \in Seq(Tools)
      BY <2>10, <3>1 DEF HandleCall
    <3>4. CASE Tail(calls) = <<>>
      BY <2>10, <3>2, <3>3, <3>4 DEF HandleCall, TypeOK
    <3>5. CASE Tail(calls) # <<>>
      BY <2>10, <3>2, <3>3, <3>5 DEF HandleCall, TypeOK
    <3> QED BY <3>4, <3>5
  <2>11. CASE Extract
    BY <2>11 DEF Extract, TypeOK, Canned
  <2>12. CASE UNCHANGED vars
    BY <2>12 DEF vars, TypeOK
  <2> QED
    BY <2>1, <2>2, <2>3, <2>4, <2>5, <2>6, <2>7, <2>8, <2>9, <2>10, <2>11, <2>12
    DEF Next, Step
<1> QED BY <1>1, <1>2, PTL DEF Spec

-----------------------------------------------------------------------------
(* The tools a request has run.                                            *)

\* One more entry of a sequence adds at most its own place to a selection.
LEMMA TimesAppend ==
  ASSUME called \in Seq(Tools), NEW t \in Tools, called' = Append(called, t)
  PROVE  /\ Times(Web)' \in Nat /\ Times(Web) \in Nat
         /\ t = Web => Times(Web)' = Times(Web) + 1
         /\ t # Web => Times(Web)' = Times(Web)
<1> DEFINE n == Len(called)
           S == {i \in DOMAIN called : called[i] = Web}
           S1 == {i \in DOMAIN called' : called'[i] = Web}
<1>1. n \in Nat /\ DOMAIN called = 1..n /\ DOMAIN called' = 1..(n + 1)
      /\ called'[n + 1] = t /\ \A i \in 1..n : called'[i] = called[i]
  OBVIOUS
<1>2. IsFiniteSet(S) /\ Cardinality(S) \in Nat
  <2>1. IsFiniteSet(1..n)
    BY <1>1, FS_Interval
  <2>2. S \subseteq 1..n
    BY <1>1
  <2> QED BY <2>1, <2>2, FS_Subset, FS_CardinalityType
<1>3. Times(Web) = Cardinality(S) /\ Times(Web)' = Cardinality(S1)
  BY DEF Times
<1> HIDE DEF S, S1
<1>4. CASE t = Web
  <2>1. S1 = S \cup {n + 1} /\ n + 1 \notin S
    BY <1>1, <1>4 DEF S, S1
  <2>2. Cardinality(S1) = Cardinality(S) + 1
    BY <2>1, <1>2, FS_AddElement
  <2> QED BY <1>2, <1>3, <1>4, <2>2
<1>5. CASE t # Web
  <2>1. S1 = S
    BY <1>1, <1>5 DEF S, S1
  <2> QED BY <1>2, <1>3, <1>5, <2>1
<1> QED BY <1>4, <1>5

\* What HandleCall does to the tools called.
LEMMA CalledStep ==
  ASSUME TypeOK, HandleCall
  PROVE  \/ called' = called
         \/ \E t \in Tools : Permitted(t) /\ called' = Append(called, t)
<1>1. Head(calls) \in Tools
  BY DEF HandleCall, TypeOK
<1> QED BY <1>1 DEF HandleCall

\* Every other step of the request leaves them alone, and Run forgets them.
LEMMA CalledKept ==
  ASSUME [Next]_vars, ~HandleCall
  PROVE  \/ called' = <<>>
         \/ called' = called /\ (asked' <=> asked) /\ request' = request
  BY DEF Next, Step, Run, GiveUp, Decline, Reason, Grounded, Retry, Escalate, Fail,
         ShouldContinue, Extract, vars, conversation

\* Whatever the model asks for over all its batches, it never searches the web
\* more than three times, nor three times in a row, nor the knowledge base
\* four times in a row.
THEOREM SearchesAreBounded == Spec => []SearchesBounded
<1> USE AgentAssumption
<1>1. ASSUME called = <<>> PROVE SearchesBounded
  <2>1. {i \in DOMAIN called : called[i] = Web} = {}
    BY <1>1
  <2>2. Times(Web) = 0
    BY <2>1, FS_EmptySet DEF Times
  <2> QED BY <1>1, <2>2 DEF SearchesBounded
<1>2. Init => SearchesBounded
  BY <1>1 DEF Init
<1>3. TypeOK /\ SearchesBounded /\ [Next]_vars => SearchesBounded'
  <2> SUFFICES ASSUME TypeOK, SearchesBounded, [Next]_vars PROVE SearchesBounded'
    OBVIOUS
  <2>1. ASSUME NEW t \in Tools, Permitted(t), called' = Append(called, t)
        PROVE  SearchesBounded'
    <3> DEFINE n == Len(called)
    <3>1. called \in Seq(Tools) /\ n \in Nat /\ Len(called') = n + 1
          /\ called'[n + 1] = t /\ \A i \in 1..n : called'[i] = called[i]
      BY <2>1 DEF TypeOK
    <3>2. Times(Web)' <= 3
      <4>1. /\ Times(Web)' \in Nat /\ Times(Web) \in Nat
            /\ t = Web => Times(Web)' = Times(Web) + 1
            /\ t # Web => Times(Web)' = Times(Web)
        BY <2>1, <3>1, TimesAppend
      <4>2. t = Web => Times(Web) < 3
        BY <2>1 DEF Permitted, Web, Kb
      <4>3. Times(Web) <= 3
        BY DEF SearchesBounded
      <4> QED BY <4>1, <4>2, <4>3
    <3>3. ASSUME NEW i \in 1..(n - 1) PROVE \E j \in i..(i + 2) : called'[j] # Web
      <4>1. CASE i = n - 1
        <5>1. CASE t # Web
          BY <3>1, <4>1, <5>1
        <5>2. CASE t = Web
          <6>1. ~LastWere(2, Web)
            BY <2>1, <5>2 DEF Permitted, Web, Kb
          <6>2. PICK k \in (n - 1)..n : called[k] # Web
            BY <3>1, <3>3, <4>1, <6>1 DEF LastWere
          <6>3. called'[k] = called[k] /\ k \in i..(i + 2)
            BY <3>1, <3>3, <4>1, <6>2
          <6> QED BY <6>2, <6>3
        <5> QED BY <5>1, <5>2
      <4>2. CASE i # n - 1
        <5>1. i \in 1..(n - 2)
          BY <3>1, <3>3, <4>2
        <5>2. PICK k \in i..(i + 2) : called[k] # Web
          BY <5>1 DEF SearchesBounded
        <5>3. called'[k] = called[k]
          BY <3>1, <5>1, <5>2
        <5> QED BY <5>2, <5>3
      <4> QED BY <4>1, <4>2
    <3>4. ASSUME NEW i \in 1..(n - 2) PROVE \E j \in i..(i + 3) : called'[j] # Kb
      <4>1. CASE i = n - 2
        <5>1. CASE t # Kb
          BY <3>1, <4>1, <5>1
        <5>2. CASE t = Kb
          <6>1. ~LastWere(3, Kb)
            BY <2>1, <5>2 DEF Permitted, Web, Kb
          <6>2. PICK k \in (n - 2)..n : called[k] # Kb
            BY <3>1, <3>4, <4>1, <6>1 DEF LastWere
          <6>3. called'[k] = called[k] /\ k \in i..(i + 3)
            BY <3>1, <3>4, <4>1, <6>2
          <6> QED BY <6>2, <6>3
        <5> QED BY <5>1, <5>2
      <4>2. CASE i # n - 2
        <5>1. i \in 1..(n - 3)
          BY <3>1, <3>4, <4>2
        <5>2. PICK k \in i..(i + 3) : called[k] # Kb
          BY <5>1 DEF SearchesBounded
        <5>3. called'[k] = called[k]
          BY <3>1, <5>1, <5>2
        <5> QED BY <5>2, <5>3
      <4> QED BY <4>1, <4>2
    <3>5. (n + 1) - 2 = n - 1 /\ (n + 1) - 3 = n - 2
      BY <3>1
    <3> QED BY <3>1, <3>2, <3>3, <3>4, <3>5 DEF SearchesBounded
  <2>2. CASE HandleCall
    BY <2>1, <2>2, CalledStep DEF SearchesBounded, Times
  <2>3. CASE ~HandleCall
    <3>1. CASE called' = <<>>
      <4>1. {i \in DOMAIN called' : called'[i] = Web} = {}
        BY <3>1
      <4>2. Times(Web)' = 0
        BY <4>1, FS_EmptySet DEF Times
      <4> QED BY <3>1, <4>2 DEF SearchesBounded
    <3>2. CASE called' = called
      BY <3>2 DEF SearchesBounded, Times
    <3> QED BY <2>3, <3>1, <3>2, CalledKept
  <2> QED BY <2>2, <2>3
<1> QED BY <1>2, <1>3, TypeCorrect, PTL DEF Spec

\* No destructive tool runs in a request in which nobody asked for a
\* confirmation or the user's last text is none.
THEOREM OnlyConfirmedActions == Spec => []ActionsConfirmed
<1> USE AgentAssumption
<1>1. Init => ActionsConfirmed
  <2> SUFFICES ASSUME Init PROVE ActionsConfirmed
    OBVIOUS
  <2>1. DOMAIN called = {}
    BY DEF Init
  <2> QED BY <2>1 DEF ActionsConfirmed
<1>2. TypeOK /\ ActionsConfirmed /\ [Next]_vars => ActionsConfirmed'
  <2> SUFFICES ASSUME TypeOK, ActionsConfirmed, [Next]_vars PROVE ActionsConfirmed'
    OBVIOUS
  <2>1. CASE HandleCall
    <3>1. (asked => asked') /\ request' = request
      BY <2>1 DEF HandleCall, TypeOK
    <3>2. CASE called' = called
      BY <3>1, <3>2 DEF ActionsConfirmed
    <3>3. ASSUME NEW t \in Tools, Permitted(t), called' = Append(called, t)
          PROVE  ActionsConfirmed'
      <4>1. called \in Seq(Tools)
        BY DEF TypeOK
      <4>2. t \in Destructive => asked /\ request.yes
        BY <3>3 DEF Permitted
      <4>3. \A i \in DOMAIN called' : called'[i] = t \/ (i \in DOMAIN called /\ called'[i] = called[i])
        BY <3>3, <4>1
      <4> QED BY <3>1, <4>2, <4>3 DEF ActionsConfirmed
    <3> QED BY <2>1, <3>2, <3>3, CalledStep
  <2>2. CASE ~HandleCall
    BY <2>2, CalledKept DEF ActionsConfirmed
  <2> QED BY <2>1, <2>2
<1> QED BY <1>1, <1>2, TypeCorrect, PTL DEF Spec

-----------------------------------------------------------------------------
(* The way of a request through the graph.                                 *)

\* Calls are only left over on the way to the tools, and there the iteration
\* limit is not reached.  While the request goes on its budget is not used up.
\* A final response that the model wrote has been vetted, and it is the last
\* thing the graph does; without one, the newest message has tool calls, which
\* only the budget stops, or no text.
RouteInv ==
  /\ pc = "reason" => calls = <<>>
  /\ pc = "ground" => iter < MaxIter
  /\ pc = "route" /\ calls # <<>> => iter < MaxIter

BudgetInv ==
  /\ pc \in {"reason", "tools"} => tokens <= Budget
  /\ tokens <= Budget => late = 0
  /\ late <= retries

FinalInv ==
  /\ final \in Texts \ {"none"} =>
       /\ pc \in {"route", "extract", "done"} /\ calls = <<>>
       /\ final # "toxic" /\ (request.chatbot => status = "pass")
  /\ pc = "route" /\ final = "none" => calls # <<>> \/ text = "none"
  /\ pc \in {"extract", "done"} /\ final = "none" => tokens > Budget \/ text = "none"
  /\ pc = "done" /\ final # "none" => answer = final

LoopInv == RouteInv /\ BudgetInv /\ FinalInv

\* A text of the semantic cache answers a chatbot, has words and asks for no tools;
\* one that a comparison has rejected becomes the final response only where there is
\* nothing to compare it with.
SourceInv ==
  /\ source \in Keys => request.chatbot /\ calls = <<>> /\ text # "none"
  /\ pc \in {"route", "extract", "done"} /\ final \in Texts /\ source \in rejected => ~docs

\* A request is where its calls, its budget and its final response say.
LEMMA LoopHolds == Spec => []LoopInv
<1> USE AgentAssumption
<1>1. Init => LoopInv
  BY DEF Init, LoopInv, RouteInv, BudgetInv, FinalInv
<1>2. TypeOK /\ LoopInv /\ [Next]_vars => LoopInv'
  <2> SUFFICES ASSUME TypeOK, LoopInv, [Next]_vars PROVE LoopInv'
    OBVIOUS
  <2> USE DEF LoopInv, conversation, message, cache
  <2>1. CASE Run
    BY <2>1 DEF Run, RouteInv, BudgetInv, FinalInv
  <2>2. CASE GiveUp
    BY <2>2 DEF GiveUp, RouteInv, BudgetInv, FinalInv, Texts
  <2>3. CASE Decline
    BY <2>3 DEF Decline, RouteInv, BudgetInv, FinalInv, Texts
  <2>4. CASE Reason
    <3>1. /\ tokens' \in 0..(Budget + 1) /\ late' = late /\ late = 0 /\ text' \in Texts
      <4>1. rejected \in SUBSET Keys /\ Complete(Question, rejected)
        BY <2>4 DEF Reason, TypeOK
      <4>2. tokens <= Budget
        BY <2>4 DEF Reason, BudgetInv
      <4> QED BY <4>1, <4>2, Completed DEF BudgetInv
    <3>2. pc' \in {"route", "ground"} /\ iter' < MaxIter /\ retries' = 0
      BY <2>4 DEF Reason
    <3>3. RouteInv' /\ BudgetInv'
      BY <3>1, <3>2 DEF RouteInv, BudgetInv
    <3>4. FinalInv'
      <4>1. final = "none" \/ final \notin Texts
        BY <2>4 DEF Reason, FinalInv, TypeOK
      <4>2. CASE pc' = "ground" \/ calls' # <<>>
        BY <2>4, <3>2, <4>1, <4>2 DEF Reason, FinalInv, Texts
      <4>3. CASE pc' = "route" /\ calls' = <<>>
        <5>1. final' = Moderated(text') /\ ~request.chatbot /\ request' = request
          BY <2>4, <4>3 DEF Reason
        <5> QED BY <3>1, <4>3, <5>1 DEF FinalInv, Moderated, Texts
      <4> QED BY <3>2, <4>2, <4>3
    <3> QED BY <3>3, <3>4
  <2>5. CASE Grounded
    <3>1. pc = "ground" /\ calls = <<>>
      BY <2>5 DEF Grounded, Ground
    <3> QED BY <2>5, <3>1 DEF Grounded, RouteInv, BudgetInv, FinalInv, Moderated, Texts, TypeOK
  <2>6. CASE Retry
    <3>1. pc = "ground" /\ pc' = "ground" /\ iter' = iter /\ final' = final
          /\ retries' = retries + 1 /\ retries \in Nat /\ late \in Nat
      BY <2>6 DEF Retry, Ground, TypeOK
    <3>2. /\ late' \in Nat /\ tokens' \in 0..(Budget + 1) /\ (tokens > Budget => tokens' > Budget)
          /\ (tokens <= Budget => late' = late) /\ late' <= late + 1
      <4>1. Refused \in SUBSET Keys /\ Complete("warning", Refused)
        BY <2>6 DEF Retry, Refused, TypeOK
      <4> QED BY <4>1, Completed
    <3>3. tokens \in 0..(Budget + 1)
      BY DEF TypeOK
    <3>4. BudgetInv'
      BY <3>1, <3>2, <3>3 DEF BudgetInv
    <3> QED BY <3>1, <3>4 DEF RouteInv, FinalInv
  <2>7. CASE Escalate
    <3>1. pc = "ground"
      BY <2>7 DEF Escalate, GivesUp, Ground
    <3> QED BY <2>7, <3>1 DEF Escalate, RouteInv, BudgetInv, FinalInv, Moderated, Texts
  <2>8. CASE Fail
    <3>1. pc \in {"reason", "ground", "tools"}
      BY <2>8 DEF Fail, Ground
    <3> QED BY <2>8, <3>1 DEF Fail, RouteInv, BudgetInv, FinalInv
  <2>9. CASE ShouldContinue
    <3>1. tokens \in Nat
      BY DEF TypeOK
    <3> QED BY <2>9, <3>1 DEF ShouldContinue, RouteInv, BudgetInv, FinalInv
  <2>10. CASE HandleCall
    <3>1. pc = "tools" /\ pc' \in {"tools", "reason"} /\ (pc' = "reason" => calls' = <<>>)
          /\ final \in Texts => final = "none"
      BY <2>10 DEF HandleCall, FinalInv
    <3> QED BY <2>10, <3>1 DEF HandleCall, RouteInv, BudgetInv, FinalInv
  <2>11. CASE Extract
    BY <2>11 DEF Extract, RouteInv, BudgetInv, FinalInv
  <2>12. CASE UNCHANGED vars
    BY <2>12 DEF vars, RouteInv, BudgetInv, FinalInv
  <2> QED
    BY <2>1, <2>2, <2>3, <2>4, <2>5, <2>6, <2>7, <2>8, <2>9, <2>10, <2>11, <2>12
    DEF Next, Step
<1> QED BY <1>1, <1>2, TypeCorrect, PTL DEF Spec

\* No tool runs on an exceeded budget, and the model is asked no more than
\* MaxRetries times then.
THEOREM BudgetIsKept == Spec => []BudgetStops
<1>1. TypeOK /\ LoopInv => BudgetStops
  BY AgentAssumption DEF TypeOK, LoopInv, BudgetInv, BudgetStops
<1> QED BY <1>1, TypeCorrect, LoopHolds, PTL

\* Where the newest text comes from after a completion.
LEMMA Sourced ==
  ASSUME NEW key, NEW refused, Complete(key, refused)
  PROVE  source' \in Keys => request.chatbot /\ calls' = <<>> /\ text' # "none"
<1>1. CASE Hit(key, refused)
  BY <1>1 DEF Hit
<1>2. CASE Generate(key, refused)
  BY <1>2 DEF Generate, Keys
<1> QED BY <1>1, <1>2 DEF Complete

\* What the cache answers is compared wherever it can be.
LEMMA SourceHolds == Spec => []SourceInv
<1>1. Init => SourceInv
  BY DEF Init, SourceInv, Keys
<1>2. TypeOK /\ LoopInv /\ SourceInv /\ [Next]_vars => SourceInv'
  <2> SUFFICES ASSUME TypeOK, LoopInv, SourceInv, [Next]_vars PROVE SourceInv'
    OBVIOUS
  <2> USE DEF SourceInv, conversation, message, cache
  <2>k. rejected \subseteq Keys /\ "model" \notin Keys
    BY DEF TypeOK, Keys
  <2>1. CASE Run
    BY <2>1, <2>k DEF Run
  <2>2. CASE GiveUp \/ Decline
    BY <2>2 DEF GiveUp, Decline, Texts
  <2>3. CASE Reason
    <3>1. rejected \in SUBSET Keys /\ Complete(Question, rejected)
      BY <2>3, <2>k DEF Reason
    <3>2. /\ rejected' \subseteq Keys
          /\ source' \in Keys => request.chatbot /\ calls' = <<>> /\ text' # "none"
      BY <3>1, Completed, Sourced
    <3>3. pc' = "route" => calls' # <<>> \/ ~request.chatbot
      BY <2>3 DEF Reason
    <3> QED BY <2>3, <3>2, <3>3 DEF Reason
  <2>4. CASE Grounded
    <3>1. text = "none" \/ ~docs \/ source \notin rejected
      BY <2>4 DEF Grounded, Ground, Verdicts
    <3> QED BY <2>4, <2>k, <3>1 DEF Grounded
  <2>5. CASE Retry
    <3>1. Complete("warning", Refused)
      BY <2>5 DEF Retry
    <3>2. pc' = "ground" /\ request' = request
      BY <2>5 DEF Retry, Ground
    <3> QED BY <3>1, <3>2, Sourced
  <2>6. CASE Escalate
    <3>1. rejected' \subseteq Keys /\ source' = "model"
      BY <2>6, <2>k DEF Escalate, Refused
    <3> QED BY <2>k, <3>1
  <2>7. CASE ShouldContinue
    BY <2>7 DEF ShouldContinue
  <2>8. CASE HandleCall
    <3>1. source \notin Keys /\ source' = source /\ pc' \in {"tools", "reason"}
      BY <2>8 DEF HandleCall, TypeOK
    <3> QED BY <3>1
  <2>9. CASE Fail
    BY <2>9 DEF Fail
  <2>10. CASE Extract
    BY <2>10 DEF Extract
  <2>11. CASE UNCHANGED vars
    BY <2>11 DEF vars
  <2> QED
    BY <2>1, <2>2, <2>3, <2>4, <2>5, <2>6, <2>7, <2>8, <2>9, <2>10, <2>11 DEF Next, Step
<1> QED BY <1>1, <1>2, TypeCorrect, LoopHolds, PTL DEF Spec

\* What a request returns was vetted, unless the graph left no final response; a text
\* that was rejected before it returns only where there are no documents.
THEOREM AnswersAreVetted == Spec => []AnswersVetted
<1>1. TypeOK /\ LoopInv => AnswerModerated
  BY DEF TypeOK, LoopInv, FinalInv, AnswerModerated, Texts, Canned
<1>2. SourceInv => RejectedOnlyUncompared
  BY DEF SourceInv, RejectedOnlyUncompared
<1>3. AnswerModerated /\ RejectedOnlyUncompared => AnswersVetted
  BY DEF AnswersVetted
<1> QED BY <1>1, <1>2, <1>3, TypeCorrect, LoopHolds, SourceHolds, PTL

-----------------------------------------------------------------------------
(* The end of a request.                                                   *)

\* The points of a batch, from the first to the last.
LEMMA Ranks ==
  /\ Rank["reason"] = 5 /\ Rank["ground"] = 4 /\ Rank["route"] = 3 /\ Rank["tools"] = 2
  /\ Rank["extract"] = 1 /\ Rank["done"] = 0 /\ Rank["failed"] = 0
BY DEF Rank, Busy

\* Every step of a request brings it nearer to its end.
THEOREM RequestsAdvance == Spec => StepsAdvance
<1>1. TypeOK /\ [Next]_vars => [(pc \in Busy) => Advances]_vars
  <2> SUFFICES ASSUME TypeOK, Next, pc \in Busy PROVE Advances
    OBVIOUS
  <2>n. iter \in Nat
    BY AgentAssumption DEF TypeOK
  <2> USE Ranks, <2>n DEF Advances
  <2>1. CASE Run
    BY <2>1 DEF Run, Busy
  <2>2. CASE GiveUp \/ Decline
    BY <2>2 DEF GiveUp, Decline
  <2>3. CASE Reason
    BY <2>3 DEF Reason
  <2>4. CASE Grounded
    BY <2>4 DEF Grounded, Ground
  <2>5. CASE Retry
    BY <2>5 DEF Retry, Ground
  <2>6. CASE Escalate
    BY <2>6 DEF Escalate, GivesUp, Ground
  <2>7. CASE ShouldContinue
    BY <2>7 DEF ShouldContinue
  <2>8. CASE HandleCall
    <3>1. pc = "tools" /\ calls \in Seq(Tools) /\ calls # <<>>
      BY <2>8 DEF HandleCall, TypeOK
    <3>2. Len(Tail(calls)) < Len(calls)
      BY <3>1
    <3> QED BY <2>8, <3>1, <3>2 DEF HandleCall
  <2>9. CASE Fail
    <3>1. pc \in {"reason", "ground", "tools"} /\ pc' = "failed" /\ iter' = iter
      BY <2>9 DEF Fail, Ground
    <3> QED BY <3>1
  <2>10. CASE Extract
    BY <2>10 DEF Extract
  <2> QED BY <2>1, <2>2, <2>3, <2>4, <2>5, <2>6, <2>7, <2>8, <2>9, <2>10 DEF Next, Step
<1> QED BY <1>1, TypeCorrect, PTL DEF Spec, StepsAdvance

-----------------------------------------------------------------------------
(* The bounded run.                                                        *)

\* The run's bounds on requests and batches only leave behaviours out.
LEMMA BoundsOnlyRestrict == LoopSpec => Spec
<1>1. LoopInit => Init
  BY DEF LoopInit
<1>2. [LoopNext]_<<vars, long>> => [Next]_vars
  BY DEF LoopNext
<1> QED BY <1>1, <1>2, PTL DEF LoopSpec, Spec

\* So what the run checks holds of its specification for every value of the
\* constants: searches, confirmations, the budget, what is returned, and that
\* every step brings a request nearer to its end.
THEOREM RequestsBehave ==
  LoopSpec => /\ [](SearchesBounded /\ ActionsConfirmed /\ BudgetStops /\ AnswersVetted)
              /\ StepsAdvance
BY BoundsOnlyRestrict, SearchesAreBounded, OnlyConfirmedActions, BudgetIsKept,
   AnswersAreVetted, RequestsAdvance, PTL
=============================================================================
