------------------------------ MODULE AgentLoop ------------------------------
(***************************************************************************)
(* ai-core's agent: for one request a graph alternates between a node that *)
(* asks the language model ("reason") and a node that runs the tools the   *)
(* model asked for ("execute_tools").  An answer of a chatbot is compared  *)
(* with the documents at hand and asked for again at most MaxRetries       *)
(* times; every answer is moderated.  Requests of a tenant share a         *)
(* semantic cache, which the gateway asks before the model and fills with  *)
(* what the model said.                                                    *)
(*                                                                         *)
(* Messages are abstracted to what the code looks for in them: the text of *)
(* an assistant message is empty, harmless, one that moderation rejects,   *)
(* or one with the words that ask the user for a confirmation.  What the   *)
(* model answers, what a comparison with documents yields and what a tool  *)
(* is refused for (use case, permissions, the tenant's hourly limit) is    *)
(* arbitrary.                                                              *)
(***************************************************************************)
EXTENDS Naturals, Sequences, FiniteSets

CONSTANTS
  Destructive,  \* tools that need a confirmation: create_schedule and others
  Plain,        \* tools that nothing is counted for
  MaxBatch,     \* bound: tool calls in one reply of the model
  MaxIter,      \* batches of tools per request: 5
  MaxRetries,   \* further attempts at a grounded answer: 2
  Budget,       \* tokens per request: 10000
  Costs,        \* tokens one call of the model may take
  MaxRequests   \* bound: requests

Web == "web_search"
Kb == "knowledge_base_search"
Tools == {Web, Kb} \cup Destructive \cup Plain

ASSUME AgentAssumption ==
  /\ MaxIter \in Nat /\ MaxRetries \in Nat /\ Budget \in Nat
  /\ Costs \subseteq Nat /\ MaxBatch \in Nat /\ MaxRequests \in Nat
  /\ {Web, Kb} \cap (Destructive \cup Plain) = {}
  /\ Destructive \cap Plain = {}

Texts == {"none", "plain", "toxic", "asking"}
Keys == {"question", "warning"}
Canned == {"escalation", "refusal", "limit", "topic"}

VARIABLES
  pc,        \* "idle", "reason", "ground", "route", "tools", "extract", "done", "failed"
  request,   \* what is fixed: a chatbot? off topic? is the user's last text a yes?
  asked,     \* an assistant message before the last one asked for a confirmation
  docs,      \* the messages hold documents or results of tools
  text,      \* content of the newest assistant message
  source,    \* where it came from: "model", or a key of the semantic cache
  spoken,    \* content of the last assistant message before it that has one
  calls,     \* tool calls of the last message that are still to be handled
  called,    \* tools_called
  iter,      \* iteration_count
  tokens,    \* total_tokens_used, as far as it is compared: at most Budget + 1
  retries,   \* nli_retry_count
  status,    \* nli_status
  final,     \* final_response of the graph's state
  answer,    \* final_response of the result
  cached,    \* the semantic cache: what it answers under each key, "none" nothing
  rejected,  \* keys whose cached text failed the comparison with documents
  late,      \* history: calls of the model after the budget was exceeded
  served     \* requests begun

conversation == <<request, asked, docs>>
message == <<text, source, spoken>>
cache == <<cached, rejected>>
vars == <<pc, conversation, message, calls, called, iter, tokens, retries, status,
          final, answer, cache, late, served>>

Requests == [chatbot : BOOLEAN, offTopic : BOOLEAN, yes : BOOLEAN]

Init ==
  /\ pc = "idle" /\ request \in Requests /\ asked = FALSE /\ docs = FALSE
  /\ text = "none" /\ source = "model" /\ spoken = "none" /\ calls = <<>> /\ called = <<>>
  /\ iter = 0 /\ tokens = 0 /\ retries = 0 /\ status = "skip"
  /\ final = "none" /\ answer = "none" /\ late = 0 /\ served = 0
  /\ cached = [k \in Keys |-> "none"] /\ rejected = {}

\* run() with messages that end with the user's.  They may hold documents of
\* the caller's own retrieval, and the assistant may have asked in them.
Run ==
  /\ pc \in {"idle", "done", "failed"} /\ served < MaxRequests
  /\ served' = served + 1 /\ pc' = "reason"
  /\ request' \in Requests /\ asked' \in BOOLEAN /\ docs' \in BOOLEAN
  /\ text' = "none" /\ source' = "model" /\ spoken' = IF asked' THEN "asking" ELSE "none"
  /\ calls' = <<>> /\ called' = <<>> /\ iter' = 0 /\ tokens' = 0 /\ retries' = 0
  /\ status' = "skip" /\ final' = "none" /\ answer' = "none" /\ late' = 0
  /\ UNCHANGED cache

Batches == UNION {[1..n -> Tools] : n \in 0..MaxBatch}

MutSpend(c) == tokens + c
\* Adding to total_tokens_used, which is only ever compared with the budget.
Spend(c) == IF tokens + c > Budget THEN Budget + 1 ELSE tokens + c

\* A text that fails the comparison with the documents stays in the cache.
Refused == rejected \cup ({source} \cap Keys)

\* gateway.complete with a conversation that ends with the user's text of
\* `key`, or with a tool's result when key is "none": the cache may answer, or
\* the model does, and then its text is cached unless it calls tools.  A lookup
\* and a write of the cache may fail; when the write lands does not matter here.
Hit(key, refused) ==
  /\ request.chatbot /\ key \in Keys /\ cached[key] # "none"
  /\ text' = cached[key] /\ source' = key /\ calls' = <<>> /\ rejected' = refused
  /\ UNCHANGED <<tokens, late, cached>>

Generate(key, refused) ==
  \E t \in Texts, b \in Batches, c \in Costs, stored \in BOOLEAN :
    /\ stored => request.chatbot /\ key \in Keys /\ b = <<>> /\ t # "none"
    /\ text' = t /\ calls' = b
    /\ source' = IF stored THEN key ELSE "model"
    /\ cached' = IF stored THEN [cached EXCEPT ![key] = t] ELSE cached
    /\ rejected' = IF stored THEN refused \ {key} ELSE refused
    /\ tokens' = Spend(c)
    /\ late' = IF tokens > Budget THEN late + 1 ELSE late

Complete(key, refused) == Hit(key, refused) \/ Generate(key, refused)

MutModerated(t) == t
\* process_output: what moderation rejects is replaced.
Moderated(t) == IF t = "toxic" THEN "refusal" ELSE t

\* The reason node: five batches of tools are enough.
GiveUp ==
  /\ pc = "reason" /\ iter >= MaxIter
  /\ final' = "limit" /\ pc' = "route"
  /\ UNCHANGED <<conversation, message, calls, called, iter, tokens, retries, status,
                 answer, cache, late, served>>

\* The reason node: a blocked topic.
Decline ==
  /\ pc = "reason" /\ iter < MaxIter /\ request.offTopic
  /\ final' = "topic" /\ pc' = "route"
  /\ UNCHANGED <<conversation, message, calls, called, iter, tokens, retries, status,
                 answer, cache, late, served>>

Question == IF iter = 0 THEN "question" ELSE "none"

Reason ==
  /\ pc = "reason" /\ iter < MaxIter /\ ~request.offTopic
  /\ Complete(Question, rejected)
  /\ spoken' = IF text = "none" THEN spoken ELSE text
  /\ retries' = 0
  /\ \/ calls' # <<>> /\ pc' = "route" /\ UNCHANGED final
     \/ calls' = <<>> /\ request.chatbot /\ pc' = "ground" /\ UNCHANGED final
     \/ calls' = <<>> /\ ~request.chatbot /\ pc' = "route" /\ final' = Moderated(text')
  /\ UNCHANGED <<conversation, called, iter, status, answer, served>>

\* validate_nli_grounding: an empty text, or no documents, scores 1.0.  A cached
\* text that failed once fails again: the documents are taken to be the same.
Verdicts ==
  IF text = "none" \/ ~docs THEN {"pass"}
  ELSE IF source \in rejected THEN {"fail"} ELSE {"pass", "fail"}

Ground(verdict) == pc = "ground" /\ calls = <<>> /\ verdict \in Verdicts

Grounded ==
  /\ Ground("pass")
  /\ status' = "pass" /\ final' = Moderated(text) /\ pc' = "route"
  /\ UNCHANGED <<conversation, message, calls, called, iter, tokens, retries, answer,
                 cache, late, served>>

\* Another attempt, in the same assistant message.  The text beside a request
\* for tools is overwritten by Escalate, so it need not be told apart.
Retry ==
  /\ Ground("fail") /\ retries < MaxRetries
  /\ retries' = retries + 1 /\ status' = "fail"
  /\ Complete("warning", Refused) /\ (calls' # <<>> => text' = "none")
  /\ UNCHANGED <<pc, conversation, spoken, called, iter, final, answer, served>>

MutGivesUp == Ground("fail") /\ retries = MaxRetries

\* No attempt is left, or the last one asked for tools: they stay in the message.
GivesUp == (pc = "ground" /\ calls # <<>>) \/ (Ground("fail") /\ retries = MaxRetries)

Escalate ==
  /\ GivesUp
  /\ text' = "escalation" /\ source' = "model"
  /\ rejected' = IF calls = <<>> THEN Refused ELSE rejected
  /\ status' = "fail" /\ final' = Moderated("escalation") /\ pc' = "route"
  /\ UNCHANGED <<conversation, spoken, calls, called, iter, tokens, retries, answer,
                 cached, late, served>>

MutNoBudget ==
  /\ pc = "route"
  /\ pc' = IF calls # <<>> /\ iter < MaxIter THEN "tools" ELSE "extract"
  /\ UNCHANGED <<conversation, message, calls, called, iter, tokens, retries, status,
                 final, answer, cache, late, served>>

\* _should_continue_edge
ShouldContinue ==
  /\ pc = "route"
  /\ pc' = IF tokens <= Budget /\ calls # <<>> /\ iter < MaxIter THEN "tools" ELSE "extract"
  /\ UNCHANGED <<conversation, message, calls, called, iter, tokens, retries, status,
                 final, answer, cache, late, served>>

MutLastWere(n, t) ==
  Len(called) > n /\ \A i \in (Len(called) - n + 1)..Len(called) : called[i] = t

\* The last n tools that ran were all t.
LastWere(n, t) ==
  Len(called) >= n /\ \A i \in (Len(called) - n + 1)..Len(called) : called[i] = t

Times(t) == Cardinality({i \in DOMAIN called : called[i] = t})

MutPermitted(t) ==
  \/ t = Web /\ Times(Web) < 3 /\ ~LastWere(2, Web)
  \/ t = Kb /\ ~LastWere(3, Kb)
  \/ t \in Destructive /\ (asked \/ request.yes)
  \/ t \in Plain

\* The checks of execute_tools that look at the conversation.
Permitted(t) ==
  \/ t = Web /\ Times(Web) < 3 /\ ~LastWere(2, Web)
  \/ t = Kb /\ ~LastWere(3, Kb)
  \/ t \in Destructive /\ asked /\ request.yes
  \/ t \in Plain

\* execute_tools handles one call; after the last one the assistant message is
\* no longer the newest.  A tool that fails or takes too long counts as called.
HandleCall ==
  /\ pc = "tools"
  /\ LET t == Head(calls) IN
     \E refused \in BOOLEAN :
       called' = IF Permitted(t) /\ ~refused THEN Append(called, t) ELSE called
  /\ calls' = Tail(calls)
  /\ IF Tail(calls) = <<>>
     THEN /\ iter' = iter + 1 /\ pc' = "reason" /\ docs' = TRUE
          /\ asked' = (asked \/ text = "asking")
     ELSE UNCHANGED <<iter, pc, docs, asked>>
  /\ UNCHANGED <<request, message, tokens, retries, status, final, answer, cache,
                 late, served>>

\* An exception ends the request: both providers fail while the model is asked,
\* or the arguments of a permitted tool are no object.
Fail ==
  /\ \/ pc = "reason" /\ iter < MaxIter /\ ~request.offTopic /\ rejected' = rejected
     \/ Ground("fail") /\ retries < MaxRetries /\ rejected' = Refused
     \/ pc = "tools" /\ Permitted(Head(calls)) /\ rejected' = rejected
  /\ pc' = "failed"
  /\ UNCHANGED <<conversation, message, calls, called, iter, tokens, retries, status,
                 final, answer, cached, late, served>>

\* The end of run(): without a final response, the last assistant text there is.
Extract ==
  /\ pc = "extract" /\ pc' = "done"
  /\ answer' = IF final # "none" THEN final ELSE IF text # "none" THEN text ELSE spoken
  /\ UNCHANGED <<conversation, message, calls, called, iter, tokens, retries, status,
                 final, cache, late, served>>

Step == GiveUp \/ Decline \/ Reason \/ Grounded \/ Retry \/ Escalate
          \/ ShouldContinue \/ HandleCall \/ Fail \/ Extract

Next == Run \/ Step

Spec == Init /\ [][Next]_vars

\* Every call of a model or a tool has a time-out: a request takes its next step.
FairSpec == Spec /\ WF_vars(Step)

-----------------------------------------------------------------------------
TypeOK ==
  /\ pc \in {"idle", "reason", "ground", "route", "tools", "extract", "done", "failed"}
  /\ request \in Requests /\ asked \in BOOLEAN /\ docs \in BOOLEAN
  /\ text \in Texts \cup {"escalation"} /\ source \in Keys \cup {"model"}
  /\ spoken \in Texts \cup {"escalation"}
  /\ calls \in Seq(Tools) /\ called \in Seq(Tools) /\ (pc = "tools" => calls # <<>> /\ iter < MaxIter)
  /\ iter \in 0..MaxIter /\ tokens \in 0..(Budget + 1) /\ retries \in 0..MaxRetries
  /\ status \in {"skip", "pass", "fail"}
  /\ final \in Texts \cup Canned /\ answer \in Texts \cup Canned
  /\ cached \in [Keys -> Texts] /\ rejected \subseteq Keys
  /\ late \in Nat /\ served \in 0..MaxRequests

\* Over all batches of a request, refused calls in between or not: the web is
\* searched at most three times and never three times in a row, and the
\* knowledge base never four times in a row.
SearchesBounded ==
  /\ Times(Web) <= 3
  /\ \A i \in 1..(Len(called) - 2) : \E j \in i..(i + 2) : called[j] # Web
  /\ \A i \in 1..(Len(called) - 3) : \E j \in i..(i + 3) : called[j] # Kb

\* Nothing destructive has run in a request unless some assistant message had
\* asked for a confirmation and the user's last text is one.
ActionsConfirmed ==
  (\E i \in DOMAIN called : called[i] \in Destructive) => asked /\ request.yes

\* Once a request has used more tokens than its budget, no tool runs, and the
\* model is asked at most for the repetitions of the answer in hand.
BudgetStops ==
  /\ pc \in {"reason", "tools"} => tokens <= Budget
  /\ late <= MaxRetries

\* What a request returns was moderated, and for a chatbot it passed the
\* comparison or is a fixed text, unless the graph ended with no final
\* response: the budget cut it off, or the model's last text was empty.
AnswerModerated ==
  pc = "done" =>
    \/ answer # "toxic" /\ (request.chatbot /\ answer \in Texts => status = "pass")
    \/ final = "none" /\ (tokens > Budget \/ text = "none")

\* How far the refuted RejectedNeverServed goes wrong: a cached text that failed a
\* comparison is returned again only by a request that has no documents to compare
\* it with, whichever requests filled the cache under either key.
RejectedOnlyUncompared ==
  pc = "done" /\ final \in Texts /\ source \in rejected => ~docs

\* Both.
AnswersVetted == AnswerModerated /\ RejectedOnlyUncompared

Busy == {"reason", "ground", "route", "tools", "extract"}

\* Within one batch of tools a request passes these points in this order, and may
\* stay where it repeats an answer or handles one tool call after the other.
Rank == [p \in Busy \union {"done", "failed"} |->
           CASE p = "reason" -> 5 [] p = "ground" -> 4 [] p = "route" -> 3
             [] p = "tools" -> 2  [] p = "extract" -> 1 [] OTHER -> 0]

Advances ==
  \/ iter' = iter + 1
  \/ iter' = iter /\ Rank[pc'] < Rank[pc]
  \/ iter' = iter /\ pc' = pc /\ pc = "ground" /\ retries' = retries + 1
  \/ iter' = iter /\ pc' = pc /\ pc = "tools" /\ Len(calls') < Len(calls)

\* No step of a request runs in a circle: batches, points, repetitions and calls,
\* which TypeOK bounds, only count one way.  So a request has finitely many steps.
StepsAdvance == [][(pc \in Busy) => Advances]_vars

\* Every request is answered or fails, and each of its steps brings it nearer.
Returns == StepsAdvance /\ (pc = "reason" ~> pc \in {"done", "failed"})

\* (Refuted.)  requirements.md, Requirement 10: an answer that is not grounded
\* is blocked.  So no request returns a text that an earlier one rejected.
RejectedNeverServed ==
  pc = "done" /\ final \in Texts /\ source \in Keys => source \notin rejected
=============================================================================
