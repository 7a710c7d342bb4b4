----------------------------- MODULE MCAgentLoop -----------------------------
(* Instances of AgentLoop for TLC.  A request leaves nothing to the next   *)
(* one but the semantic cache, which only chatbots use.  So a run follows  *)
(* either one request with batches of up to MaxBatch calls, or MaxRequests *)
(* of chatbots with batches of one: long, chosen in the initial state,     *)
(* says which.                                                             *)
EXTENDS AgentLoop

VARIABLE long

LoopInit == Init /\ long \in BOOLEAN

LoopNext ==
  /\ Next /\ UNCHANGED long
  /\ IF long THEN served' <= 1 ELSE request'.chatbot /\ Len(calls') <= 1

\* The model may always reply without a tool call, so the bound blocks no Step.
LoopSpec == LoopInit /\ [][LoopNext]_<<vars, long>> /\ WF_vars(Step)
=============================================================================
