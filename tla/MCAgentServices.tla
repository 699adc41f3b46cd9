--------------------------- MODULE MCAgentServices ---------------------------
(***************************************************************************)
(* One agent call, and one worker task whose assessment may go through     *)
(* both models of a route; the task's tool has one fallback.               *)
(***************************************************************************)
EXTENDS AgentServices, TLC

CONSTANTS agentCall, riskCall, t1, primary, local, wa, wb

MCCalls == {agentCall, riskCall}
MCModelsOf == (agentCall :> <<primary>>) @@ (riskCall :> <<primary, local>>)
MCModels == {primary, local}
MCRouted == {riskCall}
MCSituations ==
  {[phase |-> "EVALUATE", statuses |-> {"COMPLETED", "FAILED"}],
   [phase |-> "APPROVAL", statuses |-> {"COMPLETED"}]}
MCTasks == {t1}
MCToolOf == t1 :> wa
MCRiskCallOf == t1 :> riskCall
MCWorkerTools == {wa, wb}
MCWorkerChain == (wa :> <<wb>>) @@ (wb :> <<>>)
=============================================================================
