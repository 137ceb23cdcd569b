------------------------------- MODULE MCAgents -------------------------------
(* Instances of the two programs that run on a user's or a supplier's computer:
   the coding agent, and the worker of the supplier agent.  They share no state:
   a behaviour is a behaviour of one of them, with the other at rest. *)
EXTENDS AgentRun, ArtifactWorker

CONSTANTS a, b, policy, code

VARIABLE focus   \* the program that runs

AgentsInit == focus \in {"coding", "worker"} /\ AgentInit /\ WorkerInit

AgentsNext ==
  \/ focus = "coding" /\ AgentNext /\ UNCHANGED <<focus, workerVars>>
  \/ focus = "worker" /\ WorkerNext /\ UNCHANGED <<focus, agentVars>>

AgentsSpec == AgentsInit /\ [][AgentsNext]_<<focus, agentVars, workerVars>>

(* One session may repair, the other shows the remaining flags. *)
ProposedBy == [s \in Sessions |-> IF s = a THEN {<<policy>>, <<policy, code>>} ELSE {<<code>>}]

Options ==
  [s \in Sessions |->
     IF s = a THEN {{"apply", "repair", "prompt"}, {"parallel"}}
     ELSE {{"apply", "dryRun", "allowSensitive"}}]
=============================================================================
