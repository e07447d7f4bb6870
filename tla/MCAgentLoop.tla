---------------------------- MODULE MCAgentLoop ----------------------------
(* Small instances of AgentLoop for TLC.                                    *)
EXTENDS AgentLoopLedger, TLC

OneEach  == [a \in Agents |-> a]                            \* no shared lease
OneForAll == [a \in Agents |-> CHOOSE k \in Coordinators : TRUE]
AgentSymmetry == Permutations(Agents)
=============================================================================
