----------------------------- MODULE MCRuleSync -----------------------------
(* RuleSync for TLC: rule 1 is a tunnel rule over both nodes, rule 2 a plain *)
(* rule of node 1.                                                           *)
EXTENDS RuleSync, TLC

MCNodesOf == [r \in Rule |-> IF r = 1 THEN Node ELSE {1}]

HandlerSymmetry == Permutations(Handler)
=============================================================================
