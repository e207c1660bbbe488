----------------------------- MODULE MCRuleHistory -----------------------------
(* The rule programs of MCBrainRuntime, for the model checking of          *)
(* RuleHistory.                                                            *)
EXTENDS MCBrainRuntime, RuleHistory
=============================================================================
