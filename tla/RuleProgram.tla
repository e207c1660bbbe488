----------------------------- MODULE RuleProgram -----------------------------
(***************************************************************************)
(* The rules of a linked brain program: which rule is nested in which, the *)
(* root rules of each page, and what arms each rule's evaluation.  Rule    *)
(* identifiers are function ids, numbered in document order.               *)
(***************************************************************************)
EXTENDS Integers, Sequences, FiniteSets, SequencesExt

CONSTANTS
    Rule,       \* function ids of the rules
    NoRule,
    Parent,     \* ruleAncestors: the rule a rule is nested in, or NoRule
    ChildRules, \* the SPAWN_RULE instructions of a rule, in order
    Pages,      \* rootRuleFuncIds of every page, in page order
    Mode        \* how a rule is armed

(* The enumeration of a set of rules in document order.                    *)
Ascending(s) == \A i, j \in DOMAIN s : i < j => s[i] < s[j]

InOrder(R) == {s \in SetToSeqs(R) : Ascending(s)}

(* Every root rule is on one page, and every other rule is spawned by the  *)
(* rule it is nested in.                                                   *)
ASSUME RuleProgramAssumption ==
    /\ Rule \subseteq Nat /\ IsFiniteSet(Rule) /\ NoRule \notin Rule
    /\ Parent \in [Rule -> Rule \cup {NoRule}]
    /\ \A r \in Rule : Parent[r] # NoRule => Parent[r] < r
    /\ Mode \in [Rule -> {"always", "when", "otherwise", "then"}]
    /\ Pages \in Seq(Seq(Rule)) /\ Pages # << >>
    /\ \A p \in DOMAIN Pages : Ascending(Pages[p])
    /\ \A p, q \in DOMAIN Pages : ToSet(Pages[p]) \cap ToSet(Pages[q]) # {} => p = q
    /\ {r \in Rule : Parent[r] = NoRule} = UNION {ToSet(Pages[p]) : p \in DOMAIN Pages}
    /\ ChildRules \in [Rule -> Seq(Rule)]
    /\ \A r \in Rule : ChildRules[r] \in InOrder({c \in Rule : Parent[c] = r})

Page == DOMAIN Pages

(* ruleParentFuncId, repeated: a rule and the rules it is nested in are    *)
(* the least set that holds the rule and, with a rule, its parent.         *)
Upward(R) == \A r \in R : Parent[r] # NoRule => Parent[r] \in R

Within == [r \in Rule |-> {a \in Rule :
              \A R \in SUBSET Rule : r \in R /\ Upward(R) => a \in R}]

RootOf == [r \in Rule |-> CHOOSE a \in Within[r] : Parent[a] = NoRule]

PageOf == [r \in Rule |-> CHOOSE p \in Page : RootOf[r] \in ToSet(Pages[p])]

(* The rule directly above a rule at its own nesting level.                *)
PrecedingSibling ==
    [r \in Rule |->
        LET level == IF Parent[r] = NoRule THEN Pages[PageOf[r]] ELSE ChildRules[Parent[r]]
            i == CHOOSE j \in DOMAIN level : level[j] = r
        IN  IF i = 1 THEN NoRule ELSE level[i - 1]]
=============================================================================
