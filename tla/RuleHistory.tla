----------------------------- MODULE RuleHistory -----------------------------
(***************************************************************************)
(* BrainRuntime with a history of firings: what the triggers `then` and    *)
(* `otherwise` promise of several thinks and several rules at once         *)
(* (docs/specs/rule-triggers.md).                                          *)
(***************************************************************************)
EXTENDS BrainRuntime

VARIABLES
    unclaimed,  \* rules whose last firing no `then` has answered for yet
    begun,      \* rules that began their check in this think
    fired       \* rules that fired in this think

historyVars == <<unclaimed, begun, fired>>

HistoryInit ==
    /\ Init
    /\ unclaimed = {} /\ begun = {} /\ fired = {}

(* The fibers that are told, in this step, that their subject completed.   *)
ToldTrue ==
    {f \in FiberId :
        \/ fiber[f].trigger # "true" /\ fiber'[f].trigger = "true"
        \/ fiber[f].waits = "trigger" /\ fiber'[f].pc = "when" /\ fiber'[f].waits = "nothing"}

Claims == {PrecedingSibling[fiber[f].rule] : f \in ToldTrue}

(* The rules whose firing this step starts or spoils.                      *)
Fires(f) == \/ Gate(f, TRUE)
            \/ Begin(f) /\ Mode[fiber[f].rule] = "always"

FiringRules == {fiber[f].rule : f \in {g \in FiberId : Fires(g)}}

Spoiled ==
    IF \E p \in Page : RequestPage(p) \/ LeavePage(p)
    THEN UNION {Within[fiber[f].rule] : f \in PageFibers}
    ELSE UNION {Within[fiber[f].rule] : f \in {g \in FiberId : Fault(g)}}

HistoryNext ==
    /\ Next
    /\ unclaimed' = (unclaimed \ (Claims \cup Spoiled)) \cup FiringRules
    /\ begun' = IF phase = "idle" THEN {}
                ELSE begun \cup {fiber[f].rule : f \in {g \in FiberId : Begin(g)}}
    /\ fired' = IF phase = "idle" THEN {} ELSE fired \cup FiringRules

HistorySpec == HistoryInit /\ [][HistoryNext]_<<vars, historyVars>>

(* rule-triggers.md: a `then` runs once per completed firing of the rule   *)
(* above it.  Whoever is told true is told so of a firing that no fault or *)
(* cancellation has touched, that has no fiber left in flight, and that    *)
(* nobody was told of before.                                              *)
FiresOncePerCompletion ==
    [][\A s \in Claims : s \in unclaimed \ Spoiled /\ Cluster(s)' = {}]_<<vars, historyVars>>

(* No `then` rule follows an `otherwise` rule, whose record may be that of *)
(* the rule above it.                                                      *)
SubjectsRecordThemselves ==
    \A r \in Rule : Mode[r] = "then" =>
        PrecedingSibling[r] = NoRule \/ Mode[PrecedingSibling[r]] # "otherwise"

(* The otherwise-chain of a rule as far as the rule itself: the least set  *)
(* that holds the rule and, with an `otherwise` rule, the rule above it.   *)
Upchain(R) ==
    \A r \in R :
        Mode[r] = "otherwise" /\ PrecedingSibling[r] # NoRule => PrecedingSibling[r] \in R

Chain == [r \in Rule |-> {s \in Rule :
             \A R \in SUBSET Rule : r \in R /\ Upchain(R) => s \in R}]

(* The `otherwise` rules of the chain have all begun their checks in this  *)
(* think.                                                                  *)
Reached(r) == \A q \in Chain[r] : Mode[q] = "otherwise" => q \in begun

(* No chain of child rules has a `then` rule at its head.                  *)
WaitingHeadsAreRoots ==
    \A r \in Rule : Mode[r] = "otherwise" /\ Parent[r] # NoRule =>
        PrecedingSibling[r] = NoRule \/ Mode[PrecedingSibling[r]] # "then"

(* rule-triggers.md: an `otherwise` rule "fires on a think when no earlier *)
(* rule in its otherwise-chain fired that think".  No rule of a chain has  *)
(* fired in this think but one, as long as the `otherwise` rules of the    *)
(* chain all began their checks in it.                                     *)
OneBranchFires == \A r \in fired : Reached(r) => Chain[r] \cap fired = {r}
=============================================================================
