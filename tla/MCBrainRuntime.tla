---------------------------- MODULE MCBrainRuntime ----------------------------
(* Small rule programs for the model checking of BrainRuntime.             *)
EXTENDS BrainRuntime

(* On the first page rule 3 waits for rule 1, in which rule 2 is nested;   *)
(* the second page has no rules.                                           *)
ClusterRules == 1 .. 3
ClusterParent == <<0, 1, 0>>
ClusterChildren == << <<2>>, << >>, << >> >>
ClusterPages == << <<1, 3>>, << >> >>
ClusterMode == <<"when", "always", "then">>

(* On the first page rule 1 is the only root; rule 3 is nested in it,      *)
(* after rule 2, and waits for it.                                         *)
NestedRules == 1 .. 3
NestedParent == <<0, 1, 1>>
NestedChildren == << <<2, 3>>, << >>, << >> >>
NestedPages == << <<1>>, << >> >>
NestedMode == <<"always", "when", "then">>

(* Two pages with rules; rule 2 follows rule 1 on the first, and nothing   *)
(* is above rule 3 on the second.                                          *)
PagedRules == 1 .. 3
PagedParent == <<0, 0, 0>>
PagedChildren == << << >>, << >>, << >> >>
PagedPages == << <<1, 2>>, <<3>> >>
PagedMode == <<"always", "then", "otherwise">>

(* A page with a ladder of three roots.                                    *)
LadderRules == 1 .. 3
LadderParent == <<0, 0, 0>>
LadderChildren == << << >>, << >>, << >> >>
LadderPages == << <<1, 2, 3>> >>
LadderMode == <<"when", "otherwise", "otherwise">>

(* The same page with a `then` rule after the else branch.                 *)
ElseThenMode == <<"when", "otherwise", "then">>
=============================================================================
