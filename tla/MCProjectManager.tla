--------------------------- MODULE MCProjectManager ---------------------------
EXTENDS ProjectManager, TLC

CONSTANTS
    MaxUnderWay,    \* bound: calls, recoveries and automatic saves at once
    First           \* the change that is made first, since changes are alike

Symmetry == Permutations(Tab) \cup Permutations(Project)
Made == {c \in Change : home[c] # None}

(* What follows a crossing, a second failed open or a late open is not     *)
(* explored, nor a deletion, a failed open or the use of every tab with    *)
(* more than one change, nor two broadcasts on their way with changes.     *)
Deletes == live # Project \/ news # {} \/ \E k \in Tasks : task[k].at = "delete"
InUse(t) == tab[t].active # None \/ \E k \in Tasks : k[1] = t /\ task[k].at # "idle"

Bound ==
    /\ crossed = {} /\ late = {} /\ Cardinality(stuck) <= 1
    /\ Cardinality({k \in Tasks : task[k].at # "idle"})
         + Cardinality({w \in Tab \X Flush : save[w].at # "idle"}) <= MaxUnderWay
    /\ Deletes \/ stuck # {} \/ (\A t \in Tab : InUse(t)) => Cardinality(Made) <= 1
    /\ Cardinality(news) > 1 => Made = {}
    /\ Made # {} => First \in Made
=============================================================================
