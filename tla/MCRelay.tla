------------------------------- MODULE MCRelay -------------------------------
(* Two connections of the role "app" and one of the role "tool".           *)
EXTENDS Relay, TLC

CONSTANTS a1, a2, b1, k

OneKind == {k}
Three == {a1, a2, b1}
RoleOfThree == (a1 :> "app") @@ (a2 :> "app") @@ (b1 :> "tool")
KindOfThree == [c \in Three |-> k]

(* Two connections of the same role, the identifiers and the codes.        *)
Interchangeable ==
    Permutations({a1, a2})
        \cup Permutations(Session) \cup Permutations(Binding)
        \cup Permutations(Triplet) \cup Permutations(Suffixed)
=============================================================================
