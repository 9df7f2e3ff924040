------------------------ MODULE MCEvidencePreparation --------------------------
(***************************************************************************)
(* TLC instances of EvidencePreparation: two notes with their units, a     *)
(* region, one note as an object, and a scope.                             *)
(***************************************************************************)
EXTENDS EvidencePreparation, TLC

CONSTANTS u1, u2, u3, n1, g1, s1, o1, o2

MCKindOf == u1 :> "unit" @@ u2 :> "unit" @@ u3 :> "unit" @@ n1 :> "object" @@ g1 :> "region" @@ s1 :> "scope"
MCOwnerOf == u1 :> o1 @@ u2 :> o1 @@ u3 :> o2 @@ n1 :> o1 @@ g1 :> o2 @@ s1 :> None

Succeeded(operator, targets) ==
  [operator |-> operator, status |-> "succeeded", hits |-> targets]
Alone(refs) == [i \in DOMAIN refs |-> <<refs[i]>>]

(* Sequences of at most n different members of S.                          *)
Orders(S, n) == {q \in UNION {[1..k -> S] : k \in 0..n} :
                   \A i, j \in DOMAIN q : i # j => q[i] # q[j]}

Lexical == {Succeeded("lexical", Alone(q)) : q \in Orders({u1, u2, u3}, 3)}
Vector == {Succeeded("vector", Alone(q)) : q \in Orders({u1, n1}, 2)}
Exact == {Succeeded("exact", Alone(q)) : q \in Orders({u2, u3}, 1)}
Discovery == {Succeeded("discovery", Alone(q)) : q \in Orders({s1, g1, n1}, 2)}
Edges == {<<u1, n1>>, <<n1, u3>>, <<s1, s1>>, <<u2, g1>>}
Relation == {Succeeded("relation", q) : q \in UNION {[1..k -> Edges] : k \in 0..2}}
NoResult == {[operator |-> "temporal", status |-> t, hits |-> <<>>] : t \in {"failed", "not_executed"}}

MCExecutions ==
  {<<a, b>> : a \in Lexical, b \in Relation}
    \cup {<<a, b>> : a \in Relation, b \in Lexical}
    \cup {<<a, b, c>> : a \in Vector, b \in Lexical, c \in Discovery}
    \cup {<<a, b, c>> : a \in Lexical, b \in Exact, c \in Vector}
    \cup {<<a, b>> : a \in NoResult, b \in Relation}
    \cup {<<>>}

MCFractions == {<<1, 4>>, <<1, 2>>, <<1, 1>>}
===============================================================================
