--------------------------- MODULE MCSessionClient ---------------------------
(* Model values for model checking SessionClient. *)
EXTENDS SessionClient, TLC

CONSTANTS a, b, c1, c2, k1, k2, k3, s1, s2

Tabs == {a, b}
Calls == {c1, c2}
Slots == {s1, s2}
Tokens == {k1, k2, k3}

Alike == Permutations(Tabs) \cup Permutations(Calls) \cup Permutations(Slots)
             \cup Permutations(Tokens)
=============================================================================
