-------------------------- MODULE MCRefreshTokens --------------------------
(* Model values and symmetry for model checking RefreshTokens. *)
EXTENDS RefreshTokens, TLC

CONSTANTS u1, u2, t1, t2, t3, t4, r1, r2, r3, none

OneUser == {u1}
TwoUsers == {u1, u2}
TwoTokens == {t1, t2}
ThreeTokens == {t1, t2, t3}
FourTokens == {t1, t2, t3, t4}
OneRequest == {r1}
TwoRequests == {r1, r2}
ThreeRequests == {r1, r2, r3}

Symmetry == Permutations(User) \cup Permutations(Token) \cup Permutations(Request)
=============================================================================
