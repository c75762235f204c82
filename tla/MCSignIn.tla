------------------------------ MODULE MCSignIn ------------------------------
(* Model values for model checking SignIn. *)
EXTENDS SignIn, TLC

CONSTANTS r1, r2, c1, c2, c3

Requests == {r1, r2}
ThreeCodes == {c1, c2, c3}
OneCode == {c1}

Alike == Permutations(Requests) \cup Permutations(Code \ FirstCodes)
=============================================================================
