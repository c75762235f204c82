-------------------------- MODULE MCAdministration ---------------------------
(* Model values for model checking Administration. *)
EXTENDS Administration, TLC

CONSTANTS u1, u2, u3, super, custom, p1, p2, s1, s2, q1, q2

Users == {u1, u2, u3}
Roles == {super, custom}
SystemRoles == {super}
Permissions == {ManageUsers, ManageRoles}
Processes == {p1, p2}
Submissions == {s1, s2}
Requests == {q1, q2}

Alike == Permutations(Users) \cup Permutations(Processes)
             \cup Permutations(Submissions) \cup Permutations(Requests)
=============================================================================
