-------------------------- MODULE SessionContract --------------------------
(***************************************************************************)
(* What refresh-token sessions promise, without tokens, rows or requests:  *)
(* a login opens a session, using it never shows, and ending it is final.  *)
(* services/auth.py states this contract in its module docstring.          *)
(***************************************************************************)
CONSTANTS User, Session, NoUser

VARIABLES
    session,    \* what each session identity is
    holder      \* who opened it

vars == <<session, holder>>

Init == /\ session = [s \in Session |-> "none"]
        /\ holder = [s \in Session |-> NoUser]

OpenOf(u) == {s \in Session : session[s] = "open" /\ holder[s] = u}

Opened(s, u, others) ==
    /\ session[s] = "none"
    /\ session' = [x \in Session |-> IF x = s THEN "open"
                                     ELSE IF x \in others THEN "ended"
                                     ELSE session[x]]
    /\ holder' = [holder EXCEPT ![s] = u]

Login(s, u) == Opened(s, u, {})

(* A password change ends every session of the account and opens one. *)
ChangePassword(s, u) == Opened(s, u, OpenOf(u))

Ended(S) == /\ S # {}
            /\ session' = [s \in Session |-> IF s \in S THEN "ended"
                                             ELSE session[s]]
            /\ UNCHANGED holder

End(s) == session[s] = "open" /\ Ended({s})

EndAll(u) == Ended(OpenOf(u))

Next == \/ \E s \in Session, u \in User : Login(s, u) \/ ChangePassword(s, u)
        \/ \E s \in Session : End(s)
        \/ \E u \in User : EndAll(u)

Spec == Init /\ [][Next]_vars
=============================================================================
