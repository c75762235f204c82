--------------------------- MODULE RefreshTokens ---------------------------
(***************************************************************************)
(* Refresh-token sessions (services/auth.py, api/v1/auth.py, api/v1/       *)
(* users.py over the tables "refresh_token" and "user").                   *)
(*                                                                         *)
(* Every HTTP request runs in one database transaction that the session    *)
(* dependency commits when the handler returns and rolls back when it      *)
(* raises (db.get_session).  Requests interleave at every await, and       *)
(* PostgreSQL runs them READ COMMITTED, so that                            *)
(*   - a SELECT sees what is committed when it runs;                       *)
(*   - a bulk UPDATE fixes the rows it will touch from what is committed   *)
(*     when the statement starts (TakeSnapshot), then waits for row locks  *)
(*     (LockRows) and keeps them until the transaction ends;               *)
(*   - an ORM assignment reaches the database only in the flush at commit  *)
(*     (autoflush=False), "user" before "refresh_token" (FlushUser,        *)
(*     FlushToken), and overwrites the row whatever it has become.         *)
(*                                                                         *)
(* A family is named by the token its login issued.  Expiry is left out:   *)
(* an expired token is refused and changes nothing.  ended and raced are   *)
(* history variables, read by no guard.                                    *)
(***************************************************************************)
EXTENDS Naturals, FiniteSets

CONSTANTS
    User,       \* accounts
    Token,      \* refresh tokens that can be minted: bounds the run
    Request,    \* requests that can be in flight at the same time
    NoUser,     \* the user of a slot with no request
    NoToken     \* the presented token of a request that presents none

ASSUME NullAssumption == NoUser \notin User /\ NoToken \notin Token

VARIABLES
    token,      \* table refresh_token, committed rows
    account,    \* table user, committed rows: is_active and deleted_at
    req,        \* the transaction each request slot is running
    ended,      \* history: families a committed revocation was to end
    raced       \* history: families a rotation extended across such an end

vars == <<token, account, req, ended, raced>>

Status == {"unused", "live", "revoked"}
Standing == {"active", "inactive", "deleted"}

Row == [status: Status, user: User \cup {NoUser}, family: Token \cup {NoToken}]

Unused == [status |-> "unused", user |-> NoUser, family |-> NoToken]

Op == {"none", "refresh", "replay", "login", "logout", "revokeSession",
       "signOutAll", "reset", "changePassword", "deactivate", "delete",
       "reactivate"}

Phase == {"idle", "loadUser", "revoke", "lock", "flush", "store", "commit"}

Transaction == [op: Op, phase: Phase, user: User \cup {NoUser},
                token: Token \cup {NoToken}, writes: SUBSET Token,
                ends: SUBSET Token, sawEnded: BOOLEAN]

Idle == [op |-> "none", phase |-> "idle", user |-> NoUser, token |-> NoToken,
         writes |-> {}, ends |-> {}, sawEnded |-> FALSE]

TypeOK ==
    /\ token \in [Token -> Row]
    /\ account \in [User -> Standing]
    /\ req \in [Request -> Transaction]
    /\ ended \in SUBSET Token
    /\ raced \in SUBSET Token

-----------------------------------------------------------------------------
(* What the tables say. *)

Issued(t) == token[t].status # "unused"
Live(t) == token[t].status = "live"

LiveIn(f) == {t \in Token : Live(t) /\ token[t].family = f}
LiveOf(u) == {t \in Token : Live(t) /\ token[t].user = u}
FamiliesOf(u) == {f \in Token : \E t \in Token : /\ Issued(t)
                                                 /\ token[t].user = u
                                                 /\ token[t].family = f}

(* Row locks.  A revocation holds the rows it changed; every operation but *)
(* these four also updates the user row in its flush.                      *)

TokenLocks(r) == IF req[r].phase = "lock" THEN {} ELSE req[r].writes

LeavesUserRow == {"replay", "logout", "revokeSession", "signOutAll"}

HoldsUserRow(r) == /\ req[r].phase \in {"store", "commit"}
                   /\ req[r].op \notin LeavesUserRow

RowsFree(r, S) == \A o \in Request \ {r} : TokenLocks(o) \cap S = {}

UserRowFree(r, u) == \A o \in Request \ {r} : HoldsUserRow(o) => req[o].user # u

(* A revocation whose UPDATE has chosen its rows and has not committed. *)
PendingEnd(r, f) == /\ req[r].phase \in {"lock", "flush", "store", "commit"}
                    /\ f \in req[r].ends

(* Bound: a transaction that inserts a row starts only while a token is    *)
(* left for it.                                                            *)
Mints == {"refresh", "login", "changePassword"}

TokenLeft == Cardinality({r \in Request : req[r].op \in Mints})
                < Cardinality({t \in Token : ~Issued(t)})

Begin(r, o, p, u, t) ==
    /\ req[r].phase = "idle"
    /\ req' = [req EXCEPT ![r] = [Idle EXCEPT !.op = o, !.phase = p,
                                               !.user = u, !.token = t]]
    /\ UNCHANGED <<token, account, ended, raced>>

-----------------------------------------------------------------------------
Init ==
    /\ token = [t \in Token |-> Unused]
    /\ account = [u \in User |-> "active"]
    /\ req = [r \in Request |-> Idle]
    /\ ended = {}
    /\ raced = {}

(* POST /auth/refresh: rotate_refresh_token reads the presented row. *)
BeginRotation(r, t) ==
    /\ req[r].phase = "idle"
    /\ Live(t)
    /\ TokenLeft
    /\ req' = [req EXCEPT ![r] =
                  [Idle EXCEPT !.op = "refresh", !.phase = "loadUser",
                               !.user = token[t].user, !.token = t,
                               !.sawEnded = token[t].family \in ended]]
    /\ UNCHANGED <<token, account, ended, raced>>

(* ... and takes a revoked one for a replay. *)
BeginReplay(r, t) ==
    /\ token[t].status = "revoked"
    /\ Begin(r, "replay", "revoke", token[t].user, t)

(* A refresh that waits until the account is active again. *)
LoadUserWhenActive(r) ==
    /\ req[r].phase = "loadUser"
    /\ account[req[r].user] = "active"
    /\ req' = [req EXCEPT ![r].phase = "flush"]
    /\ UNCHANGED <<token, account, ended, raced>>

(* The rotation loads the account: 401 unless it is active. *)
LoadUser(r) ==
    /\ req[r].phase = "loadUser"
    /\ req' = [req EXCEPT ![r] = IF account[req[r].user] = "active"
                                 THEN [req[r] EXCEPT !.phase = "flush"]
                                 ELSE Idle]
    /\ UNCHANGED <<token, account, ended, raced>>

(* POST /auth/login without TOTP, or /auth/mfa/verify: the account is      *)
(* loaded and found active, the credentials are right.                     *)
BeginLogin(r, u) ==
    /\ account[u] = "active"
    /\ TokenLeft
    /\ Begin(r, "login", "flush", u, NoToken)

(* POST /auth/logout: no account is loaded, the cookie is enough. *)
BeginLogout(r, t) ==
    /\ Issued(t)
    /\ Begin(r, "logout", "revoke", token[t].user, t)

(* DELETE /auth/sessions/{id}, by the owner. *)
BeginRevokeSession(r, t) ==
    /\ Issued(t)
    /\ account[token[t].user] = "active"
    /\ Begin(r, "revokeSession", "revoke", token[t].user, t)

(* DELETE /auth/sessions by the owner, DELETE /users/{id}/sessions by an   *)
(* administrator.                                                          *)
BeginSignOutAll(r, u) ==
    /\ account[u] # "deleted"
    /\ Begin(r, "signOutAll", "revoke", u, NoToken)

(* POST /users/{id}/password and /users/{id}/2fa/reset. *)
BeginReset(r, u) ==
    /\ account[u] # "deleted"
    /\ Begin(r, "reset", "revoke", u, NoToken)

(* POST /auth/password/change. *)
BeginChangePassword(r, u) ==
    /\ account[u] = "active"
    /\ TokenLeft
    /\ Begin(r, "changePassword", "revoke", u, NoToken)

(* Disabling an account and leaving its sessions alone. *)
BeginDeactivateOnly(r, u) ==
    /\ account[u] = "active"
    /\ Begin(r, "deactivate", "flush", u, NoToken)

(* PATCH /users/{id} with is_active false (of an active account: setting   *)
(* the value a row already has writes nothing, which is SignOutAll), and   *)
(* with is_active true.                                                    *)
BeginDeactivate(r, u) ==
    /\ account[u] = "active"
    /\ Begin(r, "deactivate", "revoke", u, NoToken)

BeginReactivate(r, u) ==
    /\ account[u] = "inactive"
    /\ Begin(r, "reactivate", "flush", u, NoToken)

(* DELETE /users/{id}. *)
BeginDelete(r, u) ==
    /\ account[u] # "deleted"
    /\ Begin(r, "delete", "revoke", u, NoToken)

-----------------------------------------------------------------------------
FamilyWide == {"replay", "revokeSession"}

(* Revoking the presented token only. *)
TargetsOneRow(x) ==
    IF x.op \in FamilyWide \cup {"logout"} THEN {x.token} \cap LiveOf(x.user)
    ELSE LiveOf(x.user)

(* revoke_token, revoke_family and revoke_all_for_user: which live rows    *)
(* the UPDATE of operation o names, and which families it is to end.       *)
Targets(x) ==
    CASE x.op = "logout" -> {x.token} \cap LiveOf(x.user)
      [] x.op \in FamilyWide -> LiveIn(token[x.token].family)
      [] OTHER -> LiveOf(x.user)

Scope(x) ==
    CASE x.op = "logout" -> {}
      [] x.op \in FamilyWide -> {token[x.token].family}
      [] OTHER -> FamiliesOf(x.user)

TakeSnapshot(r) ==
    /\ req[r].phase = "revoke"
    /\ req' = [req EXCEPT ![r] = [req[r] EXCEPT !.phase = "lock",
                                                !.writes = Targets(req[r]),
                                                !.ends = Scope(req[r])]]
    /\ UNCHANGED <<token, account, ended, raced>>

(* The rows are re-checked when their locks are granted: one revoked in    *)
(* the meantime no longer matches "revoked_at IS NULL".                    *)
LockRows(r) ==
    /\ req[r].phase = "lock"
    /\ RowsFree(r, req[r].writes)
    /\ req' = [req EXCEPT ![r] =
                  [req[r] EXCEPT
                      !.phase = IF req[r].op \in LeavesUserRow
                                THEN "commit" ELSE "flush",
                      !.writes = {t \in req[r].writes : Live(t)}]]
    /\ UNCHANGED <<token, account, ended, raced>>

(* The flush: the user row ... *)
FlushUser(r) ==
    /\ req[r].phase = "flush"
    /\ UserRowFree(r, req[r].user)
    /\ req' = [req EXCEPT ![r].phase = IF req[r].op = "refresh"
                                       THEN "store" ELSE "commit"]
    /\ UNCHANGED <<token, account, ended, raced>>

(* A rotation that forgets to revoke the token it was given. *)
FlushTokenKept(r) ==
    /\ req[r].phase = "store"
    /\ req' = [req EXCEPT ![r].phase = "commit"]
    /\ UNCHANGED <<token, account, ended, raced>>

(* ... then the presented token of a rotation. *)
FlushToken(r) ==
    /\ req[r].phase = "store"
    /\ RowsFree(r, {req[r].token})
    /\ req' = [req EXCEPT ![r] = [req[r] EXCEPT !.phase = "commit",
                                                !.writes = {req[r].token}]]
    /\ UNCHANGED <<token, account, ended, raced>>

-----------------------------------------------------------------------------
(* The commit makes the revoked rows, and the row issue_session added,     *)
(* visible together.                                                       *)
Revoked(S) == [t \in Token |-> IF t \in S
                               THEN [token[t] EXCEPT !.status = "revoked"]
                               ELSE token[t]]

WithNew(rows, n, u, f) ==
    [rows EXCEPT ![n] = [status |-> "live", user |-> u, family |-> f]]

Overlaps(r, f) == \/ f \in ended /\ ~req[r].sawEnded
                  \/ \E o \in Request : PendingEnd(o, f)

(* A rotation that opens a family of its own. *)
CommitRotationApart(r) ==
    /\ req[r].phase = "commit" /\ req[r].op = "refresh"
    /\ \E n \in Token :
          /\ ~Issued(n)
          /\ token' = WithNew(Revoked(req[r].writes), n, req[r].user, n)
    /\ req' = [req EXCEPT ![r] = Idle]
    /\ UNCHANGED <<account, ended, raced>>

CommitRotation(r) ==
    /\ req[r].phase = "commit" /\ req[r].op = "refresh"
    /\ LET f == token[req[r].token].family
       IN  /\ \E n \in Token :
                 /\ ~Issued(n)
                 /\ token' = WithNew(Revoked(req[r].writes), n, req[r].user, f)
           /\ raced' = IF Overlaps(r, f) THEN raced \cup {f} ELSE raced
    /\ req' = [req EXCEPT ![r] = Idle]
    /\ UNCHANGED <<account, ended>>

(* login and changePassword open a family. *)
CommitNewFamily(r) ==
    /\ req[r].phase = "commit" /\ req[r].op \in {"login", "changePassword"}
    /\ \E n \in Token :
          /\ ~Issued(n)
          /\ token' = WithNew(Revoked(req[r].writes), n, req[r].user, n)
    /\ ended' = ended \cup req[r].ends
    /\ req' = [req EXCEPT ![r] = Idle]
    /\ UNCHANGED <<account, raced>>

NewStanding(o, s) == CASE o = "deactivate" -> "inactive"
                       [] o = "reactivate" -> "active"
                       [] o = "delete" -> "deleted"
                       [] OTHER -> s

(* Writing is_active touches no other column: a deleted account stays so. *)
Applied(o, s) == IF s = "deleted" THEN s ELSE NewStanding(o, s)

(* The revocation of a replay rolled back with its 401. *)
CommitRevocationUnlessReplay(r) ==
    /\ req[r].phase = "commit" /\ req[r].op \notin Mints
    /\ token' = IF req[r].op = "replay" THEN token ELSE Revoked(req[r].writes)
    /\ account' = [account EXCEPT ![req[r].user] = Applied(req[r].op, @)]
    /\ ended' = ended \cup req[r].ends
    /\ req' = [req EXCEPT ![r] = Idle]
    /\ UNCHANGED raced

(* Every other operation.  A replay commits before it raises its 401. *)
CommitRevocation(r) ==
    /\ req[r].phase = "commit" /\ req[r].op \notin Mints
    /\ token' = Revoked(req[r].writes)
    /\ account' = [account EXCEPT ![req[r].user] = Applied(req[r].op, @)]
    /\ ended' = ended \cup req[r].ends
    /\ req' = [req EXCEPT ![r] = Idle]
    /\ UNCHANGED raced

(* A request can fail at any await (lost connection, restarted process):   *)
(* nothing it wrote was committed.                                         *)
Abort(r) ==
    /\ req[r].phase # "idle"
    /\ req' = [req EXCEPT ![r] = Idle]
    /\ UNCHANGED <<token, account, ended, raced>>

(* A rotation that holds the user row waits for its token while a          *)
(* revocation that holds the token waits for the user row: PostgreSQL's    *)
(* deadlock detector aborts one of the two.                                *)
Deadlocked(r, o) ==
    /\ req[r].phase = "store" /\ req[r].token \in TokenLocks(o)
    /\ req[o].phase = "flush" /\ req[o].user = req[r].user

BreakDeadlock(r) ==
    /\ \E o \in Request : Deadlocked(r, o) \/ Deadlocked(o, r)
    /\ Abort(r)

-----------------------------------------------------------------------------
BeginOnToken(r, t) ==
    \/ BeginRotation(r, t)
    \/ BeginReplay(r, t)
    \/ BeginLogout(r, t)
    \/ BeginRevokeSession(r, t)

BeginOnUser(r, u) ==
    \/ BeginLogin(r, u)
    \/ BeginSignOutAll(r, u)
    \/ BeginReset(r, u)
    \/ BeginChangePassword(r, u)
    \/ BeginDeactivate(r, u)
    \/ BeginReactivate(r, u)
    \/ BeginDelete(r, u)

Advance(r) ==
    \/ LoadUser(r)
    \/ TakeSnapshot(r)
    \/ LockRows(r)
    \/ FlushUser(r)
    \/ FlushToken(r)
    \/ CommitRotation(r)
    \/ CommitNewFamily(r)
    \/ CommitRevocation(r)

Next == \E r \in Request :
    \/ \E t \in Token : BeginOnToken(r, t)
    \/ \E u \in User : BeginOnUser(r, u)
    \/ Advance(r)
    \/ BreakDeadlock(r)
    \/ Abort(r)

Spec == Init /\ [][Next]_vars

(* The event loop resumes a request whose database answer has come and the *)
(* deadlock detector runs.  Row locks are queued in arrival order, so a    *)
(* statement that waits for one is granted it although others take the     *)
(* same row in between: strong fairness, not weak, of the steps that wait.  *)
Fairness == \A r \in Request : SF_vars(Advance(r)) /\ WF_vars(BreakDeadlock(r))

FairSpec == Spec /\ Fairness

-----------------------------------------------------------------------------
(* Properties *)

(* A family that a replay, a revoked session, a password change or an      *)
(* administrator has ended has a live token again only if a rotation that  *)
(* had read its token before, or ran during, that revocation extended it:  *)
(* no other order of reads, row locks, commits and failures revives one.   *)
OnlyRacesOutliveEnd ==
    \A f \in ended : LiveIn(f) # {} => f \in raced

(* Ending a family is final: what RefreshToken's docstring promises ("the  *)
(* entire family is revoked at once") and change_password relies on.       *)
EndedStaysEnded == \A f \in ended : LiveIn(f) = {}

(* A family never has two live tokens: a client only ever holds the newest *)
(* token of its family, which is what makes a revoked one a replay.        *)
OneLivePerFamily == \A f \in Token : Cardinality(LiveIn(f)) <= 1

(* An account that is disabled or removed has no live refresh token left,  *)
(* so that enabling it again revives no old session (update_user,          *)
(* delete_user).                                                           *)
InactiveHasNoSession == \A u \in User : account[u] # "active" => LiveOf(u) = {}

(* No request hangs: row locks are always given back, and a revocation and *)
(* a rotation that wait for each other are parted.                         *)
RequestsFinish == \A r \in Request : (req[r].phase # "idle") ~> (req[r].phase = "idle")

(* Families seen as the sessions of SessionContract. *)
Head(f) == token[f].family = f

Contract == INSTANCE SessionContract WITH
    Session <- Token,
    session <- [f \in Token |-> IF ~Head(f) THEN "none"
                                ELSE IF LiveIn(f) # {} THEN "open" ELSE "ended"],
    holder <- [f \in Token |-> IF Head(f) THEN token[f].user ELSE NoUser]

(* With one request at a time, failing anywhere, the rows of a family      *)
(* implement one session that opens once and ends once.                    *)
ImplementsContract == Contract!Spec
=============================================================================
