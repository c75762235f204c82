--------------------------- MODULE Administration ---------------------------
(***************************************************************************)
(* Accounts and roles of an onboarded instance: concurrent requests to     *)
(* /users and /roles, each authorised from the roles its caller holds when *)
(* it starts and applied when it commits, composed with the onboarding     *)
(* that makes the first account.  Requests do not lock what they read.     *)
(* Which process serves a request matters to its gate only.                *)
(***************************************************************************)
EXTENDS Setup

CONSTANTS
    Request,        \* requests under way at a time
    Limit           \* bound on the requests of a behaviour

ASSUME RequestAssumption == Limit \in Nat

VARIABLES
    req,            \* per request: its step, caller, permission and write set
    served,         \* history: how many requests have started (bounded)
    overlapped,     \* history: two requests were once under way together
    delegated       \* history: a role besides Boot was once granted user:manage

adminVars == <<req, served, overlapped, delegated>>
vars == <<tables, setupVars, adminVars>>

Idle == [pc |-> "idle", actor |-> NoUser, need |-> ManageUsers, writes |-> Nothing]

Init ==
    /\ SetupInit
    /\ req = [r \in Request |-> Idle]
    /\ served = 0
    /\ overlapped = FALSE /\ delegated = FALSE

(* The gate of a process passes, and get_current_user and require find a   *)
(* live, active caller who holds the permission now.                       *)
Begin(r) ==
    /\ req[r].pc = "idle" /\ served < Limit
    /\ \E p \in Process, u \in LiveUsers \cap active, need \in Permission :
          /\ open[p] \/ completed
          /\ need \in PermissionsOf(u)
          /\ open' = [open EXCEPT ![p] = TRUE]
          /\ req' = [req EXCEPT ![r] = [pc |-> "begun", actor |-> u, need |-> need,
                                        writes |-> Nothing]]
    /\ served' = served + 1
    /\ overlapped' = (overlapped \/ \E q \in Request : req[q].pc # "idle")
    /\ UNCHANGED <<tables, completed, sub, founders, late, early, delegated>>

(* The handler has read what it needs and leaves w to the commit. *)
Ready(r, w) ==
    /\ req' = [req EXCEPT ![r].pc = "ready", ![r].writes = w]
    /\ UNCHANGED <<tables, setupVars, served, overlapped, delegated>>

Handles(r, need) == req[r].pc = "begun" /\ req[r].need = need

CreateUser(r) ==
    /\ Handles(r, ManageUsers)
    /\ \E u \in User \ accounts, keys \in SUBSET LiveRoles :
          Ready(r, [Nothing EXCEPT !.made = {u}, !.on = {u}, !.given = {u} \X keys])

(* The ORM writes is_active only when it differs from what was loaded.  *)
StatusWrites(u, status) ==
    [Nothing EXCEPT !.on  = IF status = "active" THEN {u} \ active ELSE {},
                    !.off = IF status = "inactive" THEN {u} \cap active ELSE {}]

(* Replacing a collection inserts and deletes the difference to what was   *)
(* loaded.                                                                 *)
RoleWrites(w, u, keys) ==
    [w EXCEPT !.given = {u} \X (keys \ RolesOf(u)), !.taken = {u} \X (RolesOf(u) \ keys)]

UpdateUser(r) ==
    /\ Handles(r, ManageUsers)
    /\ \E u \in LiveUsers, status \in {"unchanged", "active", "inactive"} :
          /\ status = "inactive" => u # req[r].actor
          /\ \/ Ready(r, StatusWrites(u, status))
             \/ \E keys \in SUBSET LiveRoles :
                   /\ u = req[r].actor => Boot \in keys
                   /\ Ready(r, RoleWrites(StatusWrites(u, status), u, keys))

(* Mutant: callers may delete themselves. *)
DeleteAnyUser(r) ==
    /\ Handles(r, ManageUsers)
    /\ \E u \in LiveUsers :
          Ready(r, [Nothing EXCEPT !.gone = {u}, !.off = {u} \cap active])

DeleteUser(r) ==
    /\ Handles(r, ManageUsers)
    /\ \E u \in LiveUsers \ {req[r].actor} :
          Ready(r, [Nothing EXCEPT !.gone = {u}, !.off = {u} \cap active])

CreateRole(r) ==
    /\ Handles(r, ManageRoles)
    /\ \E k \in Role \ roles, perms \in SUBSET Permission :
          Ready(r, [Nothing EXCEPT !.begun = {k}, !.granted = {k} \X perms])

GrantsOf(k) == {p \in Permission : <<k, p>> \in grants}

UpdateRole(r) ==
    /\ Handles(r, ManageRoles)
    /\ \E k \in LiveRoles \ {Boot}, perms \in SUBSET Permission :
          Ready(r, [Nothing EXCEPT !.granted = {k} \X (perms \ GrantsOf(k)),
                                   !.revoked = {k} \X (GrantsOf(k) \ perms)])

(* Mutant: holders are not counted. *)
DeleteHeldRole(r) ==
    /\ Handles(r, ManageRoles)
    /\ \E k \in LiveRoles \ System : Ready(r, [Nothing EXCEPT !.ended = {k}])

(* Holders are counted in user_role, those of removed accounts included. *)
DeleteRole(r) ==
    /\ Handles(r, ManageRoles)
    /\ \E k \in LiveRoles \ System :
          /\ Holders(k) = {}
          /\ Ready(r, [Nothing EXCEPT !.ended = {k}])

Commit(r) ==
    /\ req[r].pc = "ready"
    /\ Apply(req[r].writes)
    /\ delegated' = (delegated \/ \E k \in Role \ {Boot} : <<k, ManageUsers>> \in req[r].writes.granted)
    /\ req' = [req EXCEPT ![r] = Idle]
    /\ UNCHANGED <<setupVars, served, overlapped>>

(* Refused, a clash with a unique index, or a failure: rolled back. *)
Fail(r) ==
    /\ req[r].pc # "idle"
    /\ req' = [req EXCEPT ![r] = Idle]
    /\ UNCHANGED <<tables, setupVars, served, overlapped, delegated>>

Onboard == SetupNext /\ UNCHANGED adminVars

Next ==
    \/ Onboard
    \/ \E r \in Request :
          \/ Begin(r) \/ Commit(r) \/ Fail(r)
          \/ CreateUser(r) \/ UpdateUser(r) \/ DeleteUser(r)
          \/ CreateRole(r) \/ UpdateRole(r) \/ DeleteRole(r)

Spec == Init /\ [][Next]_vars

-----------------------------------------------------------------------------
TypeOK ==
    /\ TablesOK /\ SetupOK
    /\ req \in [Request -> [pc: {"idle", "begun", "ready"}, actor: User \cup {NoUser},
                            need: Permission, writes: WriteSet]]
    /\ served \in 0..Limit
    /\ overlapped \in BOOLEAN /\ delegated \in BOOLEAN

(* No request is authorised before the instance is onboarded, even by a    *)
(* process whose gate was opened by a submission that then failed: the     *)
(* first account becomes visible together with the settings.               *)
NobodyActsBeforeOnboarding ==
    \A r \in Request : req[r].pc # "idle" => completed

(* From onboarding on, super_admin exists, is not deleted and grants       *)
(* everything, whatever requests and container starts do to roles.         *)
SuperAdminWhole ==
    completed => Boot \in LiveRoles /\ {Boot} \X Permission \subseteq grants

Administrators == {u \in LiveUsers \cap active : <<u, Boot>> \in holds}

(* update_user and delete_user only protect the caller from itself.  That  *)
(* keeps an administrator as long as requests do not overlap and user      *)
(* management is not granted to another role.                              *)
Administrable ==
    completed /\ ~overlapped /\ ~delegated => Administrators # {}

(* Deleting a role never strips anybody of it silently, as long as no      *)
(* request assigns it between the count of its holders and the commit.     *)
NoSilentStripping ==
    ~overlapped => \A k \in dropped : Holders(k) = {}
=============================================================================
