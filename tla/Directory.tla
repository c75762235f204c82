------------------------------ MODULE Directory ------------------------------
(***************************************************************************)
(* The tables behind accounts and roles, and what a transaction does to    *)
(* them.  A request reads committed rows, collects its writes in the ORM   *)
(* session and applies them when get_session commits; a write set is the   *)
(* rows it inserts, deletes or changes.  Rows of accounts and roles are    *)
(* never deleted, only stamped deleted_at.                                 *)
(***************************************************************************)
EXTENDS Naturals, FiniteSets

CONSTANTS
    User,           \* accounts that can be made; one name each
    Role,           \* keys of roles
    System,         \* the seeded roles (is_system)
    Boot,           \* super_admin, BOOTSTRAP_ROLE_KEY
    Permission,     \* the permissions that guard the operations modelled
    ManageUsers,    \* user:manage
    ManageRoles     \* role:manage

ASSUME DirectoryAssumption ==
    /\ System \subseteq Role /\ Boot \in System
    /\ ManageUsers \in Permission /\ ManageRoles \in Permission

VARIABLES
    accounts,       \* rows of user
    removed,        \* of these, the ones with deleted_at set
    active,         \* of these, the ones with is_active
    holds,          \* rows of user_role
    roles,          \* rows of role
    dropped,        \* of these, the ones with deleted_at set
    grants          \* rows of role_permission

tables == <<accounts, removed, active, holds, roles, dropped, grants>>

WriteSet == [made: SUBSET User, gone: SUBSET User, on: SUBSET User, off: SUBSET User,
             given: SUBSET (User \X Role), taken: SUBSET (User \X Role),
             begun: SUBSET Role, ended: SUBSET Role,
             granted: SUBSET (Role \X Permission), revoked: SUBSET (Role \X Permission)]

Nothing == [made |-> {}, gone |-> {}, on |-> {}, off |-> {}, given |-> {}, taken |-> {},
            begun |-> {}, ended |-> {}, granted |-> {}, revoked |-> {}]

(* The unique indexes on names and keys and the primary keys of the join   *)
(* tables let a transaction insert only rows that are not there yet.       *)
Unique(w) ==
    /\ w.made \cap accounts = {} /\ w.given \cap holds = {}
    /\ w.begun \cap roles = {}   /\ w.granted \cap grants = {}

(* Mutant: an account is deleted instead of marked. *)
ApplyHardDelete(w) ==
    /\ Unique(w)
    /\ accounts' = (accounts \cup w.made) \ w.gone
    /\ removed'  = removed \cup w.gone
    /\ active'   = (active \cup w.on) \ w.off
    /\ holds'    = (holds \ w.taken) \cup w.given
    /\ roles'    = roles \cup w.begun
    /\ dropped'  = dropped \cup w.ended
    /\ grants'   = (grants \ w.revoked) \cup w.granted

Apply(w) ==
    /\ Unique(w)
    /\ accounts' = accounts \cup w.made
    /\ removed'  = removed \cup w.gone
    /\ active'   = (active \cup w.on) \ w.off
    /\ holds'    = (holds \ w.taken) \cup w.given
    /\ roles'    = roles \cup w.begun
    /\ dropped'  = dropped \cup w.ended
    /\ grants'   = (grants \ w.revoked) \cup w.granted

LiveUsers == accounts \ removed
LiveRoles == roles \ dropped
RolesOf(u) == {k \in Role : <<u, k>> \in holds}
Holders(k) == {u \in User : <<u, k>> \in holds}

PermissionsOf(u) ==
    {p \in Permission : \E k \in RolesOf(u) \cap LiveRoles : <<k, p>> \in grants}

(* What app.seed adds to the tables.  The other seeded roles are granted   *)
(* none of the permissions modelled.                                       *)
Seeds == [Nothing EXCEPT !.begun = System \ roles,
                         !.granted = ({Boot} \X Permission) \ grants]

Empty == /\ accounts = {} /\ removed = {} /\ active = {} /\ holds = {}
         /\ roles = {} /\ dropped = {} /\ grants = {}

TablesOK ==
    /\ accounts \in SUBSET User /\ removed \in SUBSET accounts /\ active \in SUBSET accounts
    /\ holds \in SUBSET (User \X Role)
    /\ roles \in SUBSET Role /\ dropped \in SUBSET roles
    /\ grants \in SUBSET (Role \X Permission)
=============================================================================
