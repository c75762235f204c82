------------------------ MODULE AdministrationProofs ------------------------
(***************************************************************************)
(* Theorems about Administration, onboarding included, for every set of    *)
(* accounts, roles, permissions, processes, submissions and requests.      *)
(***************************************************************************)
EXTENDS Administration, TLAPS

(* One submission at most holds the singleton row; it inserts it before    *)
(* the instance is onboarded and writes over it afterwards.                *)
Wizard ==
    /\ OnboardedOnce /\ GateIsHonest
    /\ \A s, t \in Stored : s = t
    /\ \A s \in Stored : completed => sub[s].found
    /\ \A s \in Submission : sub[s].found => completed
    /\ \A s \in Submission :
          sub[s].pc # "none" => sub[s].at \in Process /\ sub[s].who \in User

(* No pending write set takes anything from super_admin. *)
SparesBoot(w) == Boot \notin w.ended /\ \A p \in Permission : <<Boot, p>> \notin w.revoked

(* A write set marks rows that are there. *)
Placed(w) == w.gone \subseteq accounts /\ w.on \subseteq accounts \cup w.made /\ w.ended \subseteq roles

Whole ==
    /\ Boot \notin dropped
    /\ SuperAdminWhole
    /\ \A r \in Request : SparesBoot(req[r].writes) /\ Placed(req[r].writes)

Alone ==
    /\ \A r \in Request : req[r].pc = "idle" => req[r].writes = Nothing
    /\ ~overlapped =>
          \A q, r \in Request : req[q].pc # "idle" /\ req[r].pc # "idle" => q = r

(* A write set that disturbs accounts spares the caller. *)
SparesCaller(x) ==
    \/ x.writes.off = {} /\ x.writes.gone = {} /\ x.writes.taken = {}
    \/ /\ x.need = ManageUsers /\ x.pc # "idle"
       /\ x.actor \notin x.writes.off \cup x.writes.gone
       /\ <<x.actor, Boot>> \notin x.writes.taken

Staffed ==
    /\ Administrable
    /\ ~delegated => \A k \in Role : <<k, ManageUsers>> \in grants => k = Boot
    /\ \A r \in Request : SparesCaller(req[r])
    /\ ~overlapped /\ ~delegated =>
          \A r \in Request : req[r].pc # "idle" /\ req[r].need = ManageUsers
                                => req[r].actor \in Administrators

(* What a write set ends has no holders, and it gives no role that ended. *)
NoStrip(w) ==
    /\ w.ended = {} \/ w.given = {}
    /\ \A k \in w.ended : Holders(k) = {}
    /\ \A u \in User, k \in Role : <<u, k>> \in w.given => k \notin dropped

Kept ==
    /\ NoSilentStripping
    /\ ~overlapped => \A r \in Request : NoStrip(req[r].writes)

IInv == TypeOK /\ Wizard /\ NobodyActsBeforeOnboarding /\ Whole /\ Alone /\ Staffed /\ Kept

-----------------------------------------------------------------------------
(* An idle request is typed and writes nothing. *)
LEMMA IdleFacts ==
  /\ Nothing \in WriteSet
  /\ Idle \in [pc: {"idle", "begun", "ready"}, actor: User \cup {NoUser},
               need: Permission, writes: WriteSet]
  /\ Idle.pc = "idle" /\ Idle.writes = Nothing
  /\ SparesBoot(Nothing) /\ Placed(Nothing) /\ NoStrip(Nothing) /\ SparesCaller(Idle)
<1>1. Nothing \in WriteSet
  BY DEF Nothing, WriteSet
<1>2. Idle \in [pc: {"idle", "begun", "ready"}, actor: User \cup {NoUser},
                need: Permission, writes: WriteSet]
  BY <1>1, DirectoryAssumption DEF Idle
<1>3. SparesBoot(Nothing) /\ Placed(Nothing) /\ NoStrip(Nothing) /\ SparesCaller(Idle)
  BY DEF SparesBoot, Placed, NoStrip, SparesCaller, Idle, Nothing
<1> QED  BY <1>1, <1>2, <1>3 DEF Idle

(* Before anything has happened the invariant holds. *)
LEMMA InitInv == Init => IInv
<1> SUFFICES ASSUME Init PROVE IInv
  OBVIOUS
<1>1. TypeOK
  <2>1. TablesOK
    BY DEF Init, SetupInit, Empty, TablesOK
  <2>2. SetupOK
    BY DEF Init, SetupInit, Empty, SetupOK, NoSubmission
  <2>3. 0 \in 0..Limit
    BY RequestAssumption
  <2> QED  BY IdleFacts, <2>1, <2>2, <2>3 DEF Init, TypeOK
<1>2. Wizard
  BY DEF Init, SetupInit, Empty, Wizard, OnboardedOnce, GateIsHonest, Stored, NoSubmission
<1>3. NobodyActsBeforeOnboarding /\ Alone
  BY IdleFacts DEF Init, NobodyActsBeforeOnboarding, Alone
<1>4. Whole
  BY IdleFacts DEF Init, SetupInit, Empty, Whole, SuperAdminWhole
<1>5. Staffed
  BY IdleFacts DEF Init, SetupInit, Empty, Staffed, Administrable
<1>6. Kept
  BY IdleFacts DEF Init, SetupInit, Empty, Kept, NoSilentStripping
<1> QED  BY <1>1, <1>2, <1>3, <1>4, <1>5, <1>6 DEF IInv

(* The parts of the invariant that speak of tables and requests only. *)
Rest == Whole /\ NobodyActsBeforeOnboarding /\ Alone /\ Staffed /\ Kept

LEMMA RestKept ==
  ASSUME IInv, UNCHANGED <<tables, completed, adminVars>>
  PROVE  Rest'
BY DEF IInv, Rest, tables, adminVars, Whole, SuperAdminWhole, SparesBoot, Placed, LiveRoles,
       NobodyActsBeforeOnboarding, Alone, Staffed, Administrable, SparesCaller,
       Administrators, LiveUsers, Kept, NoSilentStripping, NoStrip, Holders

(* Steps of the wizard and the gate that commit nothing. *)
LEMMA WizardStep ==
  ASSUME IInv, UNCHANGED adminVars,
         \/ \E s \in Submission : Submit(s) \/ AddAccount(s) \/ Store(s) \/ FailSubmission(s)
         \/ \E p \in Process : CheckGate(p) \/ Restart(p)
  PROVE  IInv'
<1>1. UNCHANGED <<tables, completed, adminVars>>
  BY DEF Submit, AddAccount, Store, FailSubmission, CheckGate, Restart
<1>2. TypeOK'
  <2>1. TablesOK' /\ (req \in [Request -> [pc: {"idle", "begun", "ready"}, actor: User \cup {NoUser},
                               need: Permission, writes: WriteSet]])'
        /\ (served \in 0..Limit)' /\ (overlapped \in BOOLEAN /\ delegated \in BOOLEAN)'
    BY <1>1 DEF IInv, TypeOK, TablesOK, tables, adminVars
  <2>2. SetupOK'
    <3>1. founders' \in SUBSET accounts' /\ late' \in SUBSET founders' /\ completed' \in BOOLEAN
      BY <1>1 DEF IInv, TypeOK, SetupOK, tables, Submit, AddAccount, Store, FailSubmission, CheckGate, Restart
    <3>2. CASE \E s \in Submission : Submit(s)
      BY <3>1, <3>2 DEF IInv, TypeOK, SetupOK, Submit
    <3>6. CASE \E s \in Submission : AddAccount(s)
      BY <3>1, <3>6 DEF IInv, TypeOK, SetupOK, Wizard, AddAccount
    <3>3. CASE \E s \in Submission : Store(s)
      BY <3>1, <3>3 DEF IInv, TypeOK, SetupOK, Wizard, Store
    <3>4. CASE \E s \in Submission : FailSubmission(s)
      BY <3>1, <3>4 DEF IInv, TypeOK, SetupOK, Wizard, FailSubmission, NoSubmission
    <3>5. CASE \E p \in Process : CheckGate(p) \/ Restart(p)
      BY <3>1, <3>5 DEF IInv, TypeOK, SetupOK, CheckGate, Restart
    <3> QED  BY <3>2, <3>3, <3>4, <3>5, <3>6
  <2> QED  BY <2>1, <2>2 DEF TypeOK
<1>3. Wizard'
  <2>1. OnboardedOnce'
    BY <1>1 DEF IInv, Wizard, OnboardedOnce, tables, Submit, AddAccount, Store, FailSubmission,
                CheckGate, Restart
  <2>2. CASE \E s \in Submission : Submit(s)
    BY <2>1, <2>2 DEF IInv, TypeOK, SetupOK, Wizard, GateIsHonest, Stored, Submit
  <2>7. CASE \E s \in Submission : AddAccount(s)
    BY <2>1, <2>7 DEF IInv, TypeOK, SetupOK, Wizard, GateIsHonest, Stored, AddAccount
  <2>3. CASE \E s \in Submission : Store(s)
    BY <2>1, <2>3 DEF IInv, TypeOK, SetupOK, Wizard, GateIsHonest, Stored, Store
  <2>4. CASE \E s \in Submission : FailSubmission(s)
    BY <2>1, <2>4 DEF IInv, TypeOK, SetupOK, Wizard, GateIsHonest, Stored, FailSubmission,
                      NoSubmission
  <2>5. CASE \E p \in Process : CheckGate(p)
    BY <2>1, <2>5 DEF IInv, TypeOK, SetupOK, Wizard, GateIsHonest, Stored, CheckGate
  <2>6. CASE \E p \in Process : Restart(p)
    BY <2>1, <2>6 DEF IInv, TypeOK, SetupOK, Wizard, GateIsHonest, Stored, Restart
  <2> QED  BY <2>2, <2>3, <2>4, <2>5, <2>6, <2>7
<1>4. Rest'
  BY <1>1, RestKept
<1> QED  BY <1>2, <1>3, <1>4 DEF IInv, Rest

(* What seeding writes. *)
LEMMA SeedsFacts ==
  ASSUME TablesOK
  PROVE  /\ Seeds \in WriteSet
         /\ Seeds.made = {} /\ Seeds.gone = {} /\ Seeds.on = {} /\ Seeds.off = {}
         /\ Seeds.given = {} /\ Seeds.taken = {} /\ Seeds.ended = {} /\ Seeds.revoked = {}
         /\ Seeds.begun = System \ roles
         /\ Seeds.granted = ({Boot} \X Permission) \ grants
BY DirectoryAssumption DEF Seeds, Nothing, WriteSet, TablesOK

(* The wizard commits another account, with nothing taken from anybody:    *)
(* the first one, or one whose submission found the settings of another.   *)
LEMMA FoundingStep ==
  ASSUME IInv, UNCHANGED adminVars, NEW s \in Submission, CommitSubmission(s)
  PROVE  IInv'
<1> DEFINE u == sub[s].who
<1>1. /\ u \in User /\ u \notin accounts /\ founders \subseteq accounts
      /\ s \in Stored /\ \A t \in Stored : t = s
      /\ completed <=> sub[s].found
  BY SeedsFacts DEF IInv, TypeOK, SetupOK, Wizard, Stored, CommitSubmission, Apply, Unique,
                    Founding, Seeds, Nothing
<1>2. /\ accounts' = accounts \cup {u} /\ removed' = removed /\ dropped' = dropped
      /\ active' = active \cup {u}
      /\ holds' = holds \cup {<<u, Boot>>}
      /\ roles' = roles \cup (System \ roles)
      /\ grants' = grants \cup (({Boot} \X Permission) \ grants)
  BY <1>1, SeedsFacts DEF CommitSubmission, Apply, Founding, Seeds, Nothing, IInv, TypeOK, TablesOK
<1>3. /\ completed' = TRUE /\ founders' = founders \cup {u} /\ open' = open /\ early' = early
      /\ late' = IF completed THEN late \cup {u} ELSE late
      /\ sub' = [sub EXCEPT ![s] = NoSubmission]
  BY <1>1 DEF CommitSubmission
<1>4. UNCHANGED <<req, served, overlapped, delegated>>
  BY DEF adminVars
<1>5. TypeOK'
  <2>1. TablesOK'
    BY <1>1, <1>2, DirectoryAssumption DEF IInv, TypeOK, TablesOK
  <2>2. SetupOK'
    BY <1>1, <1>2, <1>3 DEF IInv, TypeOK, SetupOK, NoSubmission
  <2> QED  BY <1>4, <2>1, <2>2 DEF IInv, TypeOK
<1>6. Wizard'
  <2>1. Stored' = {}
    BY <1>1, <1>3 DEF IInv, TypeOK, SetupOK, Stored, NoSubmission
  <2>2. \A v, w \in founders' \ late' : v = w
    <3>1. CASE completed
      <4>1. founders' \ late' \subseteq founders \ late
        BY <1>3, <3>1
      <4> QED  BY <4>1 DEF IInv, Wizard, OnboardedOnce
    <3>2. CASE ~completed
      BY <1>3, <3>2 DEF IInv, Wizard, OnboardedOnce
    <3> QED  BY <3>1, <3>2
  <2>3. OnboardedOnce' /\ GateIsHonest'
    BY <1>2, <1>3, <2>2 DEF OnboardedOnce, GateIsHonest
  <2> QED  BY <1>3, <2>1, <2>3 DEF IInv, TypeOK, SetupOK, Wizard, NoSubmission
<1>7. NobodyActsBeforeOnboarding' /\ Alone'
  BY <1>3, <1>4 DEF IInv, NobodyActsBeforeOnboarding, Alone
<1>8. Whole'
  <2>1. Boot \notin dropped' /\ SuperAdminWhole'
    BY <1>2, DirectoryAssumption DEF IInv, Whole, SuperAdminWhole, LiveRoles
  <2>2. \A r \in Request : SparesBoot(req'[r].writes)
    BY <1>4 DEF IInv, Whole
  <2>3. \A r \in Request : Placed(req[r].writes)'
    BY <1>2, <1>4 DEF IInv, Whole, Placed
  <2> QED  BY <2>1, <2>2, <2>3 DEF Whole, SparesBoot
<1>9. Staffed'
  <2>1. Administrators \subseteq Administrators' /\ u \in Administrators'
    BY <1>1, <1>2 DEF Administrators, LiveUsers, IInv, TypeOK, TablesOK
  <2>2. ~delegated' => \A k \in Role : <<k, ManageUsers>> \in grants' => k = Boot
    BY <1>2, <1>4 DEF IInv, Staffed
  <2>3. (\A r \in Request : SparesCaller(req[r]))'
    BY <1>4 DEF IInv, Staffed, SparesCaller
  <2> QED  BY <1>4, <2>1, <2>2, <2>3 DEF IInv, Staffed, Administrable
<1>10. Kept'
  <2>1. \A k \in Role \ {Boot} : Holders(k)' = Holders(k)
    BY <1>2 DEF Holders
  <2>2. NoSilentStripping'
    BY <1>2, <1>4, <2>1 DEF IInv, TypeOK, TablesOK, Whole, Kept, NoSilentStripping
  <2>3. \A r \in Request : Boot \notin req[r].writes.ended /\ req[r].writes.ended \in SUBSET Role
    BY DEF IInv, Whole, SparesBoot, TypeOK, WriteSet
  <2>4. ASSUME ~overlapped', NEW r \in Request PROVE NoStrip(req[r].writes)'
    BY <1>2, <1>4, <2>1, <2>3, <2>4 DEF IInv, Kept, NoStrip
  <2> QED  BY <2>2, <2>4 DEF Kept
<1> QED  BY <1>5, <1>6, <1>7, <1>8, <1>9, <1>10 DEF IInv

(* A container start seeds. *)
LEMMA SeedStep ==
  ASSUME IInv, UNCHANGED adminVars, SeedAtStart
  PROVE  IInv'
<1>1. /\ UNCHANGED <<accounts, removed, active, holds, dropped>>
      /\ roles' = roles \cup (System \ roles)
      /\ grants' = grants \cup (({Boot} \X Permission) \ grants)
  BY SeedsFacts DEF IInv, TypeOK, SeedAtStart, Apply
<1>2. UNCHANGED <<completed, open, sub, founders, late, early, req, served, overlapped, delegated>>
  BY DEF SeedAtStart, setupVars, adminVars
<1>3. TypeOK'
  <2>1. TablesOK'
    BY <1>1, DirectoryAssumption DEF IInv, TypeOK, TablesOK
  <2> QED  BY <1>1, <1>2, <2>1 DEF IInv, TypeOK, SetupOK
<1>4. Wizard'
  BY <1>1, <1>2 DEF IInv, Wizard, OnboardedOnce, GateIsHonest, Stored
<1>5. NobodyActsBeforeOnboarding' /\ Alone'
  BY <1>2 DEF IInv, NobodyActsBeforeOnboarding, Alone
<1>6. Whole'
  BY <1>1, <1>2 DEF IInv, Whole, SuperAdminWhole, LiveRoles, SparesBoot, Placed
<1>7. Staffed'
  <2>1. Administrators' = Administrators
    BY <1>1 DEF Administrators, LiveUsers
  <2>2. ~delegated' => \A k \in Role : <<k, ManageUsers>> \in grants' => k = Boot
    BY <1>1, <1>2 DEF IInv, Staffed
  <2> QED  BY <1>2, <2>1, <2>2 DEF IInv, Staffed, Administrable, SparesCaller
<1>8. Kept'
  BY <1>1, <1>2 DEF IInv, Kept, NoSilentStripping, NoStrip, Holders
<1> QED  BY <1>3, <1>4, <1>5, <1>6, <1>7, <1>8 DEF IInv

(* Steps that leave the tables and the settings alone and open a gate only *)
(* of an onboarded instance keep what is said of the wizard.               *)
LEMMA WizardKept ==
  ASSUME IInv, UNCHANGED <<tables, completed, sub, founders, late, early>>,
         \A p \in Process : open'[p] => open[p] \/ completed
  PROVE  Wizard'
BY DEF IInv, Wizard, OnboardedOnce, GateIsHonest, Stored, tables

(* A request is let in. *)
LEMMA BeginStep ==
  ASSUME IInv, NEW r \in Request, Begin(r)
  PROVE  IInv'
<1>1. PICK p \in Process, u \in LiveUsers \cap active, need \in Permission :
        /\ open[p] \/ completed
        /\ need \in PermissionsOf(u)
        /\ open' = [open EXCEPT ![p] = TRUE]
        /\ req' = [req EXCEPT ![r] = [pc |-> "begun", actor |-> u, need |-> need,
                                      writes |-> Nothing]]
  BY DEF Begin
<1> DEFINE x == [pc |-> "begun", actor |-> u, need |-> need, writes |-> Nothing]
<1>2. /\ UNCHANGED <<tables, completed, sub, founders, late, early, delegated>>
      /\ UNCHANGED <<accounts, removed, active, holds, roles, dropped, grants>>
      /\ overlapped' = (overlapped \/ \E q \in Request : req[q].pc # "idle")
      /\ served < Limit /\ served' = served + 1
  BY DEF Begin, tables
<1>3. /\ req' \in [Request -> [pc: {"idle", "begun", "ready"}, actor: User \cup {NoUser},
                               need: Permission, writes: WriteSet]]
      /\ req'[r] = x
      /\ \A q \in Request \ {r} : req'[q] = req[q]
  <2>1. u \in User
    BY DEF LiveUsers, IInv, TypeOK, TablesOK
  <2> QED  BY <1>1, <2>1, IdleFacts DEF IInv, TypeOK
<1>4. completed
  BY <1>1 DEF IInv, Wizard, OnboardedOnce, LiveUsers
<1>5. TypeOK'
  <2>1. served' \in 0..Limit
    BY <1>2, RequestAssumption DEF IInv, TypeOK
  <2>2. overlapped' \in BOOLEAN /\ delegated' \in BOOLEAN
    BY <1>2 DEF IInv, TypeOK
  <2>3. SetupOK' /\ TablesOK'
    BY <1>1, <1>2 DEF IInv, TypeOK, SetupOK, TablesOK
  <2> QED  BY <1>3, <2>1, <2>2, <2>3 DEF TypeOK
<1>6. Wizard'
  <2>1. \A o \in Process : open'[o] => open[o] \/ completed
    BY <1>1, <1>4 DEF IInv, TypeOK, SetupOK
  <2> QED  BY <1>2, <2>1, WizardKept
<1>7. NobodyActsBeforeOnboarding'
  BY <1>2, <1>4 DEF NobodyActsBeforeOnboarding
<1>8. Whole'
  BY <1>2, <1>3, IdleFacts DEF IInv, Whole, SuperAdminWhole, LiveRoles, SparesBoot, Placed
<1>9. ~overlapped' => ~overlapped /\ \A q \in Request \ {r} : req'[q].pc = "idle"
  BY <1>2, <1>3
<1>10. Alone'
  BY <1>3, <1>9 DEF IInv, Alone
<1>11. Staffed'
  <2>1. Administrators' = Administrators
    BY <1>2 DEF Administrators, LiveUsers
  <2>2. SparesCaller(x)
    BY DEF SparesCaller, Nothing
  <2>3. (\A q \in Request : SparesCaller(req[q]))'
    BY <1>3, <2>2 DEF IInv, Staffed, SparesCaller
  <2>4. ~delegated /\ need = ManageUsers => u \in Administrators
    <3> SUFFICES ASSUME ~delegated, need = ManageUsers PROVE u \in Administrators
      OBVIOUS
    <3>1. PICK k \in Role : <<u, k>> \in holds /\ <<k, ManageUsers>> \in grants
      BY <1>1 DEF PermissionsOf, RolesOf
    <3>2. k = Boot
      BY <3>1 DEF IInv, Staffed
    <3> QED  BY <3>1, <3>2 DEF Administrators
  <2>5. ~overlapped' /\ ~delegated' =>
          \A q \in Request : req'[q].pc # "idle" /\ req'[q].need = ManageUsers
                                => req'[q].actor \in Administrators'
    BY <1>2, <1>3, <1>9, <2>1, <2>4
  <2>6. Administrable'
    BY <1>2, <1>9, <2>1 DEF IInv, Staffed, Administrable
  <2> QED  BY <1>2, <2>3, <2>5, <2>6 DEF IInv, Staffed
<1>12. Kept'
  BY <1>2, <1>3, <1>9, IdleFacts DEF IInv, Kept, NoSilentStripping, NoStrip, Holders
<1> QED  BY <1>5, <1>6, <1>7, <1>8, <1>10, <1>11, <1>12 DEF IInv

(* A handler leaves a write set to its commit. *)
LEMMA ReadyStep ==
  ASSUME IInv, NEW r \in Request, NEW w \in WriteSet, Ready(r, w), req[r].pc # "idle",
         SparesBoot(w), Placed(w), NoStrip(w),
         \/ w.off = {} /\ w.gone = {} /\ w.taken = {}
         \/ /\ req[r].need = ManageUsers
            /\ req[r].actor \notin w.off \cup w.gone /\ <<req[r].actor, Boot>> \notin w.taken
  PROVE  IInv'
<1>1. /\ UNCHANGED <<tables, setupVars, served, overlapped, delegated>>
      /\ UNCHANGED <<accounts, removed, active, holds, roles, dropped, grants>>
      /\ UNCHANGED <<completed, open, sub, founders, late, early>>
  BY DEF Ready, tables, setupVars
<1> DEFINE x == [pc |-> "ready", actor |-> req[r].actor, need |-> req[r].need, writes |-> w]
<1>2. /\ req' \in [Request -> [pc: {"idle", "begun", "ready"}, actor: User \cup {NoUser},
                               need: Permission, writes: WriteSet]]
      /\ req'[r].pc = "ready" /\ req'[r].writes = w
      /\ req'[r].actor = req[r].actor /\ req'[r].need = req[r].need
      /\ \A q \in Request \ {r} : req'[q] = req[q]
  BY DEF Ready, IInv, TypeOK
<1>3. TypeOK'
  BY <1>1, <1>2 DEF IInv, TypeOK, SetupOK, TablesOK
<1>4. Wizard'
  BY <1>1, WizardKept
<1>5. NobodyActsBeforeOnboarding' /\ Alone'
  BY <1>1, <1>2 DEF IInv, NobodyActsBeforeOnboarding, Alone
<1>6. Whole'
  BY <1>1, <1>2 DEF IInv, Whole, SuperAdminWhole, LiveRoles, SparesBoot, Placed
<1>7. Staffed'
  <2>1. Administrators' = Administrators
    BY <1>1 DEF Administrators, LiveUsers
  <2>2. (\A q \in Request : SparesCaller(req[q]))'
    BY <1>2 DEF IInv, Staffed, SparesCaller
  <2> QED  BY <1>1, <1>2, <2>1, <2>2 DEF IInv, Staffed, Administrable
<1>8. Kept'
  BY <1>1, <1>2 DEF IInv, Kept, NoSilentStripping, NoStrip, Holders
<1> QED  BY <1>3, <1>4, <1>5, <1>6, <1>7, <1>8 DEF IInv

(* Each handler leaves a write set that fits. *)
LEMMA CreateUserStep ==
  ASSUME IInv, NEW r \in Request, CreateUser(r)
  PROVE  IInv'
<1>1. PICK u \in User \ accounts, keys \in SUBSET LiveRoles :
        Ready(r, [Nothing EXCEPT !.made = {u}, !.on = {u}, !.given = {u} \X keys])
  BY DEF CreateUser
<1> DEFINE w == [Nothing EXCEPT !.made = {u}, !.on = {u}, !.given = {u} \X keys]
<1>2. keys \in SUBSET Role
  BY DEF IInv, TypeOK, TablesOK, LiveRoles
<1>3. w \in WriteSet
  BY <1>2 DEF Nothing, WriteSet
<1>4. SparesBoot(w) /\ Placed(w) /\ NoStrip(w)
  BY DEF SparesBoot, Placed, NoStrip, Nothing, LiveRoles
<1>5. w.off = {} /\ w.gone = {} /\ w.taken = {}
  BY DEF Nothing
<1> HIDE DEF w
<1> QED  BY <1>1, <1>3, <1>4, <1>5, ReadyStep DEF CreateUser, Handles, w

LEMMA UpdateUserStep ==
  ASSUME IInv, NEW r \in Request, UpdateUser(r)
  PROVE  IInv'
<1>1. req[r].pc = "begun" /\ req[r].need = ManageUsers
  BY DEF UpdateUser, Handles
<1>2. PICK u \in LiveUsers, status \in {"unchanged", "active", "inactive"} :
        /\ status = "inactive" => u # req[r].actor
        /\ \/ Ready(r, StatusWrites(u, status))
           \/ \E keys \in SUBSET LiveRoles :
                 /\ u = req[r].actor => Boot \in keys
                 /\ Ready(r, RoleWrites(StatusWrites(u, status), u, keys))
  BY DEF UpdateUser
<1>3. u \in User /\ RolesOf(u) \in SUBSET Role
  BY DEF IInv, TypeOK, TablesOK, LiveUsers, RolesOf
<1> DEFINE v == StatusWrites(u, status)
<1>4. /\ v \in WriteSet
      /\ v.gone = {} /\ v.given = {} /\ v.taken = {} /\ v.ended = {} /\ v.revoked = {}
      /\ v.on \in SUBSET {u} /\ v.made = {}
      /\ v.off \in SUBSET {u} /\ (status # "inactive" => v.off = {})
  BY <1>3 DEF StatusWrites, Nothing, WriteSet
<1>5. req[r].actor \notin v.off \cup v.gone
  BY <1>2, <1>4
<1>6. CASE Ready(r, v)
  <2>1. SparesBoot(v) /\ Placed(v) /\ NoStrip(v)
    BY <1>2, <1>4 DEF SparesBoot, Placed, NoStrip, LiveUsers
  <2> HIDE DEF v
  <2> QED  BY <1>1, <1>4, <1>5, <1>6, <2>1, ReadyStep
<1>7. ASSUME NEW keys \in SUBSET LiveRoles, u = req[r].actor => Boot \in keys,
             Ready(r, RoleWrites(v, u, keys))
      PROVE  IInv'
  <2> DEFINE w == RoleWrites(v, u, keys)
  <2>1. keys \in SUBSET Role /\ \A k \in keys : k \notin dropped
    BY DEF IInv, TypeOK, TablesOK, LiveRoles
  <2> HIDE DEF v
  <2>2. /\ w.made = v.made /\ w.on = v.on /\ w.off = v.off /\ w.gone = v.gone /\ w.ended = v.ended /\ w.revoked = v.revoked
        /\ w.given = {u} \X (keys \ RolesOf(u)) /\ w.taken = {u} \X (RolesOf(u) \ keys)
    BY <1>4 DEF RoleWrites, WriteSet
  <2>3. w \in WriteSet
    BY <1>3, <1>4, <2>1 DEF RoleWrites, WriteSet
  <2> HIDE DEF w
  <2>4. SparesBoot(w) /\ Placed(w) /\ NoStrip(w)
    BY <1>2, <1>4, <2>1, <2>2 DEF SparesBoot, Placed, NoStrip, LiveUsers
  <2>5. <<req[r].actor, Boot>> \notin w.taken
    BY <1>7, <2>2
  <2> QED  BY <1>1, <1>5, <1>7, <2>2, <2>3, <2>4, <2>5, ReadyStep DEF w
<1> QED  BY <1>2, <1>6, <1>7

LEMMA DeleteUserStep ==
  ASSUME IInv, NEW r \in Request, DeleteUser(r)
  PROVE  IInv'
<1>1. PICK u \in LiveUsers \ {req[r].actor} :
        Ready(r, [Nothing EXCEPT !.gone = {u}, !.off = {u} \cap active])
  BY DEF DeleteUser
<1> DEFINE w == [Nothing EXCEPT !.gone = {u}, !.off = {u} \cap active]
<1>2. w \in WriteSet
  BY DEF Nothing, WriteSet, IInv, TypeOK, TablesOK, LiveUsers
<1>3. SparesBoot(w) /\ Placed(w) /\ NoStrip(w)
  BY DEF SparesBoot, Placed, NoStrip, Nothing, LiveUsers
<1>4. req[r].actor \notin w.off \cup w.gone /\ <<req[r].actor, Boot>> \notin w.taken
  BY DEF Nothing
<1> HIDE DEF w
<1> QED  BY <1>1, <1>2, <1>3, <1>4, ReadyStep DEF DeleteUser, Handles, w

LEMMA CreateRoleStep ==
  ASSUME IInv, NEW r \in Request, CreateRole(r)
  PROVE  IInv'
<1>1. PICK k \in Role \ roles, perms \in SUBSET Permission :
        Ready(r, [Nothing EXCEPT !.begun = {k}, !.granted = {k} \X perms])
  BY DEF CreateRole
<1> DEFINE w == [Nothing EXCEPT !.begun = {k}, !.granted = {k} \X perms]
<1>2. w \in WriteSet
  BY DEF Nothing, WriteSet
<1>3. SparesBoot(w) /\ Placed(w) /\ NoStrip(w)
  BY DEF SparesBoot, Placed, NoStrip, Nothing, LiveUsers
<1>4. w.off = {} /\ w.gone = {} /\ w.taken = {}
  BY DEF Nothing
<1> HIDE DEF w
<1> QED  BY <1>1, <1>2, <1>3, <1>4, ReadyStep DEF CreateRole, Handles, w

LEMMA UpdateRoleStep ==
  ASSUME IInv, NEW r \in Request, UpdateRole(r)
  PROVE  IInv'
<1>1. PICK k \in LiveRoles \ {Boot}, perms \in SUBSET Permission :
        Ready(r, [Nothing EXCEPT !.granted = {k} \X (perms \ GrantsOf(k)),
                                 !.revoked = {k} \X (GrantsOf(k) \ perms)])
  BY DEF UpdateRole
<1> DEFINE w == [Nothing EXCEPT !.granted = {k} \X (perms \ GrantsOf(k)),
                                !.revoked = {k} \X (GrantsOf(k) \ perms)]
<1>2. k \in Role /\ GrantsOf(k) \in SUBSET Permission
  BY DEF IInv, TypeOK, TablesOK, LiveRoles, GrantsOf
<1>3. w \in WriteSet
  BY <1>2 DEF Nothing, WriteSet
<1>4. SparesBoot(w) /\ Placed(w) /\ NoStrip(w)
  BY DEF SparesBoot, Placed, NoStrip, Nothing, LiveUsers
<1>5. w.off = {} /\ w.gone = {} /\ w.taken = {}
  BY DEF Nothing
<1> HIDE DEF w
<1> QED  BY <1>1, <1>3, <1>4, <1>5, ReadyStep DEF UpdateRole, Handles, w

LEMMA DeleteRoleStep ==
  ASSUME IInv, NEW r \in Request, DeleteRole(r)
  PROVE  IInv'
<1>1. PICK k \in LiveRoles \ System :
        Holders(k) = {} /\ Ready(r, [Nothing EXCEPT !.ended = {k}])
  BY DEF DeleteRole
<1> DEFINE w == [Nothing EXCEPT !.ended = {k}]
<1>2. w \in WriteSet
  BY DEF Nothing, WriteSet, IInv, TypeOK, TablesOK, LiveRoles
<1>3. SparesBoot(w) /\ Placed(w) /\ NoStrip(w)
  BY <1>1, DirectoryAssumption DEF SparesBoot, Placed, NoStrip, Nothing, LiveRoles
<1>4. w.off = {} /\ w.gone = {} /\ w.taken = {}
  BY DEF Nothing
<1> HIDE DEF w
<1> QED  BY <1>1, <1>2, <1>3, <1>4, ReadyStep DEF DeleteRole, Handles, w

(* A request ends without effect. *)
LEMMA FailStep ==
  ASSUME IInv, NEW r \in Request, Fail(r)
  PROVE  IInv'
<1>1. /\ UNCHANGED <<tables, setupVars, served, overlapped, delegated>>
      /\ UNCHANGED <<accounts, removed, active, holds, roles, dropped, grants>>
      /\ UNCHANGED <<completed, open, sub, founders, late, early>>
  BY DEF Fail, tables, setupVars
<1>2. /\ req' \in [Request -> [pc: {"idle", "begun", "ready"}, actor: User \cup {NoUser},
                               need: Permission, writes: WriteSet]]
      /\ req'[r] = Idle /\ \A q \in Request \ {r} : req'[q] = req[q]
  BY IdleFacts DEF Fail, IInv, TypeOK
<1>3. TypeOK'
  BY <1>1, <1>2 DEF IInv, TypeOK, SetupOK, TablesOK
<1>4. Wizard'
  BY <1>1, WizardKept
<1>5. NobodyActsBeforeOnboarding' /\ Alone'
  BY <1>1, <1>2, IdleFacts DEF IInv, NobodyActsBeforeOnboarding, Alone
<1>6. Whole'
  BY <1>1, <1>2, IdleFacts DEF IInv, Whole, SuperAdminWhole, LiveRoles, SparesBoot, Placed
<1>7. Staffed'
  <2>1. Administrators' = Administrators
    BY <1>1 DEF Administrators, LiveUsers
  <2>2. (\A q \in Request : SparesCaller(req[q]))'
    BY <1>2, IdleFacts DEF IInv, Staffed, SparesCaller
  <2> QED  BY <1>1, <1>2, <2>1, <2>2, IdleFacts DEF IInv, Staffed, Administrable
<1>8. Kept'
  BY <1>1, <1>2, IdleFacts DEF IInv, Kept, NoSilentStripping, NoStrip, Holders
<1> QED  BY <1>3, <1>4, <1>5, <1>6, <1>7, <1>8 DEF IInv

(* A request commits its write set.  If requests do not overlap, it is the *)
(* only one, and nothing has changed since it was let in.                  *)
LEMMA CommitStep ==
  ASSUME IInv, NEW r \in Request, Commit(r)
  PROVE  IInv'
<1> DEFINE w == req[r].writes
<1>1. /\ req[r].pc = "ready" /\ completed /\ accounts # {}
      /\ w \in WriteSet /\ SparesBoot(w) /\ Placed(w)
  BY DEF Commit, IInv, TypeOK, NobodyActsBeforeOnboarding, Wizard, OnboardedOnce, SetupOK, Whole
<1>2. /\ accounts' = accounts \cup w.made /\ removed' = removed \cup w.gone
      /\ active' = (active \cup w.on) \ w.off
      /\ holds' = (holds \ w.taken) \cup w.given
      /\ roles' = roles \cup w.begun /\ dropped' = dropped \cup w.ended
      /\ grants' = (grants \ w.revoked) \cup w.granted
  BY DEF Commit, Apply
<1>3. /\ UNCHANGED <<completed, open, sub, founders, late, early, served, overlapped>>
      /\ delegated' = (delegated \/ \E k \in Role \ {Boot} : <<k, ManageUsers>> \in w.granted)
  BY DEF Commit, setupVars
<1>4. /\ req' \in [Request -> [pc: {"idle", "begun", "ready"}, actor: User \cup {NoUser},
                               need: Permission, writes: WriteSet]]
      /\ req'[r] = Idle /\ \A q \in Request \ {r} : req'[q] = req[q]
  BY IdleFacts DEF Commit, IInv, TypeOK
<1>5. ~overlapped => \A q \in Request : req'[q].pc = "idle"
  BY <1>1, <1>4, IdleFacts DEF IInv, Alone
<1> HIDE DEF w
<1>6. TypeOK'
  <2>1. TablesOK'
    <3>1. accounts' \in SUBSET User /\ removed' \in SUBSET accounts' /\ active' \in SUBSET accounts'
      BY <1>1, <1>2 DEF IInv, TypeOK, TablesOK, WriteSet, Placed
    <3>2. roles' \in SUBSET Role /\ dropped' \in SUBSET roles'
      BY <1>1, <1>2 DEF IInv, TypeOK, TablesOK, WriteSet, Placed
    <3>3. holds' \in SUBSET (User \X Role) /\ grants' \in SUBSET (Role \X Permission)
      BY <1>1, <1>2 DEF IInv, TypeOK, TablesOK, WriteSet
    <3> QED  BY <3>1, <3>2, <3>3 DEF TablesOK
  <2>2. SetupOK'
    BY <1>2, <1>3 DEF IInv, TypeOK, SetupOK
  <2>3. (served \in 0..Limit)' /\ (overlapped \in BOOLEAN)' /\ (delegated \in BOOLEAN)'
    BY <1>3 DEF IInv, TypeOK
  <2> QED  BY <1>4, <2>1, <2>2, <2>3 DEF TypeOK
<1>7. Wizard'
  BY <1>1, <1>3 DEF IInv, Wizard, OnboardedOnce, GateIsHonest, Stored
<1>8. NobodyActsBeforeOnboarding' /\ Alone'
  BY <1>1, <1>3, <1>4, <1>5, IdleFacts DEF IInv, NobodyActsBeforeOnboarding, Alone
<1>9. Whole'
  <2>1. Boot \notin dropped'
    BY <1>1, <1>2 DEF IInv, Whole, SparesBoot
  <2>2. SuperAdminWhole'
    BY <1>1, <1>2, <1>3, <2>1 DEF IInv, Whole, SuperAdminWhole, SparesBoot, LiveRoles
  <2>3. \A q \in Request : SparesBoot(req'[q].writes)
    BY <1>4, IdleFacts DEF IInv, Whole
  <2>4. \A q \in Request : Placed(req[q].writes)'
    BY <1>2, <1>4, IdleFacts DEF IInv, Whole, Placed, Nothing
  <2> QED  BY <2>1, <2>2, <2>3, <2>4 DEF Whole, SparesBoot
<1>10. Staffed'
  <2>1. ~delegated' => \A k \in Role : <<k, ManageUsers>> \in grants' => k = Boot
    BY <1>2, <1>3 DEF IInv, Staffed
  <2>2. (\A q \in Request : SparesCaller(req[q]))'
    BY <1>4, IdleFacts DEF IInv, Staffed, SparesCaller
  <2>3. ASSUME ~overlapped, ~delegated' PROVE Administrators' # {}
    <3>1. ~delegated
      BY <1>3, <2>3
    <3>2. CASE w.off = {} /\ w.gone = {} /\ w.taken = {}
      <4>1. Administrators # {}
        BY <1>1, <2>3, <3>1 DEF IInv, Staffed, Administrable
      <4>2. Administrators \subseteq Administrators'
        BY <1>2, <3>2 DEF Administrators, LiveUsers
      <4> QED  BY <4>1, <4>2
    <3>3. CASE ~(w.off = {} /\ w.gone = {} /\ w.taken = {})
      <4>1. /\ req[r].need = ManageUsers
            /\ req[r].actor \notin w.off \cup w.gone
            /\ <<req[r].actor, Boot>> \notin w.taken
        BY <3>3 DEF IInv, Staffed, SparesCaller, w
      <4>2. req[r].actor \in Administrators
        BY <1>1, <2>3, <3>1, <4>1 DEF IInv, Staffed
      <4>3. req[r].actor \in Administrators'
        BY <1>2, <4>1, <4>2 DEF Administrators, LiveUsers
      <4> QED  BY <4>3
    <3> QED  BY <3>2, <3>3
  <2>4. Administrable'
    BY <1>3, <2>3 DEF Administrable
  <2> QED  BY <1>3, <1>5, <2>1, <2>2, <2>4 DEF Staffed
<1>11. Kept'
  <2>1. ASSUME ~overlapped PROVE NoSilentStripping'
    <3>1. NoStrip(w) /\ \A k \in dropped : Holders(k) = {}
      BY <2>1 DEF IInv, Kept, NoSilentStripping, w
    <3>2. ASSUME NEW k \in dropped' PROVE Holders(k)' = {}
      <4>1. k \in Role /\ Holders(k) = {} /\ \A u \in User : <<u, k>> \notin w.given
        BY <1>1, <1>2, <3>1, <3>2 DEF NoStrip, IInv, TypeOK, TablesOK, WriteSet
      <4> QED  BY <1>2, <4>1 DEF Holders
    <3> QED  BY <3>2 DEF NoSilentStripping
  <2>2. ASSUME ~overlapped PROVE \A q \in Request : NoStrip(req[q].writes)'
    <3>1. ASSUME NEW q \in Request PROVE NoStrip(req[q].writes)'
      <4> SUFFICES req'[q].writes = Nothing
        BY DEF NoStrip, Nothing
      <4> QED  BY <1>4, <1>5, <2>2, <3>1, IdleFacts DEF IInv, Alone
    <3> QED  BY <3>1
  <2> QED  BY <1>3, <2>1, <2>2 DEF Kept, NoSilentStripping
<1> QED  BY <1>6, <1>7, <1>8, <1>9, <1>10, <1>11 DEF IInv

(* Every step preserves the invariant. *)
LEMMA NextInv == IInv /\ [Next]_vars => IInv'
<1> SUFFICES ASSUME IInv, [Next]_vars PROVE IInv'
  OBVIOUS
<1>1. CASE Onboard
  <2>1. UNCHANGED adminVars
    BY <1>1 DEF Onboard
  <2>2. CASE \E s \in Submission : CommitSubmission(s)
    BY <2>1, <2>2, FoundingStep
  <2>3. CASE SeedAtStart
    BY <2>1, <2>3, SeedStep
  <2> QED  BY <1>1, <2>1, <2>2, <2>3, WizardStep DEF Onboard, SetupNext
<1>2. ASSUME NEW r \in Request,
             \/ Begin(r) \/ Commit(r) \/ Fail(r)
             \/ CreateUser(r) \/ UpdateUser(r) \/ DeleteUser(r)
             \/ CreateRole(r) \/ UpdateRole(r) \/ DeleteRole(r)
      PROVE  IInv'
  BY <1>2, BeginStep, CommitStep, FailStep, CreateUserStep, UpdateUserStep, DeleteUserStep,
     CreateRoleStep, UpdateRoleStep, DeleteRoleStep
<1>3. CASE UNCHANGED vars
  <2>1. /\ UNCHANGED <<tables, completed, adminVars>>
        /\ UNCHANGED <<open, sub, founders, late, early>>
    BY <1>3 DEF vars, setupVars
  <2>2. TypeOK'
    BY <2>1 DEF IInv, TypeOK, TablesOK, SetupOK, tables, adminVars
  <2>3. Wizard'
    BY <2>1, WizardKept
  <2> QED  BY <2>1, <2>2, <2>3, RestKept DEF IInv, Rest
<1> QED  BY <1>1, <1>2, <1>3 DEF Next

THEOREM Invariance == Spec => []IInv
<1> QED  BY InitInv, NextInv, PTL DEF Spec

-----------------------------------------------------------------------------
(* The types of tables, gates, submissions and requests. *)
THEOREM TypeCorrect == Spec => []TypeOK
<1>1. IInv => TypeOK
  BY DEF IInv
<1> QED  BY <1>1, Invariance, PTL

(* Of any number of submissions on any number of processes, one founds an  *)
(* account with its own settings, every other founder has written over the *)
(* settings of another, and a failed one leaves nothing in the way.        *)
THEOREM WizardRunsOnce == Spec => []OnboardedOnce
<1>1. IInv => OnboardedOnce
  BY DEF IInv, Wizard
<1> QED  BY <1>1, Invariance, PTL

(* The cached gate is ahead of the database only through a submission that *)
(* is about to commit or has failed in that process.                       *)
THEOREM GateAheadOnlyByFailure == Spec => []GateIsHonest
<1>1. IInv => GateIsHonest
  BY DEF IInv, Wizard
<1> QED  BY <1>1, Invariance, PTL

(* An early gate lets no authenticated request in. *)
THEOREM EarlyGateIsHarmless == Spec => []NobodyActsBeforeOnboarding
<1>1. IInv => NobodyActsBeforeOnboarding
  BY DEF IInv
<1> QED  BY <1>1, Invariance, PTL

(* super_admin is never deleted or narrowed. *)
THEOREM SuperAdminStaysWhole == Spec => []SuperAdminWhole
<1>1. IInv => SuperAdminWhole
  BY DEF IInv, Whole
<1> QED  BY <1>1, Invariance, PTL

(* Requests that do not overlap leave an administrator, as long as only    *)
(* super_admin grants user:manage.                                         *)
THEOREM SomebodyAdministers == Spec => []Administrable
<1>1. IInv => Administrable
  BY DEF IInv, Staffed
<1> QED  BY <1>1, Invariance, PTL

(* Requests that do not overlap never delete a role that somebody holds.   *)
THEOREM RolesEndUnheld == Spec => []NoSilentStripping
<1>1. IInv => NoSilentStripping
  BY DEF IInv, Kept
<1> QED  BY <1>1, Invariance, PTL
=============================================================================
