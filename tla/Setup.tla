------------------------------- MODULE Setup --------------------------------
(***************************************************************************)
(* First-run onboarding: submissions of /setup/complete on several API     *)
(* processes, the seeding that every container start runs, and the gate    *)
(* that each process caches.  A submission reads, writes and commits in    *)
(* one transaction, and looks for the one row of app_setting only after it *)
(* has added its account: it inserts the row, or writes over one that      *)
(* another submission has committed meanwhile.                             *)
(***************************************************************************)
EXTENDS Directory

CONSTANTS
    Process,        \* API processes
    Submission,     \* requests to /setup/complete under way at a time
    NoProcess,
    NoUser

ASSUME SetupAssumption == NoProcess \notin Process /\ NoUser \notin User

VARIABLES
    completed,      \* app_setting.setup_completed_at is set
    open,           \* per process, setup_gate._setup_complete is True
    sub,            \* per submission: its step, its process, the account it
                    \* makes, whether it found the settings of another
    founders,       \* history: accounts that onboarding committed
    late,           \* history: of these, the ones whose submission found the
                    \* settings of another and wrote over them
    early           \* history: processes that opened the gate and then failed to commit

setupVars == <<completed, open, sub, founders, late, early>>

NoSubmission == [pc |-> "none", at |-> NoProcess, who |-> NoUser, found |-> FALSE]

SetupInit ==
    /\ Empty
    /\ completed = FALSE
    /\ open = [p \in Process |-> FALSE]
    /\ sub = [s \in Submission |-> NoSubmission]
    /\ founders = {} /\ late = {} /\ early = {}

Stored == {s \in Submission : sub[s].pc = "stored"}

(* Submissions that have added reference data and account, uncommitted. *)
Adding == {s \in Submission : sub[s].pc \in {"added", "stored"}}

(* The 410 guard, the code and password checks, and the count of accounts. *)
Submit(s) ==
    /\ sub[s].pc = "none"
    /\ ~completed /\ accounts = {}
    /\ \E p \in Process, u \in User :
          sub' = [sub EXCEPT ![s] = [pc |-> "checked", at |-> p, who |-> u, found |-> FALSE]]
    /\ UNCHANGED <<tables, completed, open, founders, late, early>>

(* Seeding and the account reach the database, uncommitted: an insert of   *)
(* the same keys by another submission waits until this one has ended.     *)
(* Then the row of app_setting is looked for, a second time.               *)
AddAccount(s) ==
    /\ sub[s].pc = "checked"
    /\ System \subseteq roles \/ Adding = {}
    /\ sub[s].who \notin accounts \cup {sub[t].who : t \in Adding}
    /\ sub' = [sub EXCEPT ![s].pc = "added", ![s].found = completed]
    /\ UNCHANGED <<tables, completed, open, founders, late, early>>

(* Mutant: app_setting is not limited to one row. *)
StoreUnguarded(s) ==
    /\ sub[s].pc = "added"
    /\ sub' = [sub EXCEPT ![s].pc = "stored"]
    /\ open' = [open EXCEPT ![sub[s].at] = TRUE]
    /\ UNCHANGED <<tables, completed, founders, late, early>>

(* The settings reach the database, uncommitted, and the process opens its *)
(* gate.  An insert or update of the row waits for another writer of it;   *)
(* an insert is refused by the unique index once a row is committed, an    *)
(* update of the row that was found is not.                                *)
Store(s) ==
    /\ sub[s].pc = "added"
    /\ Stored = {}
    /\ completed => sub[s].found
    /\ sub' = [sub EXCEPT ![s].pc = "stored"]
    /\ open' = [open EXCEPT ![sub[s].at] = TRUE]
    /\ UNCHANGED <<tables, completed, founders, late, early>>

Founding(u) == [Seeds EXCEPT !.made = {u}, !.on = {u}, !.given = {<<u, Boot>>}]

(* Mutant: the account is committed before the settings are stamped. *)
CommitUnstamped(s) ==
    /\ sub[s].pc = "stored"
    /\ Apply(Founding(sub[s].who))
    /\ founders' = founders \cup {sub[s].who}
    /\ sub' = [sub EXCEPT ![s] = NoSubmission]
    /\ UNCHANGED <<completed, open, late, early>>

CommitSubmission(s) ==
    /\ sub[s].pc = "stored"
    /\ Apply(Founding(sub[s].who))
    /\ completed' = TRUE
    /\ founders' = founders \cup {sub[s].who}
    /\ late' = IF sub[s].found THEN late \cup {sub[s].who} ELSE late
    /\ sub' = [sub EXCEPT ![s] = NoSubmission]
    /\ UNCHANGED <<open, early>>

(* A unique index refuses, issuing the session or the commit fails, or the *)
(* process dies: the transaction is rolled back.  The flag is not.         *)
FailSubmission(s) ==
    /\ sub[s].pc # "none"
    /\ early' = IF sub[s].pc = "stored" THEN early \cup {sub[s].at} ELSE early
    /\ sub' = [sub EXCEPT ![s] = NoSubmission]
    /\ UNCHANGED <<tables, completed, open, founders, late>>

(* The middleware asks the database until the answer is yes. *)
CheckGate(p) ==
    /\ ~open[p]
    /\ open' = [open EXCEPT ![p] = completed]
    /\ UNCHANGED <<tables, completed, sub, founders, late, early>>

(* A process starts again.  What it was doing has failed before. *)
Restart(p) ==
    /\ \A s \in Submission : sub[s].at # p
    /\ open' = [open EXCEPT ![p] = FALSE]
    /\ early' = early \ {p}
    /\ UNCHANGED <<tables, completed, sub, founders, late>>

(* python -m app.seed at a container start.  While a submission holds the  *)
(* same new keys uncommitted, it waits for it.                             *)
SeedAtStart ==
    /\ Adding = {} \/ System \subseteq roles
    /\ Apply(Seeds)
    /\ UNCHANGED setupVars

SetupNext ==
    \/ \E s \in Submission : \/ Submit(s) \/ AddAccount(s) \/ Store(s)
                            \/ CommitSubmission(s) \/ FailSubmission(s)
    \/ \E p \in Process : CheckGate(p) \/ Restart(p)
    \/ SeedAtStart

SetupOK ==
    /\ completed \in BOOLEAN
    /\ open \in [Process -> BOOLEAN]
    /\ sub \in [Submission -> [pc: {"none", "checked", "added", "stored"},
                               at: Process \cup {NoProcess}, who: User \cup {NoUser},
                               found: BOOLEAN]]
    /\ founders \in SUBSET accounts /\ late \in SUBSET founders
    /\ early \in SUBSET Process

(* However many submissions pass the checks before one commits, a further  *)
(* one founds another account only by finding committed settings and       *)
(* writing over them; the instance is onboarded exactly when an account is *)
(* founded.  A failed submission leaves no account, so that the wizard can *)
(* run again.                                                              *)
OnboardedOnce ==
    /\ \A u, v \in founders \ late : u = v
    /\ completed <=> founders # {}
    /\ completed \/ accounts = {}

(* A process whose own submission did not fail after opening the gate has  *)
(* it open only for an onboarded instance, or while the submission that    *)
(* opened it is about to commit.                                           *)
GateIsHonest ==
    \A p \in Process : open[p] =>
        completed \/ p \in early \/ \E s \in Stored : sub[s].at = p
=============================================================================
