-------------------------------- MODULE SignIn --------------------------------
(***************************************************************************)
(* Sign-in to one account (services/auth.py): the password step with its   *)
(* Redis counter and the lockout columns of the user row, and the second   *)
(* factor with its single-use recovery codes.                              *)
(*                                                                         *)
(* A request reads committed rows when it starts and writes at its commit, *)
(* only the columns whose value differs from what it loaded.  The counter  *)
(* is outside the transaction.  Time passes in minutes.                    *)
(*                                                                         *)
(* Left out: the per-address counter, which refuses an attempt before      *)
(* anything is counted here, and TOTP codes, which change no state.        *)
(***************************************************************************)
EXTENDS Integers, FiniteSets

CONSTANTS
    Request,    \* requests that can be in progress at the same time
    Code,       \* every recovery code that can be issued
    FirstCodes, \* the ones of the account's set-up
    PerSet,     \* RECOVERY_CODE_COUNT
    MaxFailed,  \* settings.max_failed_logins
    Lockout     \* settings.lockout_minutes

ASSUME SignInAssumption ==
    /\ IsFiniteSet(Request) /\ IsFiniteSet(Code)
    /\ FirstCodes \subseteq Code /\ Cardinality(FirstCodes) <= PerSet
    /\ PerSet \in Nat /\ MaxFailed \in Nat \ {0} /\ Lockout \in Nat \ {0}

VARIABLES
    account,   \* the user row: failed_login_count and locked_until
    totp,      \* whether the row has a second factor
    counter,   \* the Redis counter; counts above MaxFailed are one value
    window,    \* minutes until its key expires
    code,      \* table recovery_code
    proof,     \* whether an mfa_token of the account is valid
    req,       \* what each request is doing
    quiet,     \* history: minutes since a password was last tried
    guesses,   \* history: wrong passwords checked since the counter began
    spent,     \* history: how often each code signed somebody in, 2 = several
    doubled    \* history: the last codes were issued by a request that another
               \* one issuing codes had overtaken

vars == <<account, totp, counter, window, code, proof, req, quiet, guesses, spent,
          doubled>>
throttle == <<account, counter, window, quiet, guesses>>
factors == <<totp, code, proof, spent, doubled>>

AtMost(n, m) == IF n <= m THEN n ELSE m

(* Minutes until locked_until: NotLocked is NULL, 0 a time in the past.    *)
NotLocked == -1
Lock == NotLocked..Lockout

(* A count above MaxFailed acts like MaxFailed. *)
Account == [failed : 0..MaxFailed, lock : Lock]

CodeState == {"unissued", "unused", "used", "deleted"}

(* loaded is the user row as read; counted whether its hit is in the       *)
(* counter; codes the recovery codes as read, raced whether another        *)
(* request has spent or replaced them since.                               *)
Req == {q \in [op : {"none", "login", "verify", "replace", "clear", "unlock"},
               pc : {"idle", "load", "check", "commit"},
               right : BOOLEAN, loaded : Account, counted : BOOLEAN,
               codes : SUBSET Code, raced : BOOLEAN] :
           /\ q.pc \in {"load", "check"} => q.op = "login"
           /\ q.counted => q.pc \in {"load", "check"}}

Fresh == [failed |-> 0, lock |-> NotLocked]

Idle == [op |-> "none", pc |-> "idle", right |-> FALSE, loaded |-> Fresh,
         counted |-> FALSE, codes |-> {}, raced |-> FALSE]

TypeOK ==
    /\ account \in Account
    /\ totp \in BOOLEAN
    /\ counter \in 0..MaxFailed + 1
    /\ window \in 0..Lockout
    /\ code \in [Code -> CodeState]
    /\ proof \in BOOLEAN
    /\ req \in [Request -> Req]
    /\ quiet \in 0..Lockout
    /\ guesses \in Nat
    /\ spent \in [Code -> 0..2]
    /\ doubled \in BOOLEAN

Init ==
    /\ account = Fresh
    /\ totp = TRUE
    /\ counter = 0 /\ window = 0
    /\ code = [c \in Code |-> IF c \in FirstCodes THEN "unused" ELSE "unissued"]
    /\ proof = FALSE
    /\ req = [r \in Request |-> Idle]
    /\ quiet = Lockout
    /\ guesses = 0
    /\ spent = [c \in Code |-> 0]
    /\ doubled = FALSE

Finish(r) == req' = [req EXCEPT ![r] = Idle]

-----------------------------------------------------------------------------
(* The password step (authenticate). *)

(* INCR alone. *)
CountedForGood == /\ counter' = AtMost(counter + 1, MaxFailed + 1)
                  /\ quiet' = 0
                  /\ UNCHANGED window

(* INCR and EXPIRE in one transaction; refusals count and refresh too. *)
Counted == /\ counter' = AtMost(counter + 1, MaxFailed + 1)
           /\ window' = Lockout
           /\ quiet' = 0

(* One attempt too many. *)
AllowedAtLimit == counter <= MaxFailed

Allowed == counter < MaxFailed

Admit(r) ==
    /\ req[r].pc = "idle"
    /\ Allowed
    /\ Counted
    /\ \E right \in BOOLEAN :
          req' = [req EXCEPT ![r] = [Idle EXCEPT !.op = "login", !.pc = "load",
                                     !.right = right, !.counted = TRUE]]
    /\ UNCHANGED <<account, guesses, factors>>

RefuseTooMany ==
    /\ ~Allowed
    /\ Counted
    /\ UNCHANGED <<account, guesses, factors, req>>

Locked == account.lock > 0

LoadAccount(r) ==
    /\ req[r].pc = "load"
    /\ IF Locked THEN Finish(r)
       ELSE req' = [req EXCEPT ![r].pc = "check", ![r].loaded = account]
    /\ UNCHANGED <<throttle, factors>>

(* The failure is committed before the 401 is raised: a count of the row   *)
(* as loaded, which another request may have counted up since.             *)
RejectPassword(r) ==
    /\ req[r].pc = "check" /\ ~req[r].right
    /\ LET failed == AtMost(req[r].loaded.failed + 1, MaxFailed)
       IN  account' = [failed |-> failed,
                       lock |-> IF failed = MaxFailed THEN Lockout ELSE account.lock]
    /\ guesses' = IF req[r].counted THEN guesses + 1 ELSE guesses
    /\ Finish(r)
    /\ UNCHANGED <<counter, window, quiet, factors>>

(* A counter that starts over: the hits of requests in progress are gone. *)
Restarted(R) == [r \in Request |-> [R[r] EXCEPT !.counted = FALSE]]

(* The hit of this request is given back, and no other. *)
AcceptByDecrement(r) ==
    /\ req[r].pc = "check" /\ req[r].right
    /\ counter' = counter - 1
    /\ req' = [req EXCEPT ![r].pc = "commit"]
    /\ UNCHANGED <<account, window, quiet, guesses, factors>>

AcceptPassword(r) ==
    /\ req[r].pc = "check" /\ req[r].right
    /\ counter' = 0 /\ window' = 0 /\ guesses' = 0
    /\ req' = Restarted([req EXCEPT ![r].pc = "commit"])
    /\ UNCHANGED <<account, quiet, factors>>

(* The columns of a row that was loaded and cleared. *)
Cleared(r) == [failed |-> IF req[r].loaded.failed = 0 THEN account.failed ELSE 0,
               lock |-> IF req[r].loaded.lock = NotLocked THEN account.lock
                        ELSE NotLocked]

(* The answer is an mfa_token, or a session if there is no second factor. *)
CommitLogin(r) ==
    /\ req[r].pc = "commit" /\ req[r].op = "login"
    /\ account' = Cleared(r)
    /\ proof' = (proof \/ totp)
    /\ Finish(r)
    /\ UNCHANGED <<counter, window, quiet, guesses, totp, code, spent, doubled>>

(* unlock_user, reset_password: the counter is left as it is. *)
BeginUnlock(r) ==
    /\ req[r].pc = "idle"
    /\ req' = [req EXCEPT ![r] = [Idle EXCEPT !.op = "unlock", !.pc = "commit",
                                              !.loaded = account]]
    /\ UNCHANGED <<throttle, factors>>

CommitUnlock(r) ==
    /\ req[r].pc = "commit" /\ req[r].op = "unlock"
    /\ account' = Cleared(r)
    /\ Finish(r)
    /\ UNCHANGED <<counter, window, quiet, guesses, factors>>

-----------------------------------------------------------------------------
(* The second factor (verify_mfa) and its codes. *)

Stored == {c \in Code : code[c] \in {"unused", "used"}}
Unused == {c \in Code : code[c] = "unused"}

(* A recovery code that matches an unused row. *)
BeginVerify(r) ==
    /\ req[r].pc = "idle"
    /\ proof /\ totp
    /\ \E c \in Unused :
          req' = [req EXCEPT ![r] = [Idle EXCEPT !.op = "verify", !.pc = "commit",
                                                 !.codes = {c}]]
    /\ UNCHANGED <<throttle, factors>>

(* Whatever a spent code's other readers do now overlaps with this. *)
Overtaken(r, c) == [o \in Request |->
    IF o = r THEN Idle
    ELSE [req[o] EXCEPT !.raced = @ \/ (req[o].op = "verify" /\ c \in req[o].codes)]]

(* UPDATE ... WHERE id: it waits for another writer of the row, then       *)
(* writes over its used_at.                                                *)
Spend(r) ==
    /\ req[r].pc = "commit" /\ req[r].op = "verify"
    /\ \E c \in req[r].codes :
          /\ c \in Stored
          /\ code' = [code EXCEPT ![c] = "used"]
          /\ spent' = [spent EXCEPT ![c] = AtMost(@ + 1, 2)]
          /\ req' = Overtaken(r, c)
    /\ UNCHANGED <<throttle, totp, proof, doubled>>

(* The row was deleted: the ORM's UPDATE matches no row, StaleDataError. *)
SpendDeleted(r) ==
    /\ req[r].pc = "commit" /\ req[r].op = "verify"
    /\ req[r].codes \cap Stored = {}
    /\ Finish(r)
    /\ UNCHANGED <<throttle, factors>>

(* Mutant: only the used codes make room for new ones. *)
BeginReplaceUsed(r) ==
    /\ req[r].pc = "idle"
    /\ ~Locked
    /\ req' = [req EXCEPT ![r] = [Idle EXCEPT !.op = "replace", !.pc = "commit",
                                              !.codes = Stored \ Unused]]
    /\ UNCHANGED <<throttle, factors>>

(* regenerate_recovery_codes, by the signed-in user. *)
BeginReplace(r) ==
    /\ req[r].pc = "idle"
    /\ ~Locked
    /\ req' = [req EXCEPT ![r] = [Idle EXCEPT !.op = "replace", !.pc = "commit",
                                              !.codes = Stored]]
    /\ UNCHANGED <<throttle, factors>>

(* Who is about to replace codes has not seen the new ones. *)
Outdated(r) == [o \in Request |->
    IF o = r THEN Idle
    ELSE [req[o] EXCEPT !.raced = @ \/ req[o].op = "replace"]]

(* Deleting a row that is gone already is no error. *)
CommitReplace(r) ==
    /\ req[r].pc = "commit" /\ req[r].op = "replace"
    /\ \E new \in SUBSET {c \in Code : code[c] = "unissued"} :
          /\ Cardinality(new) = PerSet
          /\ code' = [c \in Code |-> IF c \in req[r].codes THEN "deleted"
                                     ELSE IF c \in new THEN "unused" ELSE code[c]]
    /\ doubled' = req[r].raced
    /\ req' = Outdated(r)
    /\ UNCHANGED <<throttle, totp, proof, spent>>

(* reset_two_factor: nothing sets totp again. *)
BeginClear(r) ==
    /\ req[r].pc = "idle"
    /\ req' = [req EXCEPT ![r] = [Idle EXCEPT !.op = "clear", !.pc = "commit",
                                              !.codes = Stored]]
    /\ UNCHANGED <<throttle, factors>>

CommitClear(r) ==
    /\ req[r].pc = "commit" /\ req[r].op = "clear"
    /\ totp' = FALSE
    /\ code' = [c \in Code |-> IF c \in req[r].codes THEN "deleted" ELSE code[c]]
    /\ Finish(r)
    /\ UNCHANGED <<throttle, proof, spent, doubled>>

-----------------------------------------------------------------------------
(* An error or a lost process: what was not committed is rolled back. *)
Fail(r) ==
    /\ req[r].pc # "idle"
    /\ Finish(r)
    /\ UNCHANGED <<throttle, factors>>

Trying == \E r \in Request : req[r].op = "login"

(* A minute passes. *)
Tick ==
    /\ account' = [account EXCEPT !.lock = IF @ > 0 THEN @ - 1 ELSE @]
    /\ window' = IF window > 0 THEN window - 1 ELSE 0
    /\ quiet' = IF Trying THEN 0 ELSE AtMost(quiet + 1, Lockout)
    /\ IF window = 1
       THEN counter' = 0 /\ guesses' = 0 /\ req' = Restarted(req)
       ELSE UNCHANGED <<counter, guesses, req>>
    /\ UNCHANGED factors

ProofExpires ==
    /\ proof /\ proof' = FALSE
    /\ UNCHANGED <<throttle, totp, code, spent, doubled, req>>

Next ==
    \/ Tick
    \/ ProofExpires
    \/ RefuseTooMany
    \/ \E r \in Request :
          \/ Admit(r) \/ LoadAccount(r) \/ RejectPassword(r)
          \/ AcceptPassword(r) \/ CommitLogin(r)
          \/ BeginUnlock(r) \/ CommitUnlock(r)
          \/ BeginVerify(r) \/ Spend(r) \/ SpendDeleted(r)
          \/ BeginReplace(r) \/ CommitReplace(r)
          \/ BeginClear(r) \/ CommitClear(r)
          \/ Fail(r)

Spec == Init /\ [][Next]_vars

-----------------------------------------------------------------------------
(* Properties *)

(* However many attempts overlap, and although they overwrite each other's *)
(* failed_login_count, no more than MaxFailed wrong passwords are checked  *)
(* before a success, or before the counter expires.                        *)
GuessesBounded == guesses <= MaxFailed

(* "Try again in N minutes": when nobody has tried for Lockout minutes,    *)
(* neither the counter nor the lock refuses the next attempt.              *)
QuietFrees == quiet = Lockout => counter = 0 /\ ~Locked

(* A recovery code about to be spent has signed nobody in, unless another  *)
(* request spent it after this one read it.                                *)
SpentOnceUnlessRaced ==
    \A r \in Request : req[r].op = "verify" /\ ~req[r].raced =>
        \A c \in req[r].codes : spent[c] = 0

(* "Invalidate all existing codes and issue ten new ones": an account has  *)
(* no more valid codes than one set, whatever sign-ins, resets and failed  *)
(* regenerations come in between, unless the last regeneration had read    *)
(* the codes before another one committed.                                 *)
OneSetUnlessRaced == ~doubled => Cardinality(Unused) <= PerSet

(* "single-use": a recovery code signs in once.                            *)
SingleUse == \A c \in Code : spent[c] <= 1
=============================================================================
