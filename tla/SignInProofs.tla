----------------------------- MODULE SignInProofs -----------------------------
(***************************************************************************)
(* Proofs about SignIn, for any number of concurrent requests and codes    *)
(* and any limits.                                                         *)
(***************************************************************************)
EXTENDS SignIn, FiniteSetTheorems, TLAPS

(* The actions of a request. *)
RequestStep(r) ==
    \/ Admit(r) \/ LoadAccount(r) \/ RejectPassword(r)
    \/ AcceptPassword(r) \/ CommitLogin(r)
    \/ BeginUnlock(r) \/ CommitUnlock(r)
    \/ BeginVerify(r) \/ Spend(r) \/ SpendDeleted(r)
    \/ BeginReplace(r) \/ CommitReplace(r)
    \/ BeginClear(r) \/ CommitClear(r)
    \/ Fail(r)

(* AtMost is the minimum. *)
LEMMA AtMostIsMin ==
    ASSUME NEW n \in Nat, NEW m \in Nat
    PROVE  /\ AtMost(n, m) \in 0..m
           /\ AtMost(n, m) <= n
           /\ n <= m => AtMost(n, m) = n
           /\ n >= m => AtMost(n, m) = m
BY SignInAssumption DEF AtMost

-----------------------------------------------------------------------------
(* A request that is not in progress and a new row have their types. *)
LEMMA IdleTyped == Idle \in Req /\ Fresh \in Account
BY SignInAssumption DEF Idle, Req, Fresh, Account, Lock, NotLocked

(* The initial values have their types. *)
LEMMA InitTyped == Init => TypeOK
<1> SUFFICES ASSUME Init PROVE TypeOK OBVIOUS
<1> USE SignInAssumption
<1>1. account \in Account /\ req \in [Request -> Req] BY IdleTyped DEF Init
<1>2. code \in [Code -> CodeState] /\ spent \in [Code -> 0..2]
  BY DEF Init, CodeState
<1>3. /\ counter \in 0..MaxFailed + 1 /\ window \in 0..Lockout
      /\ quiet \in 0..Lockout /\ guesses \in Nat
  BY DEF Init
<1>4. totp \in BOOLEAN /\ proof \in BOOLEAN /\ doubled \in BOOLEAN
  BY Zenon DEF Init
<1> QED BY <1>1, <1>2, <1>3, <1>4 DEF TypeOK

(* A request's record can be replaced by any other of its type. *)
LEMMA ReqUpdated ==
    ASSUME TypeOK, NEW r \in Request, NEW q \in Req
    PROVE  [req EXCEPT ![r] = q] \in [Request -> Req]
BY DEF TypeOK

(* Forgetting hits keeps the types. *)
LEMMA RestartedTyped ==
    ASSUME NEW R \in [Request -> Req]
    PROVE  /\ Restarted(R) \in [Request -> Req]
           /\ \A r \in Request : ~Restarted(R)[r].counted
BY DEF Restarted, Req

(* What a login or an unlock writes is a row. *)
LEMMA ClearedTyped ==
    ASSUME TypeOK, NEW r \in Request
    PROVE  Cleared(r) \in Account
<1>1. req[r].loaded \in Account /\ account \in Account BY DEF TypeOK, Req
<1> QED BY <1>1, SignInAssumption DEF Cleared, Account, Lock, NotLocked

(* Regenerating codes ends a request and marks others. *)
LEMMA OutdatedTyped ==
    ASSUME TypeOK, NEW r \in Request
    PROVE  /\ Outdated(r) \in [Request -> Req]
           /\ Outdated(r)[r] = Idle
           /\ \A o \in Request \ {r} :
                 /\ Outdated(r)[o].op = req[o].op
                 /\ Outdated(r)[o].codes = req[o].codes
                 /\ Outdated(r)[o].counted = req[o].counted
                 /\ Outdated(r)[o].raced = (req[o].raced \/ req[o].op = "replace")
<1>1. \A o \in Request : req[o] \in Req BY DEF TypeOK
<1>2. \A o \in Request :
         [req[o] EXCEPT !.raced = @ \/ req[o].op = "replace"] \in Req
  BY <1>1 DEF Req
<1>3. Outdated(r) \in [Request -> Req] BY <1>2, IdleTyped DEF Outdated
<1> QED BY <1>1, <1>3 DEF Outdated, Req

(* Every step of a request keeps the types. *)
LEMMA RequestStepTyped ==
    ASSUME TypeOK, NEW r \in Request, RequestStep(r)
    PROVE  TypeOK'
<1> USE SignInAssumption
<1>0. req[r] \in Req /\ req \in [Request -> Req] BY DEF TypeOK
<1>f. Finish(r) => req' \in [Request -> Req]
  BY ReqUpdated, IdleTyped DEF Finish
<1>1. CASE Admit(r)
  <2>1. PICK right \in BOOLEAN :
           req' = [req EXCEPT ![r] = [Idle EXCEPT !.op = "login", !.pc = "load",
                                      !.right = right, !.counted = TRUE]]
    BY <1>1 DEF Admit
  <2>2. [Idle EXCEPT !.op = "login", !.pc = "load", !.right = right,
                     !.counted = TRUE] \in Req
    BY IdleTyped DEF Req, Idle
  <2>3. req' \in [Request -> Req] BY <2>1, <2>2, ReqUpdated
  <2>4. counter' \in 0..MaxFailed + 1
    BY <1>1 DEF Admit, Counted, Allowed, AtMost, TypeOK
  <2> QED BY <1>1, <2>3, <2>4 DEF Admit, Counted, TypeOK, factors
<1>2. CASE LoadAccount(r)
  <2>1. [req[r] EXCEPT !.pc = "check", !.loaded = account] \in Req
    BY <1>0, <1>2 DEF LoadAccount, Req, TypeOK
  <2>2. req' \in [Request -> Req]
    BY <1>2, <1>f, <2>1, ReqUpdated, <1>0 DEF LoadAccount
  <2> QED BY <1>2, <2>2 DEF LoadAccount, TypeOK, factors, throttle
<1>3. CASE RejectPassword(r)
  <2>1. account' \in Account
    <3>1. req[r].loaded.failed \in Nat BY <1>0 DEF Req, Account
    <3>2. AtMost(req[r].loaded.failed + 1, MaxFailed) \in 0..MaxFailed
      BY <3>1 DEF AtMost
    <3>3. account.lock \in Lock BY DEF TypeOK, Account
    <3>4. Lockout \in Lock BY DEF Lock, NotLocked
    <3> QED BY <1>3, <3>2, <3>3, <3>4 DEF RejectPassword, Account
  <2>2. guesses' \in Nat BY <1>3 DEF RejectPassword, TypeOK
  <2> QED BY <1>3, <1>f, <2>1, <2>2 DEF RejectPassword, TypeOK, factors
<1>4. CASE AcceptPassword(r)
  <2>1. \A o \in Request : [[req EXCEPT ![r].pc = "commit"][o] EXCEPT !.counted = FALSE] \in Req
    BY <1>0, <1>4 DEF AcceptPassword, Req
  <2>2. req' \in [Request -> Req]
    BY <1>4, <2>1 DEF AcceptPassword, Restarted
  <2>3. /\ counter' \in 0..MaxFailed + 1 /\ window' \in 0..Lockout
        /\ guesses' \in Nat
    BY <1>4 DEF AcceptPassword
  <2>4. UNCHANGED <<account, quiet, totp, code, proof, spent, doubled>>
    BY <1>4 DEF AcceptPassword, factors
  <2> QED BY <2>2, <2>3, <2>4 DEF TypeOK
<1>5. CASE CommitLogin(r)
  BY <1>5, <1>f, ClearedTyped DEF CommitLogin, TypeOK
<1>6. CASE BeginUnlock(r)
  <2>1. [Idle EXCEPT !.op = "unlock", !.pc = "commit", !.loaded = account] \in Req
    BY IdleTyped DEF Req, Idle, TypeOK
  <2>2. req' \in [Request -> Req] BY <1>6, <2>1, ReqUpdated DEF BeginUnlock
  <2> QED BY <1>6, <2>2 DEF BeginUnlock, TypeOK, factors, throttle
<1>7. CASE CommitUnlock(r)
  BY <1>7, <1>f, ClearedTyped DEF CommitUnlock, TypeOK, factors
<1>8. CASE BeginVerify(r)
  <2>1. PICK c \in Code :
           req' = [req EXCEPT ![r] = [Idle EXCEPT !.op = "verify", !.pc = "commit",
                                                  !.codes = {c}]]
    BY <1>8 DEF BeginVerify, Unused
  <2>2. [Idle EXCEPT !.op = "verify", !.pc = "commit", !.codes = {c}] \in Req
    BY IdleTyped DEF Req, Idle
  <2>3. req' \in [Request -> Req] BY <2>1, <2>2, ReqUpdated
  <2> QED BY <1>8, <2>3 DEF BeginVerify, TypeOK, factors, throttle
<1>9. CASE Spend(r)
  <2>1. PICK c \in req[r].codes : /\ c \in Stored
                                  /\ code' = [code EXCEPT ![c] = "used"]
                                  /\ spent' = [spent EXCEPT ![c] = AtMost(@ + 1, 2)]
                                  /\ req' = Overtaken(r, c)
    BY <1>9 DEF Spend
  <2>2. c \in Code BY <2>1 DEF Stored
  <2>3. req' \in [Request -> Req]
    BY <1>0, <2>1, IdleTyped DEF Overtaken, Req
  <2>4. spent' \in [Code -> 0..2]
    <3>1. spent[c] + 1 \in Nat BY <2>2 DEF TypeOK
    <3>2. AtMost(spent[c] + 1, 2) \in 0..2 BY <3>1, AtMostIsMin
    <3> QED BY <2>1, <3>2 DEF TypeOK
  <2>5. code' \in [Code -> CodeState] BY <2>1 DEF TypeOK, CodeState
  <2> QED BY <1>9, <2>3, <2>4, <2>5 DEF Spend, TypeOK, throttle
<1>10. CASE SpendDeleted(r)
  BY <1>10, <1>f DEF SpendDeleted, TypeOK, factors, throttle
<1>11. CASE BeginReplace(r)
  <2>1. [Idle EXCEPT !.op = "replace", !.pc = "commit", !.codes = Stored] \in Req
    BY IdleTyped DEF Req, Idle, Stored
  <2>2. req' \in [Request -> Req] BY <1>11, <2>1, ReqUpdated DEF BeginReplace
  <2> QED BY <1>11, <2>2 DEF BeginReplace, TypeOK, factors, throttle
<1>12. CASE CommitReplace(r)
  <2>1. code' \in [Code -> CodeState] BY <1>12 DEF CommitReplace, TypeOK, CodeState
  <2>2. req' \in [Request -> Req] BY <1>12, OutdatedTyped DEF CommitReplace
  <2>3. doubled' \in BOOLEAN BY <1>0, <1>12 DEF CommitReplace, Req
  <2> QED BY <1>12, <2>1, <2>2, <2>3 DEF CommitReplace, TypeOK, throttle
<1>13. CASE BeginClear(r)
  <2>1. [Idle EXCEPT !.op = "clear", !.pc = "commit", !.codes = Stored] \in Req
    BY IdleTyped DEF Req, Idle, Stored
  <2>2. req' \in [Request -> Req] BY <1>13, <2>1, ReqUpdated DEF BeginClear
  <2> QED BY <1>13, <2>2 DEF BeginClear, TypeOK, factors, throttle
<1>14. CASE CommitClear(r)
  <2>1. code' \in [Code -> CodeState] BY <1>14 DEF CommitClear, TypeOK, CodeState
  <2> QED BY <1>14, <1>f, <2>1 DEF CommitClear, TypeOK, throttle
<1>15. CASE Fail(r)
  BY <1>15, <1>f DEF Fail, TypeOK, factors, throttle
<1> QED BY <1>1, <1>2, <1>3, <1>4, <1>5, <1>6, <1>7, <1>8, <1>9, <1>10, <1>11,
           <1>12, <1>13, <1>14, <1>15 DEF RequestStep

(* So does every other step. *)
LEMMA TypePreserved == TypeOK /\ [Next]_vars => TypeOK'
<1> SUFFICES ASSUME TypeOK, [Next]_vars PROVE TypeOK' OBVIOUS
<1> USE SignInAssumption
<1>1. CASE Tick
  <2>1. req' \in [Request -> Req] BY <1>1, RestartedTyped DEF Tick, TypeOK
  <2>2. account' \in Account
    <3>1. account.lock \in -1..Lockout /\ account \in Account
      BY DEF TypeOK, Account, Lock, NotLocked
    <3>2. (IF account.lock > 0 THEN account.lock - 1 ELSE account.lock) \in -1..Lockout
      BY <3>1
    <3> QED BY <1>1, <3>1, <3>2 DEF Tick, Account, Lock, NotLocked
  <2>3. quiet' \in 0..Lockout BY <1>1 DEF Tick, AtMost, TypeOK
  <2>4. window' \in 0..Lockout /\ counter' \in 0..MaxFailed + 1 /\ guesses' \in Nat
    BY <1>1 DEF Tick, TypeOK
  <2> QED BY <1>1, <2>1, <2>2, <2>3, <2>4 DEF Tick, TypeOK, factors
<1>2. CASE ProofExpires
  BY <1>2 DEF ProofExpires, TypeOK, throttle
<1>3. CASE RefuseTooMany
  BY <1>3 DEF RefuseTooMany, Counted, AtMost, TypeOK, factors
<1>4. CASE \E r \in Request : RequestStep(r)
  BY <1>4, RequestStepTyped
<1>5. CASE UNCHANGED vars
  BY <1>5 DEF vars, TypeOK
<1> QED BY <1>1, <1>2, <1>3, <1>4, <1>5 DEF Next, RequestStep

(* The variables have their types in every behaviour, for any limits and   *)
(* any number of requests and codes.                                       *)
THEOREM TypeCorrect == Spec => []TypeOK
BY InitTyped, TypePreserved, PTL DEF Spec

-----------------------------------------------------------------------------
(* A code that is unused has signed nobody in, nor has one that a request  *)
(* is about to spend, unless the request knows it was overtaken.           *)
Unspent ==
    /\ \A c \in Code : code[c] \in {"unissued", "unused"} => spent[c] = 0
    /\ SpentOnceUnlessRaced

(* Steps that leave codes alone and start no verification keep Unspent.    *)
LEMMA UnspentKept ==
    ASSUME TypeOK, Unspent, UNCHANGED <<code, spent>>,
           \A r \in Request : req'[r].op = "verify" =>
                /\ req[r].op = "verify"
                /\ req'[r].codes = req[r].codes
                /\ req'[r].raced = req[r].raced
    PROVE  Unspent'
BY DEF Unspent, SpentOnceUnlessRaced

(* Every step of a request keeps Unspent. *)
LEMMA RequestStepUnspent ==
    ASSUME TypeOK, Unspent, NEW r \in Request, RequestStep(r)
    PROVE  Unspent'
<1>0. req \in [Request -> Req] BY DEF TypeOK
<1>f. Finish(r) => \A o \in Request : req'[o] = IF o = r THEN Idle ELSE req[o]
  BY <1>0 DEF Finish
<1>i. Idle.op = "none" BY DEF Idle
<1>1. CASE Admit(r)
  <2>1. \A o \in Request : req'[o].op = "verify" => o # r /\ req'[o] = req[o]
    BY <1>0, <1>1 DEF Admit, Idle
  <2> QED BY <1>1, <2>1, UnspentKept DEF Admit, factors
<1>2. CASE LoadAccount(r)
  <2>1. \A o \in Request : req'[o].op = "verify" =>
           /\ req[o].op = "verify"
           /\ req'[o].codes = req[o].codes /\ req'[o].raced = req[o].raced
    <3>1. CASE Locked
      BY <1>2, <1>f, <1>i, <3>1 DEF LoadAccount
    <3>2. CASE ~Locked
      BY <1>0, <1>2, <3>2 DEF LoadAccount, Req
    <3> QED BY <3>1, <3>2
  <2> QED BY <1>2, <2>1, UnspentKept DEF LoadAccount, factors
<1>3. CASE RejectPassword(r)
  BY <1>3, <1>f, <1>i, UnspentKept DEF RejectPassword, factors
<1>4. CASE AcceptPassword(r)
  <2>1. \A o \in Request :
           req'[o].op = req[o].op /\ req'[o].codes = req[o].codes
           /\ req'[o].raced = req[o].raced
    BY <1>0, <1>4 DEF AcceptPassword, Restarted, Req
  <2> QED BY <1>4, <2>1, UnspentKept DEF AcceptPassword, factors
<1>5. CASE CommitLogin(r)
  BY <1>5, <1>f, <1>i, UnspentKept DEF CommitLogin
<1>6. CASE BeginUnlock(r)
  <2>1. \A o \in Request : req'[o].op = "verify" => o # r /\ req'[o] = req[o]
    BY <1>0, <1>6 DEF BeginUnlock, Idle
  <2> QED BY <1>6, <2>1, UnspentKept DEF BeginUnlock, factors
<1>7. CASE CommitUnlock(r)
  BY <1>7, <1>f, <1>i, UnspentKept DEF CommitUnlock, factors
<1>8. CASE BeginVerify(r)
  <2>1. PICK c \in Unused :
           req' = [req EXCEPT ![r] = [Idle EXCEPT !.op = "verify", !.pc = "commit",
                                                  !.codes = {c}]]
    BY <1>8 DEF BeginVerify
  <2>2. spent[c] = 0 BY <2>1 DEF Unused, Unspent
  <2>3. req'[r].codes = {c} BY <1>0, <2>1 DEF Idle
  <2>4. \A o \in Request \ {r} : req'[o] = req[o] BY <1>0, <2>1
  <2> QED BY <1>8, <2>2, <2>3, <2>4 DEF BeginVerify, factors, Unspent,
             SpentOnceUnlessRaced
<1>9. CASE Spend(r)
  <2>1. PICK c \in req[r].codes : /\ c \in Stored
                                  /\ code' = [code EXCEPT ![c] = "used"]
                                  /\ spent' = [spent EXCEPT ![c] = AtMost(@ + 1, 2)]
                                  /\ req' = Overtaken(r, c)
    BY <1>9 DEF Spend
  <2>2. \A d \in Code : code'[d] \in {"unissued", "unused"} => spent'[d] = 0
    BY <2>1 DEF Unspent, TypeOK
  <2>3. ASSUME NEW o \in Request, req'[o].op = "verify", ~req'[o].raced,
               NEW d \in req'[o].codes
        PROVE  spent'[d] = 0
    <3>1. req'[o] = IF o = r THEN Idle
                    ELSE [req[o] EXCEPT !.raced =
                             @ \/ (req[o].op = "verify" /\ c \in req[o].codes)]
      BY <2>1 DEF Overtaken
    <3>2. o # r BY <2>3, <3>1, <1>i
    <3>3. /\ req'[o].op = req[o].op /\ req'[o].codes = req[o].codes
          /\ req'[o].raced = (req[o].raced \/ (req[o].op = "verify" /\ c \in req[o].codes))
      BY <3>1, <3>2, <1>0 DEF Req
    <3>4. ~req[o].raced /\ d # c BY <2>3, <3>3
    <3>5. d \in Code BY <2>3, <3>3, <1>0 DEF Req
    <3>6. spent[d] = 0 BY <2>3, <3>3, <3>4 DEF Unspent, SpentOnceUnlessRaced
    <3> QED BY <2>1, <3>4, <3>5, <3>6 DEF TypeOK
  <2> QED BY <2>2, <2>3 DEF Unspent, SpentOnceUnlessRaced
<1>10. CASE SpendDeleted(r)
  BY <1>10, <1>f, <1>i, UnspentKept DEF SpendDeleted, factors
<1>11. CASE BeginReplace(r)
  <2>1. \A o \in Request : req'[o].op = "verify" => o # r /\ req'[o] = req[o]
    BY <1>0, <1>11 DEF BeginReplace, Idle
  <2> QED BY <1>11, <2>1, UnspentKept DEF BeginReplace, factors
<1>12. CASE CommitReplace(r)
  <2>1. \A c \in Code : code'[c] \in {"unissued", "unused"} =>
                            code[c] \in {"unissued", "unused"}
    BY <1>12 DEF CommitReplace, TypeOK
  <2>2. spent' = spent BY <1>12 DEF CommitReplace
  <2>3. \A o \in Request : req'[o].op = "verify" =>
           /\ req[o].op = "verify" /\ req'[o].codes = req[o].codes
           /\ req[o].raced => req'[o].raced
    BY <1>12, <1>i, OutdatedTyped DEF CommitReplace
  <2> QED BY <2>1, <2>2, <2>3 DEF Unspent, SpentOnceUnlessRaced
<1>13. CASE BeginClear(r)
  <2>1. \A o \in Request : req'[o].op = "verify" => o # r /\ req'[o] = req[o]
    BY <1>0, <1>13 DEF BeginClear, Idle
  <2> QED BY <1>13, <2>1, UnspentKept DEF BeginClear, factors
<1>14. CASE CommitClear(r)
  <2>1. \A c \in Code : code'[c] \in {"unissued", "unused"} =>
                            code[c] \in {"unissued", "unused"}
    BY <1>14 DEF CommitClear, TypeOK
  <2>2. spent' = spent /\ Finish(r) BY <1>14 DEF CommitClear
  <2> QED BY <2>1, <2>2, <1>f, <1>i DEF Unspent, SpentOnceUnlessRaced
<1>15. CASE Fail(r)
  BY <1>15, <1>f, <1>i, UnspentKept DEF Fail, factors
<1> QED BY <1>1, <1>2, <1>3, <1>4, <1>5, <1>6, <1>7, <1>8, <1>9, <1>10, <1>11,
           <1>12, <1>13, <1>14, <1>15 DEF RequestStep

(* So does every other step. *)
LEMMA UnspentPreserved == TypeOK /\ Unspent /\ [Next]_vars => Unspent'
<1> SUFFICES ASSUME TypeOK, Unspent, [Next]_vars PROVE Unspent' OBVIOUS
<1>1. CASE Tick
  <2>1. \A o \in Request :
           req'[o].op = req[o].op /\ req'[o].codes = req[o].codes
           /\ req'[o].raced = req[o].raced
    BY <1>1 DEF Tick, Restarted, TypeOK, Req
  <2> QED BY <1>1, <2>1, UnspentKept DEF Tick, factors
<1>2. CASE ProofExpires
  BY <1>2, UnspentKept DEF ProofExpires
<1>3. CASE RefuseTooMany
  BY <1>3, UnspentKept DEF RefuseTooMany, factors
<1>4. CASE \E r \in Request : RequestStep(r)
  BY <1>4, RequestStepUnspent
<1>5. CASE UNCHANGED vars
  BY <1>5, UnspentKept DEF vars
<1> QED BY <1>1, <1>2, <1>3, <1>4, <1>5 DEF Next, RequestStep

(* A recovery code signs in a second time only in a request that read it   *)
(* before another request spent it, for any number of requests and codes.  *)
THEOREM OnlyRacesSpendTwice == Spec => []SpentOnceUnlessRaced
<1>1. Init => Unspent
  BY DEF Init, Unspent, SpentOnceUnlessRaced, Idle
<1>2. Unspent => SpentOnceUnlessRaced BY DEF Unspent
<1> QED BY <1>1, <1>2, UnspentPreserved, TypeCorrect, PTL DEF Spec

-----------------------------------------------------------------------------
(* At most one set is valid, and a request about to replace codes that no  *)
(* other has overtaken will delete every one that is valid when it does.   *)
OneSet ==
    /\ OneSetUnlessRaced
    /\ \A r \in Request : req[r].op = "replace" /\ ~req[r].raced =>
                              Unused \subseteq req[r].codes

(* Fewer codes are no more. *)
LEMMA FewerCodes ==
    /\ IsFiniteSet(Unused)
    /\ \A S : S \subseteq Unused => Cardinality(S) <= Cardinality(Unused)
<1>1. Unused \subseteq Code BY DEF Unused
<1>2. IsFiniteSet(Unused) BY <1>1, SignInAssumption, FS_Subset
<1> QED BY <1>2, FS_Subset

(* Steps that make no code valid and start no replacement keep OneSet.     *)
LEMMA OneSetKept ==
    ASSUME TypeOK, OneSet, Unused' \subseteq Unused, doubled' = doubled,
           \A r \in Request : req'[r].op = "replace" =>
                /\ req[r].op = "replace"
                /\ req'[r].codes = req[r].codes
                /\ req'[r].raced = req[r].raced
    PROVE  OneSet'
<1>1. Cardinality(Unused') <= Cardinality(Unused) /\ IsFiniteSet(Unused')
  BY FewerCodes, FS_Subset
<1>2. Cardinality(Unused) \in Nat /\ Cardinality(Unused') \in Nat
  BY <1>1, FewerCodes, FS_CardinalityType
<1>3. OneSetUnlessRaced'
  BY <1>1, <1>2, SignInAssumption DEF OneSet, OneSetUnlessRaced
<1> QED BY <1>3 DEF OneSet

(* Every step of a request keeps OneSet. *)
LEMMA RequestStepOneSet ==
    ASSUME TypeOK, OneSet, NEW r \in Request, RequestStep(r)
    PROVE  OneSet'
<1>0. req \in [Request -> Req] /\ req[r] \in Req BY DEF TypeOK
<1>f. Finish(r) => \A o \in Request : req'[o] = IF o = r THEN Idle ELSE req[o]
  BY <1>0 DEF Finish
<1>i. Idle.op = "none" BY DEF Idle
<1>k. ASSUME code' = code PROVE Unused' \subseteq Unused
  BY <1>k DEF Unused
<1>d. ASSUME \A c \in Code : code'[c] = "unused" => code[c] = "unused"
      PROVE  Unused' \subseteq Unused
  BY <1>d DEF Unused
<1>1. CASE Admit(r)
  <2>1. \A o \in Request : req'[o].op = "replace" => req'[o] = req[o]
    BY <1>0, <1>1 DEF Admit, Idle
  <2> QED BY <1>1, <1>k, <2>1, OneSetKept DEF Admit, factors
<1>2. CASE LoadAccount(r)
  <2>1. \A o \in Request : req'[o].op = "replace" =>
           /\ req[o].op = "replace"
           /\ req'[o].codes = req[o].codes /\ req'[o].raced = req[o].raced
    <3>1. CASE Locked
      BY <1>2, <1>f, <1>i, <3>1 DEF LoadAccount
    <3>2. CASE ~Locked
      BY <1>0, <1>2, <3>2 DEF LoadAccount, Req
    <3> QED BY <3>1, <3>2
  <2> QED BY <1>2, <1>k, <2>1, OneSetKept DEF LoadAccount, factors
<1>3. CASE RejectPassword(r)
  BY <1>3, <1>f, <1>i, <1>k, OneSetKept DEF RejectPassword, factors
<1>4. CASE AcceptPassword(r)
  <2>1. \A o \in Request :
           req'[o].op = req[o].op /\ req'[o].codes = req[o].codes
           /\ req'[o].raced = req[o].raced
    BY <1>0, <1>4 DEF AcceptPassword, Restarted, Req
  <2> QED BY <1>4, <1>k, <2>1, OneSetKept DEF AcceptPassword, factors
<1>5. CASE CommitLogin(r)
  BY <1>5, <1>f, <1>i, <1>k, OneSetKept DEF CommitLogin
<1>6. CASE BeginUnlock(r)
  <2>1. \A o \in Request : req'[o].op = "replace" => req'[o] = req[o]
    BY <1>0, <1>6 DEF BeginUnlock, Idle
  <2> QED BY <1>6, <1>k, <2>1, OneSetKept DEF BeginUnlock, factors
<1>7. CASE CommitUnlock(r)
  BY <1>7, <1>f, <1>i, <1>k, OneSetKept DEF CommitUnlock, factors
<1>8. CASE BeginVerify(r)
  <2>1. \A o \in Request : req'[o].op = "replace" => req'[o] = req[o]
    BY <1>0, <1>8 DEF BeginVerify, Idle
  <2> QED BY <1>8, <1>k, <2>1, OneSetKept DEF BeginVerify, factors
<1>9. CASE Spend(r)
  <2>1. PICK c \in req[r].codes : /\ code' = [code EXCEPT ![c] = "used"]
                                  /\ req' = Overtaken(r, c)
    BY <1>9 DEF Spend
  <2>2. Unused' \subseteq Unused BY <1>d, <2>1 DEF TypeOK
  <2>3. \A o \in Request : req'[o].op = "replace" =>
           /\ req[o].op = "replace"
           /\ req'[o].codes = req[o].codes /\ req'[o].raced = req[o].raced
    BY <1>0, <1>i, <2>1 DEF Overtaken, Req
  <2> QED BY <1>9, <2>2, <2>3, OneSetKept DEF Spend
<1>10. CASE SpendDeleted(r)
  BY <1>10, <1>f, <1>i, <1>k, OneSetKept DEF SpendDeleted, factors
<1>11. CASE BeginReplace(r)
  <2>1. Unused' = Unused /\ doubled' = doubled
    BY <1>11 DEF BeginReplace, factors, Unused
  <2>2. req'[r].codes = Stored BY <1>0, <1>11 DEF BeginReplace, Idle
  <2>3. \A o \in Request \ {r} : req'[o] = req[o] BY <1>0, <1>11 DEF BeginReplace
  <2>4. Unused \subseteq Stored BY DEF Unused, Stored
  <2> QED BY <2>1, <2>2, <2>3, <2>4 DEF OneSet, OneSetUnlessRaced
<1>12. CASE CommitReplace(r)
  <2>1. PICK new \in SUBSET {c \in Code : code[c] = "unissued"} :
           /\ Cardinality(new) = PerSet
           /\ code' = [c \in Code |-> IF c \in req[r].codes THEN "deleted"
                                      ELSE IF c \in new THEN "unused" ELSE code[c]]
    BY <1>12 DEF CommitReplace
  <2>2. req[r].op = "replace" /\ doubled' = req[r].raced
    BY <1>12 DEF CommitReplace
  <2>3. \A o \in Request : req'[o].op = "replace" => req'[o].raced
    BY <1>12, <1>i, OutdatedTyped DEF CommitReplace
  <2>4. ASSUME ~req[r].raced PROVE Cardinality(Unused') <= PerSet
    <3>1. Unused \subseteq req[r].codes BY <2>2, <2>4 DEF OneSet
    <3>2. Unused' \subseteq new BY <2>1, <3>1 DEF Unused
    <3>3. IsFiniteSet(new) BY SignInAssumption, FS_Subset
    <3> QED BY <2>1, <3>2, <3>3, FS_Subset
  <2> QED BY <2>2, <2>3, <2>4 DEF OneSet, OneSetUnlessRaced
<1>13. CASE BeginClear(r)
  <2>1. \A o \in Request : req'[o].op = "replace" => req'[o] = req[o]
    BY <1>0, <1>13 DEF BeginClear, Idle
  <2> QED BY <1>13, <1>k, <2>1, OneSetKept DEF BeginClear, factors
<1>14. CASE CommitClear(r)
  <2>1. Unused' \subseteq Unused BY <1>14, <1>d DEF CommitClear
  <2> QED BY <1>14, <1>f, <1>i, <2>1, OneSetKept DEF CommitClear
<1>15. CASE Fail(r)
  BY <1>15, <1>f, <1>i, <1>k, OneSetKept DEF Fail, factors
<1> QED BY <1>1, <1>2, <1>3, <1>4, <1>5, <1>6, <1>7, <1>8, <1>9, <1>10, <1>11,
           <1>12, <1>13, <1>14, <1>15 DEF RequestStep

(* So does every other step. *)
LEMMA OneSetPreserved == TypeOK /\ OneSet /\ [Next]_vars => OneSet'
<1> SUFFICES ASSUME TypeOK, OneSet, [Next]_vars PROVE OneSet' OBVIOUS
<1>k. ASSUME code' = code PROVE Unused' \subseteq Unused
  BY <1>k DEF Unused
<1>1. CASE Tick
  <2>1. \A o \in Request :
           req'[o].op = req[o].op /\ req'[o].codes = req[o].codes
           /\ req'[o].raced = req[o].raced
    BY <1>1 DEF Tick, Restarted, TypeOK, Req
  <2> QED BY <1>1, <1>k, <2>1, OneSetKept DEF Tick, factors
<1>2. CASE ProofExpires
  BY <1>2, <1>k, OneSetKept DEF ProofExpires
<1>3. CASE RefuseTooMany
  BY <1>3, <1>k, OneSetKept DEF RefuseTooMany, factors
<1>4. CASE \E r \in Request : RequestStep(r)
  BY <1>4, RequestStepOneSet
<1>5. CASE UNCHANGED vars
  BY <1>5, <1>k, OneSetKept DEF vars
<1> QED BY <1>1, <1>2, <1>3, <1>4, <1>5 DEF Next, RequestStep

(* An account has more valid codes than one set only after a regeneration  *)
(* that another one had overtaken, for any number of requests and codes.   *)
THEOREM OneSetIsValid == Spec => []OneSetUnlessRaced
<1>1. Init => OneSet
  <2> SUFFICES ASSUME Init PROVE OneSet OBVIOUS
  <2>1. Unused = FirstCodes BY SignInAssumption DEF Init, Unused
  <2> QED BY <2>1, SignInAssumption DEF Init, OneSet, OneSetUnlessRaced, Idle
<1>2. OneSet => OneSetUnlessRaced BY DEF OneSet
<1> QED BY <1>1, <1>2, OneSetPreserved, TypeCorrect, PTL DEF Spec

-----------------------------------------------------------------------------
(* Neither the counter's key nor the lock outlasts a quiet time of Lockout *)
(* minutes, and a counter without a key is zero.                           *)
Waning ==
    /\ Trying => quiet = 0
    /\ window <= Lockout - quiet
    /\ account.lock <= Lockout - quiet
    /\ window = 0 => counter = 0

(* Every step of a request keeps Waning. *)
LEMMA RequestStepWaning ==
    ASSUME TypeOK, Waning, NEW r \in Request, RequestStep(r)
    PROVE  Waning'
<1> USE SignInAssumption
<1>0. /\ req \in [Request -> Req] /\ quiet \in 0..Lockout /\ window \in 0..Lockout
      /\ account.lock \in -1..Lockout /\ req[r] \in Req
  BY DEF TypeOK, Account, Lock, NotLocked
<1>f. Finish(r) => (Trying' => Trying)
  BY <1>0 DEF Finish, Trying, Idle
<1>c. Cleared(r).lock <= Lockout - quiet
  BY <1>0 DEF Waning, Cleared, NotLocked
<1>1. CASE Admit(r)
  BY <1>0, <1>1 DEF Admit, Counted, Waning
<1>2. CASE LoadAccount(r)
  <2>1. Trying' => Trying
    <3>1. CASE Locked BY <1>2, <1>f, <3>1 DEF LoadAccount
    <3>2. CASE ~Locked BY <1>0, <1>2, <3>2 DEF LoadAccount, Trying, Req
    <3> QED BY <3>1, <3>2
  <2> QED BY <1>2, <2>1 DEF LoadAccount, Waning, throttle
<1>3. CASE RejectPassword(r)
  <2>1. Trying => quiet = 0 BY DEF Waning
  <2>2. Trying BY <1>0, <1>3 DEF RejectPassword, Trying, Req
  <2>3. account'.lock \in {Lockout, account.lock} BY <1>3 DEF RejectPassword
  <2> QED BY <1>0, <1>3, <1>f, <2>1, <2>2, <2>3 DEF RejectPassword, Waning, Finish
<1>4. CASE AcceptPassword(r)
  <2>1. Trying' => Trying
    BY <1>0, <1>4 DEF AcceptPassword, Restarted, Trying, Req
  <2> QED BY <1>0, <1>4, <2>1 DEF AcceptPassword, Waning
<1>5. CASE CommitLogin(r)
  BY <1>5, <1>f, <1>c DEF CommitLogin, Waning
<1>6. CASE BeginUnlock(r)
  <2>1. Trying' => Trying BY <1>0, <1>6 DEF BeginUnlock, Trying, Idle
  <2> QED BY <1>6, <2>1 DEF BeginUnlock, Waning, throttle
<1>7. CASE CommitUnlock(r)
  BY <1>7, <1>f, <1>c DEF CommitUnlock, Waning
<1>8. CASE BeginVerify(r)
  <2>1. Trying' => Trying BY <1>0, <1>8 DEF BeginVerify, Trying, Idle
  <2> QED BY <1>8, <2>1 DEF BeginVerify, Waning, throttle
<1>9. CASE Spend(r)
  <2>1. Trying' => Trying BY <1>0, <1>9 DEF Spend, Overtaken, Trying, Idle, Req
  <2> QED BY <1>9, <2>1 DEF Spend, Waning, throttle
<1>10. CASE SpendDeleted(r)
  BY <1>10, <1>f DEF SpendDeleted, Waning, throttle
<1>11. CASE BeginReplace(r)
  <2>1. Trying' => Trying BY <1>0, <1>11 DEF BeginReplace, Trying, Idle
  <2> QED BY <1>11, <2>1 DEF BeginReplace, Waning, throttle
<1>12. CASE CommitReplace(r)
  <2>1. Trying' => Trying
    BY <1>12, OutdatedTyped DEF CommitReplace, Trying, Idle
  <2> QED BY <1>12, <2>1 DEF CommitReplace, Waning, throttle
<1>13. CASE BeginClear(r)
  <2>1. Trying' => Trying BY <1>0, <1>13 DEF BeginClear, Trying, Idle
  <2> QED BY <1>13, <2>1 DEF BeginClear, Waning, throttle
<1>14. CASE CommitClear(r)
  BY <1>14, <1>f DEF CommitClear, Waning, throttle
<1>15. CASE Fail(r)
  BY <1>15, <1>f DEF Fail, Waning, throttle
<1> QED BY <1>1, <1>2, <1>3, <1>4, <1>5, <1>6, <1>7, <1>8, <1>9, <1>10, <1>11,
           <1>12, <1>13, <1>14, <1>15 DEF RequestStep

(* So does every other step. *)
LEMMA WaningPreserved == TypeOK /\ Waning /\ [Next]_vars => Waning'
<1> SUFFICES ASSUME TypeOK, Waning, [Next]_vars PROVE Waning' OBVIOUS
<1> USE SignInAssumption
<1>0. /\ req \in [Request -> Req] /\ quiet \in 0..Lockout /\ window \in 0..Lockout
      /\ account \in Account /\ account.lock \in -1..Lockout
  BY DEF TypeOK, Account, Lock, NotLocked
<1>1. CASE Tick
  <2>1. Trying' => Trying
    BY <1>0, <1>1 DEF Tick, Restarted, Trying, Req
  <2>2. account'.lock = IF account.lock > 0 THEN account.lock - 1 ELSE account.lock
    BY <1>0, <1>1 DEF Tick, Account
  <2>3. quiet' = IF Trying THEN 0 ELSE AtMost(quiet + 1, Lockout)
    BY <1>1 DEF Tick
  <2>4. CASE Trying
    BY <1>0, <1>1, <2>2, <2>3, <2>4 DEF Tick, Waning
  <2>5. CASE ~Trying
    BY <1>0, <1>1, <2>1, <2>2, <2>3, <2>5 DEF Tick, Waning, AtMost
  <2> QED BY <2>4, <2>5
<1>2. CASE ProofExpires
  BY <1>2 DEF ProofExpires, Waning, throttle, Trying
<1>3. CASE RefuseTooMany
  BY <1>0, <1>3 DEF RefuseTooMany, Counted, Waning
<1>4. CASE \E r \in Request : RequestStep(r)
  BY <1>4, RequestStepWaning
<1>5. CASE UNCHANGED vars
  BY <1>5 DEF vars, Waning, Trying
<1> QED BY <1>1, <1>2, <1>3, <1>4, <1>5 DEF Next, RequestStep

(* After a quiet time of Lockout minutes nothing refuses the next attempt, *)
(* whatever happened before.                                               *)
THEOREM QuietIsEnough == Spec => []QuietFrees
<1>1. Init => Waning
  BY SignInAssumption DEF Init, Waning, Trying, Idle, Fresh, NotLocked
<1>2. TypeOK /\ Waning => QuietFrees
  BY SignInAssumption DEF TypeOK, Waning, QuietFrees, Locked, Account, Lock, NotLocked
<1> QED BY <1>1, <1>2, WaningPreserved, TypeCorrect, PTL DEF Spec

-----------------------------------------------------------------------------
(* The guesses made and the ones still to be checked are within the count. *)
InFlight == {r \in Request : req[r].counted}

Budget == guesses + Cardinality(InFlight) <= AtMost(counter, MaxFailed)

(* The requests in flight are finitely many, and fewer are no more. *)
LEMMA FewerInFlight ==
    /\ IsFiniteSet(InFlight) /\ Cardinality(InFlight) \in Nat
    /\ InFlight' \subseteq InFlight =>
          /\ Cardinality(InFlight') <= Cardinality(InFlight)
          /\ Cardinality(InFlight') \in Nat
<1>1. InFlight \subseteq Request BY DEF InFlight
<1>2. IsFiniteSet(InFlight) BY <1>1, SignInAssumption, FS_Subset
<1>3. Cardinality(InFlight) \in Nat BY <1>2, FS_CardinalityType
<1>4. ASSUME InFlight' \subseteq InFlight
      PROVE  /\ Cardinality(InFlight') <= Cardinality(InFlight)
             /\ Cardinality(InFlight') \in Nat
  <2>1. /\ IsFiniteSet(InFlight')
        /\ Cardinality(InFlight') <= Cardinality(InFlight)
    BY <1>2, <1>4, FS_Subset
  <2> QED BY <2>1, FS_CardinalityType
<1> QED BY <1>2, <1>3, <1>4

(* A step that admits nobody and leaves the counts alone keeps Budget. *)
LEMMA BudgetKept ==
    ASSUME TypeOK, Budget, InFlight' \subseteq InFlight,
           UNCHANGED <<guesses, counter>>
    PROVE  Budget'
<1>1. guesses \in Nat /\ AtMost(counter, MaxFailed) \in Int
  BY SignInAssumption DEF TypeOK, AtMost
<1> QED BY <1>1, FewerInFlight DEF Budget

(* Every step of a request keeps Budget. *)
LEMMA RequestStepBudget ==
    ASSUME TypeOK, Budget, NEW r \in Request, RequestStep(r)
    PROVE  Budget'
<1> USE SignInAssumption
<1>0. /\ req \in [Request -> Req] /\ counter \in Nat /\ guesses \in Nat
      /\ req[r] \in Req
  BY DEF TypeOK
<1>f. Finish(r) => InFlight' = InFlight \ {r}
  BY <1>0 DEF Finish, InFlight, Idle
<1>s. ASSUME InFlight' \subseteq InFlight, UNCHANGED <<guesses, counter>>
      PROVE  Budget'
  BY <1>s, BudgetKept
<1>1. CASE Admit(r)
  <2>1. r \notin InFlight BY <1>0, <1>1 DEF Admit, InFlight, Req
  <2>2. InFlight' = InFlight \cup {r}
    BY <1>0, <1>1 DEF Admit, InFlight, Idle
  <2>3. Cardinality(InFlight') = Cardinality(InFlight) + 1
    BY <2>1, <2>2, FewerInFlight, FS_AddElement
  <2>4. counter < MaxFailed /\ counter' = counter + 1 /\ guesses' = guesses
    BY <1>0, <1>1 DEF Admit, Allowed, Counted, AtMost
  <2> QED BY <1>0, <2>3, <2>4, FewerInFlight DEF Budget, AtMost
<1>2. CASE LoadAccount(r)
  <2>1. InFlight' \subseteq InFlight
    <3>1. CASE Locked BY <1>2, <1>f, <3>1 DEF LoadAccount
    <3>2. CASE ~Locked BY <1>0, <1>2, <3>2 DEF LoadAccount, InFlight, Req
    <3> QED BY <3>1, <3>2
  <2> QED BY <1>2, <1>s, <2>1 DEF LoadAccount, throttle
<1>3. CASE RejectPassword(r)
  <2>1. InFlight' = InFlight \ {r} /\ counter' = counter
    BY <1>3, <1>f DEF RejectPassword
  <2>2. CASE req[r].counted
    <3>1. r \in InFlight BY <2>2 DEF InFlight
    <3>2. Cardinality(InFlight') = Cardinality(InFlight) - 1
      BY <2>1, <3>1, FewerInFlight, FS_RemoveElement
    <3>3. guesses' = guesses + 1 BY <1>3, <2>2 DEF RejectPassword
    <3> QED BY <1>0, <2>1, <3>2, <3>3, FewerInFlight DEF Budget, AtMost
  <2>3. CASE ~req[r].counted
    BY <1>3, <1>s, <2>1, <2>3 DEF RejectPassword
  <2> QED BY <2>2, <2>3
<1>4. CASE AcceptPassword(r)
  <2>1. InFlight' = {}
    BY <1>0, <1>4 DEF AcceptPassword, Restarted, InFlight, Req
  <2> QED BY <1>4, <2>1, FS_EmptySet DEF AcceptPassword, Budget, AtMost
<1>5. CASE CommitLogin(r)
  BY <1>5, <1>f, <1>s DEF CommitLogin
<1>6. CASE BeginUnlock(r)
  <2>1. InFlight' \subseteq InFlight BY <1>0, <1>6 DEF BeginUnlock, InFlight, Idle
  <2> QED BY <1>6, <1>s, <2>1 DEF BeginUnlock, throttle
<1>7. CASE CommitUnlock(r)
  BY <1>7, <1>f, <1>s DEF CommitUnlock
<1>8. CASE BeginVerify(r)
  <2>1. InFlight' \subseteq InFlight BY <1>0, <1>8 DEF BeginVerify, InFlight, Idle
  <2> QED BY <1>8, <1>s, <2>1 DEF BeginVerify, throttle
<1>9. CASE Spend(r)
  <2>1. InFlight' \subseteq InFlight
    BY <1>0, <1>9 DEF Spend, Overtaken, InFlight, Idle, Req
  <2> QED BY <1>9, <1>s, <2>1 DEF Spend, throttle
<1>10. CASE SpendDeleted(r)
  BY <1>10, <1>f, <1>s DEF SpendDeleted, throttle
<1>11. CASE BeginReplace(r)
  <2>1. InFlight' \subseteq InFlight BY <1>0, <1>11 DEF BeginReplace, InFlight, Idle
  <2> QED BY <1>11, <1>s, <2>1 DEF BeginReplace, throttle
<1>12. CASE CommitReplace(r)
  <2>1. InFlight' \subseteq InFlight
    BY <1>12, OutdatedTyped DEF CommitReplace, InFlight, Idle
  <2> QED BY <1>12, <1>s, <2>1 DEF CommitReplace, throttle
<1>13. CASE BeginClear(r)
  <2>1. InFlight' \subseteq InFlight BY <1>0, <1>13 DEF BeginClear, InFlight, Idle
  <2> QED BY <1>13, <1>s, <2>1 DEF BeginClear, throttle
<1>14. CASE CommitClear(r)
  BY <1>14, <1>f, <1>s DEF CommitClear, throttle
<1>15. CASE Fail(r)
  BY <1>15, <1>f, <1>s DEF Fail, throttle
<1> QED BY <1>1, <1>2, <1>3, <1>4, <1>5, <1>6, <1>7, <1>8, <1>9, <1>10, <1>11,
           <1>12, <1>13, <1>14, <1>15 DEF RequestStep

(* So does every other step. *)
LEMMA BudgetPreserved == TypeOK /\ Budget /\ [Next]_vars => Budget'
<1> SUFFICES ASSUME TypeOK, Budget, [Next]_vars PROVE Budget' OBVIOUS
<1> USE SignInAssumption
<1>1. CASE Tick
  <2>1. CASE window = 1
    <3>1. InFlight' = {} /\ guesses' = 0 /\ counter' = 0
      BY <1>1, <2>1 DEF Tick, Restarted, InFlight, TypeOK, Req
    <3> QED BY <3>1, FS_EmptySet DEF Budget, AtMost
  <2>2. CASE window # 1
    BY <1>1, <2>2, BudgetKept DEF Tick, InFlight
  <2> QED BY <2>1, <2>2
<1>2. CASE ProofExpires
  BY <1>2, BudgetKept DEF ProofExpires, throttle, InFlight
<1>3. CASE RefuseTooMany
  <2>1. InFlight' = InFlight /\ guesses' = guesses
    BY <1>3 DEF RefuseTooMany, InFlight
  <2>2. counter \in Nat /\ counter >= MaxFailed /\ counter' >= MaxFailed
        /\ counter' \in Nat /\ guesses \in Nat
    BY <1>3 DEF RefuseTooMany, Allowed, Counted, AtMost, TypeOK
  <2> QED BY <2>1, <2>2, FewerInFlight DEF Budget, AtMost
<1>4. CASE \E r \in Request : RequestStep(r)
  BY <1>4, RequestStepBudget
<1>5. CASE UNCHANGED vars
  BY <1>5, BudgetKept DEF vars, InFlight
<1> QED BY <1>1, <1>2, <1>3, <1>4, <1>5 DEF Next, RequestStep

(* Between two restarts of the counter at most MaxFailed wrong passwords   *)
(* are checked, for any number of attempts at once.                        *)
THEOREM GuessesLimited == Spec => []GuessesBounded
<1>1. Init => Budget
  <2> SUFFICES ASSUME Init PROVE Budget OBVIOUS
  <2>1. InFlight = {} /\ guesses = 0 /\ counter = 0 BY DEF Init, InFlight, Idle
  <2> QED BY <2>1, FS_EmptySet, SignInAssumption DEF Budget, AtMost
<1>2. TypeOK /\ Budget => GuessesBounded
  BY FewerInFlight, SignInAssumption DEF TypeOK, Budget, GuessesBounded, AtMost
<1> QED BY <1>1, <1>2, BudgetPreserved, TypeCorrect, PTL DEF Spec
=============================================================================
