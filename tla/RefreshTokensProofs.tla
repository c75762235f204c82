------------------------ MODULE RefreshTokensProofs ------------------------
(***************************************************************************)
(* Theorems about RefreshTokens for every set of accounts, tokens and      *)
(* requests.  The invariant: a request that is ending a family already     *)
(* holds every live token of it unless a rotation has overlapped it, and a *)
(* rotation that saw an ended family alive saw one already overlapped.     *)
(***************************************************************************)
EXTENDS RefreshTokens, FiniteSetTheorems, TLAPS

(* A row names an account and a family that exist, and every token of a    *)
(* family belongs to the account that opened it.                           *)
RowOK(t) ==
    Issued(t) => /\ token[t].user \in User
                 /\ token[t].family \in Token
                 /\ Issued(token[t].family)
                 /\ token[token[t].family].user = token[t].user

OnToken == {"refresh", "replay", "logout", "revokeSession"}

(* What a request in flight knows of the rows it works on. *)
RequestOK(x) ==
    /\ x.phase # "idle" => x.user \in User
    /\ x.op \in OnToken => /\ x.token \in Token
                           /\ Issued(x.token)
                           /\ x.user = token[x.token].user
    /\ x.op = "refresh" => x.ends = {} /\ x.phase # "revoke"
    /\ x.phase \in {"loadUser", "store"} => x.op = "refresh"
    /\ \A f \in x.ends \cup x.writes : Issued(f)

Ending(x, f) == /\ x.phase \in {"lock", "flush", "store", "commit"}
                /\ f \in x.ends

(* A request that is ending a family has chosen all its live tokens. *)
HoldsAll(x) ==
    \A f \in Token : Ending(x, f) => LiveIn(f) \subseteq x.writes \/ f \in raced

(* A rotation that read a live token of an ended family. *)
SawRaced(x) ==
    x.op = "refresh" /\ x.sawEnded => token[x.token].family \in raced

Shape == /\ \A t \in Token : RowOK(t)
         /\ \A f \in ended : Issued(f)
         /\ \A r \in Request : RequestOK(req[r])

RaceInv == /\ OnlyRacesOutliveEnd
           /\ \A r \in Request : HoldsAll(req[r]) /\ SawRaced(req[r])

IInv == TypeOK /\ Shape /\ RaceInv

-----------------------------------------------------------------------------
(* An idle slot is a transaction record. *)
LEMMA IdleType == Idle \in Transaction
  BY DEF Idle, Transaction, Op, Phase

(* The initial state satisfies the invariant. *)
LEMMA InitInv == Init => IInv
  <1> SUFFICES ASSUME Init PROVE IInv
    OBVIOUS
  <1>1. TypeOK
    BY IdleType DEF Init, TypeOK, Row, Unused, Status, Standing
  <1>2. Shape
    BY DEF Init, Shape, RowOK, RequestOK, Issued, Unused, Idle, OnToken
  <1>3. RaceInv
    BY DEF Init, RaceInv, OnlyRacesOutliveEnd, HoldsAll, SawRaced, Ending, Idle
  <1> QED
    BY <1>1, <1>2, <1>3 DEF IInv

(* A step that changes nothing but one request, into one that fits.        *)
LEMMA RequestStep ==
  ASSUME IInv, NEW r \in Request, NEW x \in Transaction,
         req' = [req EXCEPT ![r] = x],
         UNCHANGED <<token, account, ended, raced>>,
         RequestOK(x), HoldsAll(x), SawRaced(x)
  PROVE  IInv'
  <1>1. TypeOK'
    BY DEF IInv, TypeOK
  <1>2. \A q \in Request : req'[q] = x \/ req'[q] = req[q]
    BY DEF IInv, TypeOK
  <1>3. Shape'
    BY <1>2 DEF IInv, Shape, RowOK, RequestOK, Issued
  <1>4. RaceInv'
    BY <1>2 DEF IInv, RaceInv, OnlyRacesOutliveEnd, HoldsAll, SawRaced,
                Ending, LiveIn, Live
  <1> QED
    BY <1>1, <1>3, <1>4 DEF IInv

(* A request leaves: by its end, or by failing. *)
LEMMA LeaveStep ==
  ASSUME IInv, NEW r \in Request, req' = [req EXCEPT ![r] = Idle],
         UNCHANGED <<token, account, ended, raced>>
  PROVE  IInv'
  <1>1. RequestOK(Idle) /\ HoldsAll(Idle) /\ SawRaced(Idle)
    BY DEF RequestOK, HoldsAll, SawRaced, Ending, Idle, OnToken
  <1> QED
    BY <1>1, IdleType, RequestStep

(* A request arrives, on a token that exists or on an account. *)
LEMMA BeginStep ==
  ASSUME IInv, NEW r \in Request, NEW o \in Op, NEW p \in {"revoke", "flush"},
         NEW u \in User, NEW t \in Token \cup {NoToken}, Begin(r, o, p, u, t),
         o # "refresh",
         o \in OnToken => t \in Token /\ Issued(t) /\ u = token[t].user
  PROVE  IInv'
  <1> DEFINE x == [Idle EXCEPT !.op = o, !.phase = p, !.user = u, !.token = t]
  <1>1. x \in Transaction
    BY IdleType DEF Transaction, Phase
  <1>2. RequestOK(x) /\ HoldsAll(x) /\ SawRaced(x)
    BY DEF RequestOK, HoldsAll, SawRaced, Ending, Idle
  <1> QED
    BY <1>1, <1>2, RequestStep DEF Begin

(* The requests that present a token begin. *)
LEMMA BeginOnTokenStep ==
  ASSUME IInv, NEW r \in Request, NEW t \in Token, BeginOnToken(r, t)
  PROVE  IInv'
  <1>1. CASE BeginRotation(r, t)
    <2> DEFINE x == [Idle EXCEPT !.op = "refresh", !.phase = "loadUser",
                                 !.user = token[t].user, !.token = t,
                                 !.sawEnded = token[t].family \in ended]
    <2>1. Live(t) /\ Issued(t) /\ RowOK(t)
      BY <1>1 DEF BeginRotation, Live, Issued, IInv, Shape
    <2>2. x \in Transaction
      <3>1. (token[t].family \in ended) \in BOOLEAN
        OBVIOUS
      <3> QED
        BY <2>1, <3>1 DEF Transaction, Phase, Op, RowOK, Idle
    <2>3. RequestOK(x) /\ HoldsAll(x)
      BY <2>1 DEF RequestOK, HoldsAll, Ending, Idle, RowOK, OnToken
    <2>4. SawRaced(x)
      <3>1. t \in LiveIn(token[t].family)
        BY <2>1 DEF LiveIn
      <3> QED
        BY <3>1 DEF SawRaced, Idle, IInv, RaceInv, OnlyRacesOutliveEnd
    <2> QED
      BY <1>1, <2>2, <2>3, <2>4, RequestStep DEF BeginRotation
  <1>2. CASE BeginReplay(r, t)
    <2>1. Issued(t) /\ RowOK(t)
      BY <1>2 DEF BeginReplay, Issued, IInv, Shape
    <2> QED
      BY <1>2, <2>1, BeginStep DEF BeginReplay, RowOK, Op
  <1>3. CASE BeginLogout(r, t)
    <2>1. Issued(t) /\ RowOK(t)
      BY <1>3 DEF BeginLogout, IInv, Shape
    <2> QED
      BY <1>3, <2>1, BeginStep DEF BeginLogout, RowOK, Op
  <1>4. CASE BeginRevokeSession(r, t)
    <2>1. Issued(t) /\ RowOK(t)
      BY <1>4 DEF BeginRevokeSession, IInv, Shape
    <2> QED
      BY <1>4, <2>1, BeginStep DEF BeginRevokeSession, RowOK, Op
  <1> QED
    BY <1>1, <1>2, <1>3, <1>4 DEF BeginOnToken

(* The requests on an account begin. *)
LEMMA BeginOnUserStep ==
  ASSUME IInv, NEW r \in Request, NEW u \in User, BeginOnUser(r, u)
  PROVE  IInv'
  <1> PICK o \in {"login", "signOutAll", "reset", "changePassword",
                  "deactivate", "reactivate", "delete"},
           p \in {"revoke", "flush"} : Begin(r, o, p, u, NoToken)
    BY DEF BeginOnUser, BeginLogin, BeginSignOutAll, BeginReset,
           BeginChangePassword, BeginDeactivate, BeginReactivate, BeginDelete
  <1> QED
    BY BeginStep DEF OnToken, Op

(* The steps of a request that only read or take locks. *)
LEMMA LoadUserStep ==
  ASSUME IInv, NEW r \in Request, LoadUser(r)
  PROVE  IInv'
  <1> DEFINE x == [req[r] EXCEPT !.phase = "flush"]
  <1>1. req[r] \in Transaction /\ RequestOK(req[r]) /\ SawRaced(req[r])
    BY DEF IInv, TypeOK, Shape, RaceInv
  <1>2. req[r].op = "refresh" /\ req[r].phase # "idle"
    BY <1>1 DEF LoadUser, RequestOK
  <1>3. x \in Transaction
    BY <1>1 DEF Transaction, Phase
  <1>4. RequestOK(x) /\ HoldsAll(x) /\ SawRaced(x)
    BY <1>1, <1>2 DEF RequestOK, HoldsAll, SawRaced, Ending, Transaction
  <1>5. CASE req' = [req EXCEPT ![r] = x]
    BY <1>3, <1>4, <1>5, RequestStep DEF LoadUser
  <1>6. CASE req' = [req EXCEPT ![r] = Idle]
    BY <1>6, LeaveStep DEF LoadUser
  <1> QED
    BY <1>5, <1>6 DEF LoadUser

(* The rows a revocation chooses cover every family it is to end. *)
LEMMA SnapshotCovers ==
  ASSUME IInv, NEW x \in Transaction, RequestOK(x), x.phase = "revoke"
  PROVE  /\ Targets(x) \in SUBSET Token
         /\ Scope(x) \in SUBSET Token
         /\ \A t \in Targets(x) : Issued(t)
         /\ \A f \in Scope(x) : Issued(f) /\ LiveIn(f) \subseteq Targets(x)
  <1> USE DEF Targets, Scope
  <1>1. \A t \in Token : RowOK(t)
    BY DEF IInv, Shape
  <1>0. \A t \in Token : Live(t) => Issued(t)
    BY DEF Live, Issued
  <1>2. CASE x.op = "logout"
    <2>1. Targets(x) = {x.token} \cap LiveOf(x.user) /\ Scope(x) = {}
      BY <1>2 DEF FamilyWide
    <2> QED
      BY <1>0, <2>1 DEF LiveOf
  <1>3. CASE x.op \in FamilyWide
    <2>1. x.token \in Token /\ Issued(x.token) /\ x.op # "logout"
      BY <1>3 DEF RequestOK, FamilyWide, OnToken
    <2> QED
      BY <1>1, <1>0, <1>3, <2>1 DEF LiveIn, RowOK
  <1>4. CASE x.op \notin FamilyWide /\ x.op # "logout"
    <2>1. Targets(x) = LiveOf(x.user) /\ Scope(x) = FamiliesOf(x.user)
      BY <1>4
    <2>2. \A f \in FamiliesOf(x.user) : Issued(f) /\ token[f].user = x.user
      BY <1>1 DEF FamiliesOf, RowOK
    <2>3. \A f \in FamiliesOf(x.user) : LiveIn(f) \subseteq LiveOf(x.user)
      BY <1>1, <2>2 DEF LiveIn, LiveOf, RowOK, Live, Issued
    <2> QED
      BY <1>0, <2>1, <2>2, <2>3 DEF LiveOf, FamiliesOf
  <1> QED
    BY <1>2, <1>3, <1>4

(* A revocation chooses its rows. *)
LEMMA TakeSnapshotStep ==
  ASSUME IInv, NEW r \in Request, TakeSnapshot(r)
  PROVE  IInv'
  <1> DEFINE x == [req[r] EXCEPT !.phase = "lock",
                                 !.writes = Targets(req[r]),
                                 !.ends = Scope(req[r])]
  <1>1. req[r] \in Transaction /\ RequestOK(req[r]) /\ SawRaced(req[r])
    BY DEF IInv, TypeOK, Shape, RaceInv
  <1>2. /\ Targets(req[r]) \in SUBSET Token
        /\ Scope(req[r]) \in SUBSET Token
        /\ \A t \in Targets(req[r]) : Issued(t)
        /\ \A f \in Scope(req[r]) : /\ Issued(f)
                                    /\ LiveIn(f) \subseteq Targets(req[r])
    BY <1>1, SnapshotCovers DEF TakeSnapshot
  <1>3. req[r].op # "refresh"
    BY <1>1 DEF TakeSnapshot, RequestOK
  <1>4. x \in Transaction
    BY <1>1, <1>2 DEF Transaction, Phase
  <1>5. RequestOK(x) /\ HoldsAll(x) /\ SawRaced(x)
    BY <1>1, <1>2, <1>3
       DEF RequestOK, HoldsAll, SawRaced, Ending, Transaction, TakeSnapshot
  <1> QED
    BY <1>4, <1>5, RequestStep DEF TakeSnapshot

(* A revocation gets its row locks. *)
LEMMA LockRowsStep ==
  ASSUME IInv, NEW r \in Request, LockRows(r)
  PROVE  IInv'
  <1> DEFINE p == IF req[r].op \in LeavesUserRow THEN "commit" ELSE "flush"
             W == {t \in req[r].writes : Live(t)}
             x == [req[r] EXCEPT !.phase = p, !.writes = W]
  <1>1. /\ req[r] \in Transaction /\ RequestOK(req[r])
        /\ HoldsAll(req[r]) /\ SawRaced(req[r])
    BY DEF IInv, TypeOK, Shape, RaceInv
  <1>2. p \in {"commit", "flush"} /\ W \in SUBSET Token
    BY <1>1 DEF Transaction
  <1> HIDE DEF p
  <1>3. x \in Transaction
    BY <1>1, <1>2 DEF Transaction, Phase
  <1>4. RequestOK(x) /\ SawRaced(x)
    BY <1>1, <1>2 DEF RequestOK, SawRaced, Transaction, LockRows
  <1>5. HoldsAll(x)
    BY <1>1, <1>2 DEF HoldsAll, Ending, Transaction, LockRows, LiveIn
  <1> QED
    BY <1>3, <1>4, <1>5, RequestStep DEF LockRows, p

(* The two parts of the flush. *)
LEMMA FlushStep ==
  ASSUME IInv, NEW r \in Request, FlushUser(r) \/ FlushToken(r)
  PROVE  IInv'
  <1>1. /\ req[r] \in Transaction /\ RequestOK(req[r])
        /\ HoldsAll(req[r]) /\ SawRaced(req[r])
    BY DEF IInv, TypeOK, Shape, RaceInv
  <1>2. CASE FlushUser(r)
    <2> DEFINE p == IF req[r].op = "refresh" THEN "store" ELSE "commit"
               x == [req[r] EXCEPT !.phase = p]
    <2>1. x \in Transaction
      BY <1>1 DEF Transaction, Phase
    <2>2. RequestOK(x) /\ HoldsAll(x) /\ SawRaced(x)
      BY <1>1, <1>2 DEF RequestOK, HoldsAll, SawRaced, Ending, Transaction,
                        FlushUser
    <2>3. req' = [req EXCEPT ![r] = x]
      BY <1>1, <1>2 DEF FlushUser, IInv, TypeOK, Transaction
    <2> QED
      BY <1>2, <2>1, <2>2, <2>3, RequestStep DEF FlushUser
  <1>3. CASE FlushToken(r)
    <2> DEFINE x == [req[r] EXCEPT !.phase = "commit",
                                   !.writes = {req[r].token}]
    <2>1. req[r].op = "refresh" /\ req[r].token \in Token /\ Issued(req[r].token)
      BY <1>1, <1>3 DEF FlushToken, RequestOK, OnToken
    <2>2. x \in Transaction
      BY <1>1, <2>1 DEF Transaction, Phase
    <2>3. RequestOK(x) /\ HoldsAll(x) /\ SawRaced(x)
      BY <1>1, <1>3, <2>1 DEF RequestOK, HoldsAll, SawRaced, Ending,
                              Transaction, FlushToken
    <2> QED
      BY <1>3, <2>2, <2>3, RequestStep DEF FlushToken
  <1> QED
    BY <1>2, <1>3

(* What a commit does to the rows: the rows W are revoked and, with n, a   *)
(* live one is added; nothing else becomes live, owners and families stay. *)
LEMMA RevokedRows ==
  ASSUME TypeOK, NEW W \in SUBSET Token, \A t \in W : Issued(t)
  PROVE  /\ Revoked(W) \in [Token -> Row]
         /\ \A t \in Token : /\ Revoked(W)[t].user = token[t].user
                             /\ Revoked(W)[t].family = token[t].family
                             /\ Issued(t) <=> Revoked(W)[t].status # "unused"
                             /\ Revoked(W)[t].status = "live"
                                    <=> Live(t) /\ t \notin W
  BY DEF TypeOK, Row, Status, Revoked, Issued, Live

(* The rows after an insert. *)
LEMMA NewRow ==
  ASSUME TypeOK, NEW W \in SUBSET Token, \A t \in W : Issued(t),
         NEW n \in Token, ~Issued(n), NEW u \in User, NEW f \in Token,
         token' = WithNew(Revoked(W), n, u, f)
  PROVE  /\ token' \in [Token -> Row]
         /\ token'[n] = [status |-> "live", user |-> u, family |-> f]
         /\ \A t \in Token \ {n} : /\ token'[t].user = token[t].user
                                   /\ token'[t].family = token[t].family
                                   /\ Issued(t)' <=> Issued(t)
                                   /\ Live(t)' <=> Live(t) /\ t \notin W
  <1>1. [status |-> "live", user |-> u, family |-> f] \in Row
    BY DEF Row, Status
  <1>2. Revoked(W) \in [Token -> Row]
    BY RevokedRows
  <1>3. /\ token' \in [Token -> Row]
        /\ token'[n] = [status |-> "live", user |-> u, family |-> f]
        /\ \A t \in Token \ {n} : token'[t] = Revoked(W)[t]
    BY <1>1, <1>2 DEF WithNew
  <1> QED
    BY <1>3, RevokedRows DEF Issued, Live

(* A rotation commits. *)
LEMMA CommitRotationStep ==
  ASSUME IInv, NEW r \in Request, CommitRotation(r)
  PROVE  IInv'
  <1> DEFINE g == token[req[r].token].family
             W == req[r].writes
  <1>1. /\ req[r] \in Transaction /\ RequestOK(req[r])
        /\ HoldsAll(req[r]) /\ SawRaced(req[r])
        /\ TypeOK /\ \A t \in Token : RowOK(t)
    BY DEF IInv, TypeOK, Shape, RaceInv
  <1>2. /\ req[r].token \in Token /\ Issued(req[r].token)
        /\ req[r].user = token[req[r].token].user /\ req[r].user \in User
        /\ g \in Token /\ Issued(g) /\ token[g].user = req[r].user
        /\ W \in SUBSET Token /\ \A t \in W : Issued(t)
    BY <1>1 DEF CommitRotation, RequestOK, OnToken, RowOK, Transaction
  <1> HIDE DEF g
  <1>3. PICK n \in Token : ~Issued(n) /\ token' = WithNew(Revoked(W), n, req[r].user, g)
    BY DEF CommitRotation, g
  <1>4. /\ token' \in [Token -> Row]
        /\ token'[n] = [status |-> "live", user |-> req[r].user, family |-> g]
        /\ \A t \in Token \ {n} : /\ token'[t].user = token[t].user
                                  /\ token'[t].family = token[t].family
                                  /\ Issued(t)' <=> Issued(t)
                                  /\ Live(t)' <=> Live(t) /\ t \notin W
    BY <1>1, <1>2, <1>3, NewRow
  <1>5. raced \subseteq raced' /\ (Overlaps(r, g) => g \in raced')
    BY DEF CommitRotation, g
  <1>6. \A f \in Token : f # g => LiveIn(f)' \subseteq LiveIn(f)
    BY <1>4 DEF LiveIn
  <1>7. \A q \in Request : req'[q] = Idle \/ (q # r /\ req'[q] = req[q])
    BY <1>1 DEF CommitRotation, TypeOK
  <1>8. TypeOK'
    <2>1. raced' \in SUBSET Token
      BY <1>1, <1>2 DEF CommitRotation, TypeOK, g
    <2> QED
      BY <1>1, <1>4, <2>1, IdleType DEF TypeOK, CommitRotation
  <1>9. Shape'
    <2>1. \A t \in Token : RowOK(t)'
      BY <1>1, <1>2, <1>3, <1>4 DEF RowOK, Issued
    <2>2. \A f \in Token : Issued(f) => Issued(f)'
      BY <1>3, <1>4
    <2>3. \A f \in ended' : Issued(f)'
      BY <2>2, <1>1 DEF IInv, Shape, CommitRotation, TypeOK
    <2>4. ASSUME NEW q \in Request PROVE RequestOK(req[q])'
      <3>1. CASE req'[q] = Idle
        BY <3>1 DEF RequestOK, Idle, OnToken
      <3>2. CASE req'[q] = req[q]
        <4>1. RequestOK(req[q]) /\ req[q] \in Transaction
          BY DEF IInv, Shape, TypeOK
        <4>2. req[q].ends \cup req[q].writes \subseteq Token
          BY <4>1 DEF Transaction
        <4> QED
          BY <3>2, <4>1, <4>2, <1>3, <1>4, <2>2 DEF RequestOK
      <3> QED
        BY <3>1, <3>2, <1>7
    <2> QED
      BY <2>1, <2>3, <2>4 DEF Shape
  <1>10. OnlyRacesOutliveEnd'
    <2>1. ended' = ended /\ ended \subseteq Token
      BY <1>1 DEF CommitRotation, TypeOK
    <2>2. g \in ended => g \in raced'
      <3>1. CASE req[r].sawEnded
        BY <3>1, <1>1, <1>5 DEF SawRaced, CommitRotation, g
      <3>2. CASE ~req[r].sawEnded
        BY <3>2, <1>5 DEF Overlaps
      <3> QED
        BY <3>1, <3>2
    <2>3. OnlyRacesOutliveEnd
      BY DEF IInv, RaceInv
    <2> QED
      BY <2>1, <2>2, <2>3, <1>5, <1>6 DEF OnlyRacesOutliveEnd
  <1>11. ASSUME NEW q \in Request PROVE HoldsAll(req[q])' /\ SawRaced(req[q])'
    <2>1. CASE req'[q] = Idle
      BY <2>1 DEF HoldsAll, SawRaced, Ending, Idle
    <2>2. CASE q # r /\ req'[q] = req[q]
      <3>1. HoldsAll(req[q]) /\ SawRaced(req[q]) /\ RequestOK(req[q])
        BY DEF IInv, RaceInv, Shape
      <3>2. SawRaced(req[q])'
        BY <2>2, <3>1, <1>3, <1>4, <1>5 DEF SawRaced, RequestOK, OnToken
      <3>3. ASSUME NEW f \in Token, Ending(req[q], f)
            PROVE  LiveIn(f)' \subseteq req[q].writes \/ f \in raced'
        <4>1. CASE f = g
          BY <4>1, <3>3, <1>5 DEF Overlaps, PendingEnd, Ending
        <4>2. CASE f # g
          BY <4>2, <3>1, <3>3, <1>5, <1>6 DEF HoldsAll
        <4> QED
          BY <4>1, <4>2
      <3> QED
        BY <2>2, <3>2, <3>3 DEF HoldsAll, Ending
    <2> QED
      BY <2>1, <2>2, <1>7
  <1> QED
    BY <1>8, <1>9, <1>10, <1>11 DEF IInv, RaceInv

(* A commit that extends no family: the rows a request holds are revoked,  *)
(* the families it is to end are ended, and a new family may be opened.    *)
LEMMA EndStep ==
  ASSUME IInv, NEW r \in Request, req[r].phase = "commit",
         req' = [req EXCEPT ![r] = Idle],
         ended' = ended \cup req[r].ends, raced' = raced,
         account' \in [User -> Standing], token' \in [Token -> Row],
         NEW New \in SUBSET Token,
         \A n \in New : /\ ~Issued(n) /\ Issued(n)'
                        /\ token'[n].family = n /\ token'[n].user \in User,
         \A t \in Token \ New : /\ token'[t].user = token[t].user
                                /\ token'[t].family = token[t].family
                                /\ Issued(t)' <=> Issued(t)
                                /\ Live(t)' <=> Live(t) /\ t \notin req[r].writes
  PROVE  IInv'
  <1>1. /\ req[r] \in Transaction /\ HoldsAll(req[r]) /\ RequestOK(req[r])
        /\ TypeOK /\ \A t \in Token : RowOK(t)
        /\ \A f \in ended : Issued(f)
    BY DEF IInv, TypeOK, Shape, RaceInv
  <1>2. req[r].ends \in SUBSET Token /\ \A f \in req[r].ends : Issued(f)
    BY <1>1 DEF Transaction, RequestOK
  <1>3. \A q \in Request : req'[q] = Idle \/ (q # r /\ req'[q] = req[q])
    BY <1>1 DEF TypeOK
  <1>4. \A f \in Token : Issued(f) => f \notin New /\ Issued(f)'
    OBVIOUS
  <1>5. \A f \in Token \ New : LiveIn(f)' \subseteq LiveIn(f) \ req[r].writes
    BY DEF LiveIn
  <1>6. TypeOK'
    BY <1>1, <1>2, IdleType DEF TypeOK
  <1>7. Shape'
    <2>1. \A t \in Token : RowOK(t)'
      BY <1>1, <1>4 DEF RowOK
    <2>2. \A f \in ended' : Issued(f)'
      BY <1>1, <1>2, <1>4 DEF TypeOK
    <2>3. ASSUME NEW q \in Request PROVE RequestOK(req[q])'
      <3>1. CASE req'[q] = Idle
        BY <3>1 DEF RequestOK, Idle, OnToken
      <3>2. CASE req'[q] = req[q]
        <4>1. RequestOK(req[q]) /\ req[q] \in Transaction
          BY DEF IInv, Shape, TypeOK
        <4>2. req[q].ends \cup req[q].writes \subseteq Token
          BY <4>1 DEF Transaction
        <4> QED
          BY <3>2, <4>1, <4>2, <1>4 DEF RequestOK
      <3> QED
        BY <3>1, <3>2, <1>3
    <2> QED
      BY <2>1, <2>2, <2>3 DEF Shape
  <1>8. OnlyRacesOutliveEnd'
    <2>1. ASSUME NEW f \in ended', LiveIn(f)' # {} PROVE f \in raced'
      <3>1. f \in Token \ New
        BY <1>1, <1>2, <1>4, <2>1 DEF TypeOK
      <3>2. CASE f \in ended
        BY <3>1, <3>2, <1>5, <2>1 DEF IInv, RaceInv, OnlyRacesOutliveEnd
      <3>3. CASE f \in req[r].ends
        <4>1. LiveIn(f) \subseteq req[r].writes \/ f \in raced
          BY <3>1, <3>3, <1>1 DEF HoldsAll, Ending
        <4> QED
          BY <3>1, <4>1, <1>5, <2>1
      <3> QED
        BY <3>2, <3>3
    <2> QED
      BY <2>1 DEF OnlyRacesOutliveEnd
  <1>9. ASSUME NEW q \in Request PROVE HoldsAll(req[q])' /\ SawRaced(req[q])'
    <2>1. CASE req'[q] = Idle
      BY <2>1 DEF HoldsAll, SawRaced, Ending, Idle
    <2>2. CASE q # r /\ req'[q] = req[q]
      <3>1. HoldsAll(req[q]) /\ SawRaced(req[q]) /\ RequestOK(req[q])
        BY DEF IInv, RaceInv, Shape
      <3>2. SawRaced(req[q])'
        BY <2>2, <3>1, <1>4 DEF SawRaced, RequestOK, OnToken
      <3>3. ASSUME NEW f \in Token, Ending(req[q], f)
            PROVE  LiveIn(f)' \subseteq req[q].writes \/ f \in raced'
        <4>1. f \in Token \ New
          BY <3>1, <3>3, <1>4 DEF RequestOK, Ending
        <4> QED
          BY <4>1, <3>1, <3>3, <1>5 DEF HoldsAll
      <3> QED
        BY <2>2, <3>2, <3>3 DEF HoldsAll, Ending
    <2> QED
      BY <2>1, <2>2, <1>3
  <1> QED
    BY <1>6, <1>7, <1>8, <1>9 DEF IInv, RaceInv

(* A login or a password change commits. *)
LEMMA CommitNewFamilyStep ==
  ASSUME IInv, NEW r \in Request, CommitNewFamily(r)
  PROVE  IInv'
  <1>1. TypeOK /\ req[r] \in Transaction /\ RequestOK(req[r])
    BY DEF IInv, TypeOK, Shape
  <1>2. /\ req[r].user \in User
        /\ req[r].writes \in SUBSET Token /\ \A t \in req[r].writes : Issued(t)
    BY <1>1 DEF CommitNewFamily, RequestOK, Transaction
  <1>3. PICK n \in Token : /\ ~Issued(n)
                           /\ token' = WithNew(Revoked(req[r].writes), n,
                                               req[r].user, n)
    BY DEF CommitNewFamily
  <1>4. /\ token' \in [Token -> Row]
        /\ token'[n] = [status |-> "live", user |-> req[r].user, family |-> n]
        /\ \A t \in Token \ {n} : /\ token'[t].user = token[t].user
                                  /\ token'[t].family = token[t].family
                                  /\ Issued(t)' <=> Issued(t)
                                  /\ Live(t)' <=> Live(t) /\ t \notin req[r].writes
    BY <1>1, <1>2, <1>3, NewRow
  <1>5. Issued(n)'
    BY <1>4 DEF Issued
  <1>6. \A m \in {n} : /\ ~Issued(m) /\ Issued(m)'
                       /\ token'[m].family = m /\ token'[m].user \in User
    BY <1>2, <1>3, <1>4, <1>5
  <1>7. /\ {n} \in SUBSET Token /\ account' \in [User -> Standing]
        /\ req[r].phase = "commit" /\ req' = [req EXCEPT ![r] = Idle]
        /\ ended' = ended \cup req[r].ends /\ raced' = raced
    BY <1>1 DEF CommitNewFamily, TypeOK
  <1> QED
    BY <1>4, <1>6, <1>7, EndStep

(* Every other operation commits. *)
LEMMA CommitRevocationStep ==
  ASSUME IInv, NEW r \in Request, CommitRevocation(r)
  PROVE  IInv'
  <1>1. TypeOK /\ req[r] \in Transaction /\ RequestOK(req[r])
    BY DEF IInv, TypeOK, Shape
  <1>2. /\ req[r].user \in User
        /\ req[r].writes \in SUBSET Token /\ \A t \in req[r].writes : Issued(t)
    BY <1>1 DEF CommitRevocation, RequestOK, Transaction
  <1>3. account' \in [User -> Standing]
    BY <1>1, <1>2 DEF CommitRevocation, TypeOK, Applied, NewStanding, Standing
  <1>4. /\ token' \in [Token -> Row]
        /\ \A t \in Token \ {} : /\ token'[t].user = token[t].user
                                 /\ token'[t].family = token[t].family
                                 /\ Issued(t)' <=> Issued(t)
                                 /\ Live(t)' <=> Live(t) /\ t \notin req[r].writes
    BY <1>1, <1>2, RevokedRows DEF CommitRevocation, Issued, Live
  <1>5. {} \in SUBSET Token
    OBVIOUS
  <1> QED
    BY <1>3, <1>4, <1>5, EndStep DEF CommitRevocation

(* Every step preserves the invariant. *)
LEMMA NextInv == IInv /\ [Next]_vars => IInv'
  <1> SUFFICES ASSUME IInv, [Next]_vars PROVE IInv'
    OBVIOUS
  <1>1. ASSUME NEW r \in Request, NEW t \in Token, BeginOnToken(r, t)
        PROVE  IInv'
    BY <1>1, BeginOnTokenStep
  <1>2. ASSUME NEW r \in Request, NEW u \in User, BeginOnUser(r, u)
        PROVE  IInv'
    BY <1>2, BeginOnUserStep
  <1>3. ASSUME NEW r \in Request, Advance(r) PROVE IInv'
    BY <1>3, LoadUserStep, TakeSnapshotStep, LockRowsStep, FlushStep,
       CommitRotationStep, CommitNewFamilyStep, CommitRevocationStep DEF Advance
  <1>4. ASSUME NEW r \in Request, Abort(r) \/ BreakDeadlock(r) PROVE IInv'
    BY <1>4, LeaveStep DEF Abort, BreakDeadlock
  <1>5. CASE UNCHANGED vars
    BY <1>5 DEF vars, IInv, TypeOK, Shape, RowOK, RequestOK, RaceInv, HoldsAll,
                SawRaced, Ending, OnlyRacesOutliveEnd, LiveIn, Live, Issued
  <1> QED
    BY <1>1, <1>2, <1>3, <1>4, <1>5 DEF Next

(* The invariant holds of every behaviour. *)
LEMMA SpecInv == Spec => []IInv
  BY InitInv, NextInv, PTL DEF Spec

(* Types, for any number of accounts, tokens and concurrent requests.      *)
THEOREM TypeCorrect == Spec => []TypeOK
  <1>1. IInv => TypeOK
    BY DEF IInv
  <1> QED
    BY <1>1, SpecInv, PTL

(* However many requests run, and wherever they fail, a family that was    *)
(* ended is live again only if a rotation overlapped its end.              *)
THEOREM OnlyRacesOutlive == Spec => []OnlyRacesOutliveEnd
  <1>1. IInv => OnlyRacesOutliveEnd
    BY DEF IInv, RaceInv
  <1> QED
    BY <1>1, SpecInv, PTL

-----------------------------------------------------------------------------
(* Requests that never overlap. *)
Alone == \A a, b \in Request : a = b

(* A rotation still sees what it read: whether its family was ended, and   *)
(* its token live; it is about to revoke exactly that token.               *)
SeesNow(x) ==
    x.op = "refresh" =>
        /\ x.sawEnded <=> token[x.token].family \in ended
        /\ Live(x.token)
        /\ x.phase = "commit" => x.writes = {x.token}

SoleLive ==
    \A s, t \in Token :
        Live(s) /\ Live(t) /\ token[s].family = token[t].family => s = t

AloneInv == raced = {} /\ SoleLive /\ \A r \in Request : SeesNow(req[r])

(* An idle slot has seen nothing that could be stale. *)
LEMMA SeesIdle == SeesNow(Idle)
  BY DEF SeesNow, Idle

(* A step that leaves the rows alone. *)
LEMMA AloneRequestStep ==
  ASSUME Alone, IInv, AloneInv, NEW r \in Request, NEW x,
         req' = [req EXCEPT ![r] = x], SeesNow(x),
         UNCHANGED <<token, ended, raced>>
  PROVE  AloneInv'
  <1>1. \A q \in Request : req'[q] = x
    BY DEF Alone, IInv, TypeOK
  <1> QED
    BY <1>1 DEF AloneInv, SoleLive, SeesNow, Live

(* A step that ends the request. *)
LEMMA AloneLeaveStep ==
  ASSUME Alone, IInv, NEW r \in Request, req' = [req EXCEPT ![r] = Idle],
         raced' = {}, SoleLive'
  PROVE  AloneInv'
  <1>1. \A q \in Request : req'[q] = Idle
    BY DEF Alone, IInv, TypeOK
  <1> QED
    BY <1>1 DEF AloneInv, SeesNow, Idle

(* Every step preserves the invariant of requests that do not overlap. *)
LEMMA AloneNext == Alone /\ IInv /\ AloneInv /\ [Next]_vars => AloneInv'
  <1> SUFFICES ASSUME Alone, IInv, AloneInv, [Next]_vars PROVE AloneInv'
    OBVIOUS
  <1>1. ASSUME NEW r \in Request, NEW t \in Token, BeginOnToken(r, t)
        PROVE  AloneInv'
    <2>1. CASE BeginRotation(r, t)
      <3> DEFINE x == [Idle EXCEPT !.op = "refresh", !.phase = "loadUser",
                                   !.user = token[t].user, !.token = t,
                                   !.sawEnded = token[t].family \in ended]
      <3>1. SeesNow(x)
        BY <2>1 DEF SeesNow, Idle, BeginRotation
      <3> QED
        BY <2>1, <3>1, AloneRequestStep DEF BeginRotation
    <2>2. CASE ~BeginRotation(r, t)
      <3>1. PICK o \in {"replay", "logout", "revokeSession"} :
               Begin(r, o, "revoke", token[t].user, t)
        BY <1>1, <2>2 DEF BeginOnToken, BeginReplay, BeginLogout,
                          BeginRevokeSession
      <3> DEFINE x == [Idle EXCEPT !.op = o, !.phase = "revoke",
                                   !.user = token[t].user, !.token = t]
      <3>2. SeesNow(x)
        BY DEF SeesNow, Idle
      <3> QED
        BY <3>1, <3>2, AloneRequestStep DEF Begin
    <2> QED
      BY <2>1, <2>2
  <1>2. ASSUME NEW r \in Request, NEW u \in User, BeginOnUser(r, u)
        PROVE  AloneInv'
    <2>1. PICK o \in {"login", "signOutAll", "reset", "changePassword",
                      "deactivate", "reactivate", "delete"},
               p \in {"revoke", "flush"} : Begin(r, o, p, u, NoToken)
      BY <1>2 DEF BeginOnUser, BeginLogin, BeginSignOutAll, BeginReset,
             BeginChangePassword, BeginDeactivate, BeginReactivate, BeginDelete
    <2> DEFINE x == [Idle EXCEPT !.op = o, !.phase = p,
                                 !.user = u, !.token = NoToken]
    <2>2. SeesNow(x)
      BY DEF SeesNow, Idle
    <2> QED
      BY <2>1, <2>2, AloneRequestStep DEF Begin
  <1>3. ASSUME NEW r \in Request, Advance(r) PROVE AloneInv'
    <2>1. /\ req[r] \in Transaction /\ RequestOK(req[r]) /\ SeesNow(req[r])
          /\ TypeOK /\ \A t \in Token : RowOK(t)
      BY DEF IInv, TypeOK, Shape, AloneInv
    <2>2. CASE LoadUser(r)
      <3> DEFINE x == [req[r] EXCEPT !.phase = "flush"]
      <3>1. SeesNow(x)
        BY <2>1 DEF SeesNow, Transaction
      <3> QED
        BY <2>2, <3>1, SeesIdle, AloneRequestStep DEF LoadUser
    <2>3. CASE TakeSnapshot(r)
      <3> DEFINE x == [req[r] EXCEPT !.phase = "lock",
                                     !.writes = Targets(req[r]),
                                     !.ends = Scope(req[r])]
      <3>1. req[r].op # "refresh"
        BY <2>1, <2>3 DEF TakeSnapshot, RequestOK
      <3>2. SeesNow(x)
        BY <2>1, <3>1 DEF SeesNow, Transaction
      <3> QED
        BY <2>3, <3>2, AloneRequestStep DEF TakeSnapshot
    <2>4. CASE LockRows(r)
      <3> DEFINE p == IF req[r].op \in LeavesUserRow THEN "commit" ELSE "flush"
                 W == {t \in req[r].writes : Live(t)}
                 x == [req[r] EXCEPT !.phase = p, !.writes = W]
      <3> HIDE DEF p, W
      <3>1. CASE req[r].op = "refresh"
        <4>1. p = "flush"
          BY <3>1 DEF p, LeavesUserRow
        <4> QED
          BY <2>1, <2>4, <3>1, <4>1, AloneRequestStep
             DEF SeesNow, Transaction, LockRows, p, W
      <3>2. CASE req[r].op # "refresh"
        <4>1. SeesNow(x)
          BY <2>1, <3>2 DEF SeesNow, Transaction
        <4> QED
          BY <2>4, <4>1, AloneRequestStep DEF LockRows, p, W
      <3> QED
        BY <3>1, <3>2
    <2>5. CASE FlushUser(r)
      <3> DEFINE p == IF req[r].op = "refresh" THEN "store" ELSE "commit"
                 x == [req[r] EXCEPT !.phase = p]
      <3>1. SeesNow(x)
        BY <2>1 DEF SeesNow, Transaction
      <3>2. req' = [req EXCEPT ![r] = x]
        BY <2>1, <2>5 DEF FlushUser, TypeOK, Transaction
      <3> QED
        BY <2>5, <3>1, <3>2, AloneRequestStep DEF FlushUser
    <2>6. CASE FlushToken(r)
      <3> DEFINE x == [req[r] EXCEPT !.phase = "commit",
                                     !.writes = {req[r].token}]
      <3>1. SeesNow(x)
        BY <2>1 DEF SeesNow, Transaction
      <3> QED
        BY <2>6, <3>1, AloneRequestStep DEF FlushToken
    <2>7. CASE CommitRotation(r)
      <3> DEFINE g == token[req[r].token].family
                 W == req[r].writes
      <3>1. /\ req[r].token \in Token /\ g \in Token /\ req[r].user \in User
            /\ Live(req[r].token) /\ W = {req[r].token} /\ Issued(req[r].token)
        BY <2>1, <2>7 DEF CommitRotation, RequestOK, OnToken, RowOK, SeesNow
      <3>2. raced' = {}
        <4>1. ~Overlaps(r, g)
          BY <2>1, <2>7 DEF Overlaps, PendingEnd, Alone, SeesNow,
                            CommitRotation, RequestOK
        <4> QED
          BY <2>7, <4>1 DEF CommitRotation, AloneInv
      <3>3. PICK n \in Token : /\ ~Issued(n)
                               /\ token' = WithNew(Revoked(W), n, req[r].user, g)
        BY <2>7 DEF CommitRotation
      <3> HIDE DEF g
      <3>4. /\ token'[n].family = g
            /\ \A t \in Token \ {n} : /\ token'[t].family = token[t].family
                                      /\ Live(t)' <=> Live(t) /\ t \notin W
        <4>1. W \in SUBSET Token /\ \A t \in W : Issued(t)
          BY <3>1
        <4>2. /\ token' \in [Token -> Row]
              /\ token'[n] = [status |-> "live", user |-> req[r].user, family |-> g]
              /\ \A t \in Token \ {n} : /\ token'[t].user = token[t].user
                                        /\ token'[t].family = token[t].family
                                        /\ Issued(t)' <=> Issued(t)
                                        /\ Live(t)' <=> Live(t) /\ t \notin W
          BY <2>1, <3>1, <3>3, <4>1, NewRow
        <4> QED
          BY <4>2
      <3>5. SoleLive'
        <4>1. \A t \in Token \ {n} : Live(t)' => token'[t].family # g
          BY <3>1, <3>4 DEF AloneInv, SoleLive, g
        <4> QED
          BY <3>4, <4>1 DEF AloneInv, SoleLive
      <3> QED
        BY <2>7, <3>2, <3>5, AloneLeaveStep DEF CommitRotation
    <2>8. CASE CommitNewFamily(r)
      <3> DEFINE W == req[r].writes
      <3>1. /\ req[r].user \in User
            /\ W \in SUBSET Token /\ \A t \in W : Issued(t)
        BY <2>1, <2>8 DEF CommitNewFamily, RequestOK, Transaction
      <3>2. PICK n \in Token : /\ ~Issued(n)
                               /\ token' = WithNew(Revoked(W), n, req[r].user, n)
        BY <2>8 DEF CommitNewFamily
      <3>3. /\ token'[n].family = n
            /\ \A t \in Token \ {n} : /\ token'[t].family = token[t].family
                                      /\ Live(t)' <=> Live(t) /\ t \notin W
        <4>1. /\ token' \in [Token -> Row]
              /\ token'[n] = [status |-> "live", user |-> req[r].user, family |-> n]
              /\ \A t \in Token \ {n} : /\ token'[t].user = token[t].user
                                        /\ token'[t].family = token[t].family
                                        /\ Issued(t)' <=> Issued(t)
                                        /\ Live(t)' <=> Live(t) /\ t \notin W
          BY <2>1, <3>1, <3>2, NewRow
        <4> QED
          BY <4>1
      <3>4. SoleLive'
        <4>1. \A t \in Token \ {n} : Live(t)' => token'[t].family # n
          BY <2>1, <3>2, <3>3 DEF RowOK, Live, Issued
        <4> QED
          BY <3>3, <4>1 DEF AloneInv, SoleLive
      <3> QED
        BY <2>8, <3>4, AloneLeaveStep DEF CommitNewFamily, AloneInv
    <2>9. CASE CommitRevocation(r)
      <3>1. req[r].writes \in SUBSET Token /\ \A t \in req[r].writes : Issued(t)
        BY <2>1 DEF RequestOK, Transaction
      <3>2. \A t \in Token : /\ token'[t].family = token[t].family
                             /\ Live(t)' => Live(t)
        BY <2>1, <2>9, <3>1, RevokedRows DEF CommitRevocation, Live
      <3>3. SoleLive'
        BY <3>2 DEF AloneInv, SoleLive
      <3> QED
        BY <2>9, <3>3, AloneLeaveStep DEF CommitRevocation, AloneInv
    <2> QED
      BY <1>3, <2>2, <2>3, <2>4, <2>5, <2>6, <2>7, <2>8, <2>9 DEF Advance
  <1>4. ASSUME NEW r \in Request, Abort(r) \/ BreakDeadlock(r) PROVE AloneInv'
    BY <1>4, SeesIdle, AloneRequestStep DEF Abort, BreakDeadlock
  <1>5. CASE UNCHANGED vars
    BY <1>5 DEF vars, AloneInv, SoleLive, SeesNow, Live
  <1> QED
    BY <1>1, <1>2, <1>3, <1>4, <1>5 DEF Next

(* It holds of every behaviour of such requests. *)
LEMMA AloneSpec == ASSUME Alone PROVE Spec => []AloneInv
  <1>1. Init => AloneInv
    BY DEF Init, AloneInv, SoleLive, SeesNow, Idle, Live, Unused
  <1>2. IInv /\ AloneInv /\ [Next]_vars => AloneInv'
    BY AloneNext
  <1> QED
    BY <1>1, <1>2, SpecInv, PTL DEF Spec

(* When requests do not overlap, an ended family never has a live token    *)
(* again, whatever the number of tokens and wherever a request fails.      *)
THEOREM EndIsFinalAlone == ASSUME Alone PROVE Spec => []EndedStaysEnded
  <1>1. IInv /\ AloneInv => EndedStaysEnded
    BY DEF IInv, RaceInv, OnlyRacesOutliveEnd, AloneInv, EndedStaysEnded
  <1> QED
    BY <1>1, SpecInv, AloneSpec, PTL

(* When requests do not overlap, a family has at most one live token.      *)
THEOREM OneLiveAlone == ASSUME Alone PROVE Spec => []OneLivePerFamily
  <1>1. AloneInv => OneLivePerFamily
    <2> SUFFICES ASSUME AloneInv, NEW f \in Token
                 PROVE  Cardinality(LiveIn(f)) <= 1
      BY DEF OneLivePerFamily
    <2>1. CASE LiveIn(f) = {}
      BY <2>1, FS_EmptySet
    <2>2. CASE LiveIn(f) # {}
      <3>1. PICK t \in LiveIn(f) : LiveIn(f) = {t}
        BY <2>2 DEF LiveIn, AloneInv, SoleLive
      <3> QED
        BY <3>1, FS_Singleton
    <2> QED
      BY <2>1, <2>2
  <1> QED
    BY <1>1, AloneSpec, PTL

-----------------------------------------------------------------------------
(* What a request that issues a token, or that is to shut an account, has  *)
(* found still holds.                                                      *)
Earned(x) ==
    /\ \/ x.op \in {"login", "changePassword"}
       \/ x.op = "refresh" /\ x.phase # "loadUser"
       => account[x.user] = "active"
    /\ x.op \in {"deactivate", "delete"} /\ x.phase \in {"lock", "flush", "commit"}
       => LiveOf(x.user) \subseteq x.writes

ShutInv == InactiveHasNoSession /\ \A r \in Request : Earned(req[r])

LEMMA EarnedIdle == Earned(Idle)
  BY DEF Earned, Idle

(* A step that leaves the rows alone. *)
LEMMA ShutRequestStep ==
  ASSUME Alone, IInv, ShutInv, NEW r \in Request, NEW x,
         req' = [req EXCEPT ![r] = x], Earned(x),
         UNCHANGED <<token, account>>
  PROVE  ShutInv'
  <1>1. \A q \in Request : req'[q] = x
    BY DEF Alone, IInv, TypeOK
  <1> QED
    BY <1>1 DEF ShutInv, InactiveHasNoSession, Earned, LiveOf, Live

(* A commit. *)
LEMMA ShutCommitStep ==
  ASSUME Alone, IInv, NEW r \in Request, req' = [req EXCEPT ![r] = Idle],
         InactiveHasNoSession'
  PROVE  ShutInv'
  <1>1. \A q \in Request : req'[q] = Idle
    BY DEF Alone, IInv, TypeOK
  <1> QED
    BY <1>1 DEF ShutInv, Earned, Idle

(* One that adds a token of an active account. *)
LEMMA ShutNewRow ==
  ASSUME TypeOK, ShutInv, NEW W \in SUBSET Token, \A t \in W : Issued(t),
         NEW n \in Token, ~Issued(n), NEW u \in User, NEW f \in Token,
         token' = WithNew(Revoked(W), n, u, f),
         account[u] = "active", account' = account
  PROVE  InactiveHasNoSession'
  <1>1. /\ token'[n] = [status |-> "live", user |-> u, family |-> f]
        /\ \A t \in Token \ {n} : /\ token'[t].user = token[t].user
                                  /\ Live(t)' <=> Live(t) /\ t \notin W
    BY NewRow
  <1> QED
    BY <1>1 DEF ShutInv, InactiveHasNoSession, LiveOf

LEMMA ShutCommit ==
  ASSUME Alone, IInv, ShutInv, NEW r \in Request,
         CommitRotation(r) \/ CommitNewFamily(r) \/ CommitRevocation(r)
  PROVE  ShutInv'
  <1> DEFINE W == req[r].writes
  <1>1. /\ req[r] \in Transaction /\ RequestOK(req[r]) /\ Earned(req[r])
        /\ TypeOK /\ \A t \in Token : RowOK(t)
    BY DEF IInv, TypeOK, Shape, ShutInv
  <1>2. /\ req[r].phase = "commit" /\ req[r].user \in User
        /\ W \in SUBSET Token /\ \A t \in W : Issued(t)
    BY <1>1 DEF CommitRotation, CommitNewFamily, CommitRevocation, RequestOK, Transaction
  <1>3. CASE CommitRotation(r)
    <2> DEFINE g == token[req[r].token].family
    <2>1. g \in Token /\ account[req[r].user] = "active"
      BY <1>1, <1>2, <1>3 DEF CommitRotation, RequestOK, OnToken, RowOK, Earned
    <2>2. PICK n \in Token : /\ ~Issued(n)
                             /\ token' = WithNew(Revoked(W), n, req[r].user, g)
      BY <1>3 DEF CommitRotation
    <2> HIDE DEF g
    <2> QED
      BY <1>1, <1>2, <1>3, <2>1, <2>2, ShutNewRow, ShutCommitStep DEF CommitRotation
  <1>4. CASE CommitNewFamily(r)
    <2>1. account[req[r].user] = "active"
      BY <1>1, <1>4 DEF CommitNewFamily, Earned
    <2>2. PICK n \in Token : /\ ~Issued(n)
                             /\ token' = WithNew(Revoked(W), n, req[r].user, n)
      BY <1>4 DEF CommitNewFamily
    <2> QED
      BY <1>1, <1>2, <1>4, <2>1, <2>2, ShutNewRow, ShutCommitStep DEF CommitNewFamily
  <1>5. CASE CommitRevocation(r)
    <2>1. \A t \in Token : /\ token'[t].user = token[t].user
                           /\ Live(t)' <=> Live(t) /\ t \notin W
      BY <1>1, <1>2, <1>5, RevokedRows DEF CommitRevocation, Live
    <2>2. /\ \A u \in User \ {req[r].user} : account'[u] = account[u]
          /\ account'[req[r].user] = Applied(req[r].op, account[req[r].user])
      BY <1>1, <1>2, <1>5 DEF CommitRevocation, TypeOK
    <2>3. ASSUME NEW u \in User, account'[u] # "active" PROVE LiveOf(u)' = {}
      <3>1. CASE account[u] # "active"
        BY <2>1, <3>1 DEF ShutInv, InactiveHasNoSession, LiveOf
      <3>2. CASE account[u] = "active"
        <4>1. u = req[r].user /\ req[r].op \in {"deactivate", "delete"}
          BY <2>2, <2>3, <3>2 DEF Applied, NewStanding
        <4>2. LiveOf(u) \subseteq W
          BY <1>1, <1>2, <4>1 DEF Earned
        <4> QED
          BY <2>1, <4>2 DEF LiveOf
      <3> QED
        BY <3>1, <3>2
    <2> QED
      BY <1>5, <2>3, ShutCommitStep DEF CommitRevocation, InactiveHasNoSession
  <1> QED
    BY <1>3, <1>4, <1>5

LEMMA ShutNext == Alone /\ IInv /\ ShutInv /\ [Next]_vars => ShutInv'
  <1> SUFFICES ASSUME Alone, IInv, ShutInv, [Next]_vars PROVE ShutInv'
    OBVIOUS
  <1>1. ASSUME NEW r \in Request, NEW t \in Token, BeginOnToken(r, t)
        PROVE  ShutInv'
    <2>1. CASE BeginRotation(r, t)
      <3> DEFINE x == [Idle EXCEPT !.op = "refresh", !.phase = "loadUser",
                                   !.user = token[t].user, !.token = t,
                                   !.sawEnded = token[t].family \in ended]
      <3>1. Earned(x)
        BY DEF Earned, Idle
      <3> QED
        BY <2>1, <3>1, ShutRequestStep DEF BeginRotation
    <2>2. CASE ~BeginRotation(r, t)
      <3>1. PICK o \in {"replay", "logout", "revokeSession"} :
               Begin(r, o, "revoke", token[t].user, t)
        BY <1>1, <2>2 DEF BeginOnToken, BeginReplay, BeginLogout,
                          BeginRevokeSession
      <3> DEFINE x == [Idle EXCEPT !.op = o, !.phase = "revoke",
                                   !.user = token[t].user, !.token = t]
      <3>2. Earned(x)
        BY DEF Earned, Idle
      <3> QED
        BY <3>1, <3>2, ShutRequestStep DEF Begin
    <2> QED
      BY <2>1, <2>2
  <1>2. ASSUME NEW r \in Request, NEW u \in User, BeginOnUser(r, u)
        PROVE  ShutInv'
    <2>1. PICK o \in {"login", "signOutAll", "reset", "changePassword",
                      "deactivate", "reactivate", "delete"},
               p \in {"revoke", "flush"} :
             /\ Begin(r, o, p, u, NoToken)
             /\ o \in {"login", "changePassword"} => account[u] = "active"
             /\ o \in {"deactivate", "delete"} => p = "revoke"
      BY <1>2 DEF BeginOnUser, BeginLogin, BeginSignOutAll, BeginReset,
             BeginChangePassword, BeginDeactivate, BeginReactivate, BeginDelete
    <2> DEFINE x == [Idle EXCEPT !.op = o, !.phase = p,
                                 !.user = u, !.token = NoToken]
    <2>2. Earned(x)
      BY <2>1 DEF Earned, Idle
    <2> QED
      BY <2>1, <2>2, ShutRequestStep DEF Begin
  <1>3. ASSUME NEW r \in Request, Advance(r) PROVE ShutInv'
    <2>1. /\ req[r] \in Transaction /\ RequestOK(req[r]) /\ Earned(req[r])
      BY DEF IInv, TypeOK, Shape, ShutInv
    <2>2. CASE LoadUser(r)
      <3> DEFINE x == [req[r] EXCEPT !.phase = "flush"]
      <3>1. account[req[r].user] = "active" => Earned(x)
        BY <2>1, <2>2 DEF Earned, Transaction, LoadUser, RequestOK
      <3> QED
        BY <2>2, <3>1, EarnedIdle, ShutRequestStep DEF LoadUser
    <2>3. CASE TakeSnapshot(r)
      <3> DEFINE x == [req[r] EXCEPT !.phase = "lock",
                                     !.writes = Targets(req[r]),
                                     !.ends = Scope(req[r])]
      <3>1. x.op \in {"deactivate", "delete"} => x.writes = LiveOf(x.user)
        BY <2>1 DEF Targets, FamilyWide, Transaction
      <3>2. x.op = req[r].op /\ x.user = req[r].user /\ req[r].op # "refresh"
        BY <2>1, <2>3 DEF TakeSnapshot, RequestOK, Transaction
      <3>3. Earned(x)
        BY <2>1, <3>1, <3>2 DEF Earned
      <3> QED
        BY <2>3, <3>3, ShutRequestStep DEF TakeSnapshot
    <2>4. CASE LockRows(r)
      <3> DEFINE p == IF req[r].op \in LeavesUserRow THEN "commit" ELSE "flush"
                 W == {t \in req[r].writes : Live(t)}
                 x == [req[r] EXCEPT !.phase = p, !.writes = W]
      <3>1. Earned(x)
        <4>1. x.op = req[r].op /\ x.user = req[r].user /\ x.writes = W
          BY <2>1 DEF Transaction
        <4>2. req[r].phase = "lock" /\ LiveOf(req[r].user) \subseteq req[r].writes
              => LiveOf(req[r].user) \subseteq W
          BY DEF LiveOf
        <4>3. req[r].phase = "lock"
          BY <2>4 DEF LockRows
        <4> HIDE DEF x, W
        <4> QED
          BY <2>1, <4>1, <4>2, <4>3 DEF Earned
      <3> QED
        BY <2>4, <3>1, ShutRequestStep DEF LockRows
    <2>5. CASE FlushUser(r)
      <3> DEFINE p == IF req[r].op = "refresh" THEN "store" ELSE "commit"
                 x == [req[r] EXCEPT !.phase = p]
      <3>1. Earned(x)
        BY <2>1, <2>5 DEF Earned, Transaction, FlushUser
      <3>2. req' = [req EXCEPT ![r] = x]
        BY <2>1, <2>5 DEF FlushUser, IInv, TypeOK, Transaction
      <3> QED
        BY <2>5, <3>1, <3>2, ShutRequestStep DEF FlushUser
    <2>6. CASE FlushToken(r)
      <3> DEFINE x == [req[r] EXCEPT !.phase = "commit",
                                     !.writes = {req[r].token}]
      <3>1. Earned(x)
        BY <2>1, <2>6 DEF Earned, Transaction, FlushToken, RequestOK
      <3> QED
        BY <2>6, <3>1, ShutRequestStep DEF FlushToken
    <2> QED
      BY <1>3, <2>2, <2>3, <2>4, <2>5, <2>6, ShutCommit DEF Advance
  <1>4. ASSUME NEW r \in Request, Abort(r) \/ BreakDeadlock(r) PROVE ShutInv'
    BY <1>4, EarnedIdle, ShutRequestStep DEF Abort, BreakDeadlock
  <1>5. CASE UNCHANGED vars
    BY <1>5 DEF vars, ShutInv, InactiveHasNoSession, Earned, LiveOf, Live
  <1> QED
    BY <1>1, <1>2, <1>3, <1>4, <1>5 DEF Next

(* When requests do not overlap, an account that is disabled or removed    *)
(* has no live token, so that enabling it revives no session.              *)
THEOREM ShutOutAlone == ASSUME Alone PROVE Spec => []InactiveHasNoSession
  <1>1. Init => ShutInv
    BY DEF Init, ShutInv, InactiveHasNoSession, Earned, Idle
  <1>2. IInv /\ ShutInv /\ [Next]_vars => ShutInv'
    BY ShutNext
  <1>3. ShutInv => InactiveHasNoSession
    BY DEF ShutInv
  <1> QED
    BY <1>1, <1>2, <1>3, SpecInv, PTL DEF Spec
-----------------------------------------------------------------------------
(* Requests that never overlap implement SessionContract.  A slot without  *)
(* a token has nothing in its row, and a request that revokes still holds  *)
(* exactly the rows it would choose now.                                   *)
Untouched == \A t \in Token : ~Issued(t) => token[t] = Unused

WritesNothing == {"login", "reactivate"}

Revokes == {"replay", "logout", "revokeSession", "signOutAll", "reset",
            "changePassword", "deactivate", "delete"}

Chosen(x) ==
    /\ x.phase # "idle" => x.op # "none"
    /\ x.op \in WritesNothing => x.writes = {} /\ x.phase \notin {"revoke", "lock"}
    /\ x.op \in Revokes /\ x.phase \in {"lock", "flush", "commit"}
       => x.writes = Targets(x)

ContractInv == Untouched /\ \A r \in Request : Chosen(req[r])

LEMMA ChosenIdle == Chosen(Idle)
  BY DEF Chosen, Idle, WritesNothing, Revokes

(* A step that leaves the rows alone. *)
LEMMA ContractRequestStep ==
  ASSUME Alone, IInv, ContractInv, NEW r \in Request, NEW x,
         req' = [req EXCEPT ![r] = x], Chosen(x), UNCHANGED token
  PROVE  ContractInv'
  <1>1. \A q \in Request : req'[q] = x
    BY DEF Alone, IInv, TypeOK
  <1>2. ASSUME NEW q \in Request PROVE Targets(req[q])' = Targets(x)
    <2>1. req'[q] = x
      BY <1>1
    <2>2. \A u, f : LiveOf(u)' = LiveOf(u) /\ LiveIn(f)' = LiveIn(f)
      BY DEF LiveOf, LiveIn, Live
    <2> QED
      BY <2>1, <2>2 DEF Targets
  <1>3. Untouched'
    BY DEF ContractInv, Untouched, Issued
  <1> QED
    BY <1>1, <1>2, <1>3 DEF ContractInv, Chosen

(* A step that ends the request. *)
LEMMA ContractLeaveStep ==
  ASSUME Alone, IInv, NEW r \in Request, req' = [req EXCEPT ![r] = Idle], Untouched'
  PROVE  ContractInv'
  <1>1. \A q \in Request : req'[q] = Idle
    BY DEF Alone, IInv, TypeOK
  <1> QED
    BY <1>1 DEF ContractInv, Chosen, Idle, WritesNothing, Revokes

(* What a commit makes of the rows, for the invariant and the mapping.     *)
LEMMA CommitRows ==
  ASSUME IInv, ContractInv, NEW r \in Request, NEW f \in Token,
         NEW n \in Token, ~Issued(n),
         req[r].phase = "commit",
         token' = WithNew(Revoked(req[r].writes), n, req[r].user, f)
  PROVE  /\ token'[n] = [status |-> "live", user |-> req[r].user, family |-> f]
         /\ \A t \in Token \ {n} : /\ token'[t].user = token[t].user
                                   /\ token'[t].family = token[t].family
                                   /\ Issued(t)' <=> Issued(t)
                                   /\ Live(t)' <=> Live(t) /\ t \notin req[r].writes
         /\ Untouched'
  <1>1. /\ req[r] \in Transaction /\ RequestOK(req[r]) /\ TypeOK /\ Untouched
    BY DEF IInv, TypeOK, Shape, ContractInv
  <1>2. /\ req[r].user \in User /\ req[r].writes \in SUBSET Token
        /\ \A t \in req[r].writes : Issued(t)
    BY <1>1 DEF RequestOK, Transaction
  <1>3. \A t \in Token \ {n} : ~Issued(t) => token'[t] = token[t]
    BY <1>1, <1>2 DEF WithNew, Revoked, TypeOK
  <1>4. /\ token'[n] = [status |-> "live", user |-> req[r].user, family |-> f]
        /\ \A t \in Token \ {n} : /\ token'[t].user = token[t].user
                                  /\ token'[t].family = token[t].family
                                  /\ Issued(t)' <=> Issued(t)
                                  /\ Live(t)' <=> Live(t) /\ t \notin req[r].writes
    BY <1>1, <1>2, NewRow
  <1>5. Issued(n)'
    BY <1>4 DEF Issued
  <1> QED
    BY <1>1, <1>3, <1>4, <1>5 DEF Untouched

LEMMA RevocationRows ==
  ASSUME IInv, ContractInv, NEW r \in Request, CommitRevocation(r)
  PROVE  /\ \A t \in Token : /\ token'[t].user = token[t].user
                             /\ token'[t].family = token[t].family
                             /\ Live(t)' <=> Live(t) /\ t \notin req[r].writes
         /\ Untouched'
  <1>1. /\ req[r] \in Transaction /\ RequestOK(req[r]) /\ TypeOK /\ Untouched
    BY DEF IInv, TypeOK, Shape, ContractInv
  <1>2. req[r].writes \in SUBSET Token /\ \A t \in req[r].writes : Issued(t)
    BY <1>1 DEF RequestOK, Transaction
  <1>3. \A t \in Token : /\ ~Issued(t)' => token'[t] = token[t] /\ ~Issued(t)
    BY <1>1, <1>2 DEF CommitRevocation, Revoked, TypeOK, Issued
  <1>4. \A t \in Token : /\ token'[t].user = token[t].user
                         /\ token'[t].family = token[t].family
                         /\ Live(t)' <=> Live(t) /\ t \notin req[r].writes
    BY <1>1, <1>2, RevokedRows DEF CommitRevocation, Live
  <1> QED
    BY <1>1, <1>3, <1>4 DEF Untouched

(* Every step preserves the invariant. *)
LEMMA ContractNext == Alone /\ IInv /\ ContractInv /\ [Next]_vars => ContractInv'
  <1> SUFFICES ASSUME Alone, IInv, ContractInv, [Next]_vars PROVE ContractInv'
    OBVIOUS
  <1>1. ASSUME NEW r \in Request, NEW t \in Token, BeginOnToken(r, t)
        PROVE  ContractInv'
    <2>1. CASE BeginRotation(r, t)
      <3> DEFINE x == [Idle EXCEPT !.op = "refresh", !.phase = "loadUser",
                                   !.user = token[t].user, !.token = t,
                                   !.sawEnded = token[t].family \in ended]
      <3>1. Chosen(x)
        BY DEF Chosen, Idle, WritesNothing, Revokes
      <3> QED
        BY <2>1, <3>1, ContractRequestStep DEF BeginRotation
    <2>2. CASE ~BeginRotation(r, t)
      <3>1. PICK o \in {"replay", "logout", "revokeSession"} :
               Begin(r, o, "revoke", token[t].user, t)
        BY <1>1, <2>2 DEF BeginOnToken, BeginReplay, BeginLogout,
                          BeginRevokeSession
      <3> DEFINE x == [Idle EXCEPT !.op = o, !.phase = "revoke",
                                   !.user = token[t].user, !.token = t]
      <3>2. Chosen(x)
        BY DEF Chosen, Idle, WritesNothing
      <3> QED
        BY <3>1, <3>2, ContractRequestStep DEF Begin
    <2> QED
      BY <2>1, <2>2
  <1>2. ASSUME NEW r \in Request, NEW u \in User, BeginOnUser(r, u)
        PROVE  ContractInv'
    <2>1. PICK o \in {"login", "signOutAll", "reset", "changePassword",
                      "deactivate", "reactivate", "delete"},
               p \in {"revoke", "flush"} :
             /\ Begin(r, o, p, u, NoToken)
             /\ p = "flush" <=> o \in WritesNothing
      BY <1>2 DEF BeginOnUser, BeginLogin, BeginSignOutAll, BeginReset,
             BeginChangePassword, BeginDeactivate, BeginReactivate, BeginDelete,
             WritesNothing
    <2> DEFINE x == [Idle EXCEPT !.op = o, !.phase = p,
                                 !.user = u, !.token = NoToken]
    <2>2. Chosen(x)
      BY <2>1 DEF Chosen, Idle, WritesNothing, Revokes
    <2> QED
      BY <2>1, <2>2, ContractRequestStep DEF Begin
  <1>3. ASSUME NEW r \in Request, Advance(r) PROVE ContractInv'
    <2>1. /\ req[r] \in Transaction /\ RequestOK(req[r]) /\ Chosen(req[r])
      BY DEF IInv, TypeOK, Shape, ContractInv
    <2>2. CASE LoadUser(r)
      <3> DEFINE x == [req[r] EXCEPT !.phase = "flush"]
      <3>1. Chosen(x)
        BY <2>1, <2>2 DEF Chosen, Transaction, LoadUser, RequestOK, Revokes, WritesNothing
      <3> QED
        BY <2>2, <3>1, ChosenIdle, ContractRequestStep DEF LoadUser
    <2>3. CASE TakeSnapshot(r)
      <3> DEFINE x == [req[r] EXCEPT !.phase = "lock",
                                     !.writes = Targets(req[r]),
                                     !.ends = Scope(req[r])]
      <3>1. x.op = req[r].op /\ x.writes = Targets(req[r])
        BY <2>1 DEF Transaction
      <3>2. Targets(x) = Targets(req[r])
        BY <2>1 DEF Targets, Transaction
      <3>3. Chosen(x)
        BY <2>1, <2>3, <3>1, <3>2 DEF Chosen, TakeSnapshot
      <3> QED
        BY <2>3, <3>3, ContractRequestStep DEF TakeSnapshot
    <2>4. CASE LockRows(r)
      <3> DEFINE p == IF req[r].op \in LeavesUserRow THEN "commit" ELSE "flush"
                 W == {t \in req[r].writes : Live(t)}
                 x == [req[r] EXCEPT !.phase = p, !.writes = W]
      <3>1. x.op = req[r].op /\ x.writes = W
        BY <2>1 DEF Transaction
      <3>2. Targets(x) = Targets(req[r])
        BY <2>1 DEF Targets, Transaction
      <3>3. \A t \in Targets(req[r]) : Live(t)
        BY DEF Targets, LiveIn, LiveOf
      <3>4. req[r].op \in Revokes => W = Targets(x)
        BY <2>1, <2>4, <3>2, <3>3 DEF Chosen, LockRows
      <3>5. req[r].op \notin WritesNothing /\ req[r].op # "none"
        BY <2>1, <2>4 DEF Chosen, LockRows
      <3> HIDE DEF x, W
      <3>6. Chosen(x)
        BY <3>1, <3>4, <3>5 DEF Chosen
      <3> QED
        BY <2>4, <3>6, ContractRequestStep DEF LockRows, x, W
    <2>5. CASE FlushUser(r)
      <3> DEFINE p == IF req[r].op = "refresh" THEN "store" ELSE "commit"
                 x == [req[r] EXCEPT !.phase = p]
      <3>1. /\ x.op = req[r].op /\ x.writes = req[r].writes
            /\ x.phase \in {"store", "commit"}
        BY <2>1 DEF Transaction
      <3>2. Targets(x) = Targets(req[r])
        BY <2>1 DEF Targets, Transaction
      <3>3. Chosen(x)
        BY <2>1, <2>5, <3>1, <3>2 DEF Chosen, FlushUser
      <3>4. req' = [req EXCEPT ![r] = x]
        BY <2>1, <2>5 DEF FlushUser, IInv, TypeOK, Transaction
      <3> QED
        BY <2>5, <3>3, <3>4, ContractRequestStep DEF FlushUser
    <2>6. CASE FlushToken(r)
      <3> DEFINE x == [req[r] EXCEPT !.phase = "commit",
                                     !.writes = {req[r].token}]
      <3>1. Chosen(x)
        BY <2>1, <2>6 DEF Chosen, Transaction, FlushToken, RequestOK, Revokes, WritesNothing
      <3> QED
        BY <2>6, <3>1, ContractRequestStep DEF FlushToken
    <2>7. CASE CommitRotation(r) \/ CommitNewFamily(r)
      <3>1. PICK n \in Token, f \in Token :
               /\ ~Issued(n)
               /\ token' = WithNew(Revoked(req[r].writes), n, req[r].user, f)
        <4>1. CASE CommitRotation(r)
          <5>1. token[req[r].token].family \in Token
            BY <2>1, <4>1 DEF CommitRotation, RequestOK, OnToken, RowOK, IInv, Shape
          <5> QED
            BY <4>1, <5>1 DEF CommitRotation
        <4>2. CASE CommitNewFamily(r)
          BY <4>2 DEF CommitNewFamily
        <4> QED
          BY <2>7, <4>1, <4>2
      <3>2. Untouched'
        BY <2>7, <3>1, CommitRows DEF CommitRotation, CommitNewFamily
      <3> QED
        BY <2>7, <3>2, ContractLeaveStep DEF CommitRotation, CommitNewFamily
    <2>8. CASE CommitRevocation(r)
      BY <2>8, RevocationRows, ContractLeaveStep DEF CommitRevocation
    <2> QED
      BY <1>3, <2>2, <2>3, <2>4, <2>5, <2>6, <2>7, <2>8 DEF Advance
  <1>4. ASSUME NEW r \in Request, Abort(r) \/ BreakDeadlock(r) PROVE ContractInv'
    BY <1>4, ChosenIdle, ContractRequestStep DEF Abort, BreakDeadlock
  <1>5. CASE UNCHANGED vars
    <2>1. \A u, f : LiveOf(u)' = LiveOf(u) /\ LiveIn(f)' = LiveIn(f)
      BY <1>5 DEF vars, LiveOf, LiveIn, Live
    <2>2. ASSUME NEW q \in Request PROVE Targets(req[q])' = Targets(req[q])
      BY <1>5, <2>1 DEF vars, Targets
    <2>3. Untouched'
      BY <1>5 DEF vars, ContractInv, Untouched, Issued
    <2> QED
      BY <1>5, <2>2, <2>3 DEF vars, ContractInv, Chosen
  <1> QED
    BY <1>1, <1>2, <1>3, <1>4, <1>5 DEF Next

(* What the mapping makes of a family, and when it makes a step of a       *)
(* commit: another family is opened, with those in S ended; ...            *)
LEMMA MapsToOpened ==
  ASSUME NEW n \in Token, NEW u, NEW S \in SUBSET Token,
         ~Head(n), Head(n)', token'[n].user = u, LiveIn(n)' # {},
         \A f \in Token \ {n} :
            /\ Head(f)' <=> Head(f)
            /\ token'[f].user = token[f].user
            /\ Head(f) /\ f \in S => LiveIn(f)' = {}
            /\ Head(f) /\ f \notin S => LiveIn(f)' = LiveIn(f),
         \A f \in S : Head(f)
  PROVE  Contract!Opened(n, u, S)
  <1> DEFINE stands(f) == IF ~Head(f) THEN "none"
                          ELSE IF LiveIn(f) # {} THEN "open" ELSE "ended"
             owner(f) == IF Head(f) THEN token[f].user ELSE NoUser
  <1>1. stands(n) = "none" /\ stands(n)' = "open" /\ owner(n)' = u /\ n \notin S
    OBVIOUS
  <1>2. ASSUME NEW f \in Token, f # n
        PROVE  /\ stands(f)' = IF f \in S THEN "ended" ELSE stands(f)
               /\ owner(f)' = owner(f)
    BY <1>2
  <1>3. /\ [f \in Token |-> stands(f)]' = [f \in Token |->
                                             IF f = n THEN "open"
                                             ELSE IF f \in S THEN "ended"
                                             ELSE [g \in Token |-> stands(g)][f]]
        /\ [f \in Token |-> owner(f)]' = [[f \in Token |-> owner(f)] EXCEPT ![n] = u]
    BY <1>1, <1>2
  <1> QED
    BY <1>1, <1>3 DEF Contract!Opened

(* ... those in S are ended; ... *)
LEMMA MapsToEnded ==
  ASSUME NEW S \in SUBSET Token, S # {},
         \A f \in Token :
            /\ Head(f)' <=> Head(f)
            /\ token'[f].user = token[f].user
            /\ Head(f) /\ f \in S => LiveIn(f)' = {}
            /\ Head(f) /\ f \notin S => LiveIn(f)' = LiveIn(f),
         \A f \in S : Head(f)
  PROVE  Contract!Ended(S)
  <1> DEFINE stands(f) == IF ~Head(f) THEN "none"
                          ELSE IF LiveIn(f) # {} THEN "open" ELSE "ended"
             owner(f) == IF Head(f) THEN token[f].user ELSE NoUser
  <1>1. ASSUME NEW f \in Token
        PROVE  /\ stands(f)' = IF f \in S THEN "ended" ELSE stands(f)
               /\ owner(f)' = owner(f)
    OBVIOUS
  <1>2. /\ [f \in Token |-> stands(f)]' = [f \in Token |->
                                             IF f \in S THEN "ended"
                                             ELSE [g \in Token |-> stands(g)][f]]
        /\ [f \in Token |-> owner(f)]' = [f \in Token |-> owner(f)]
    BY <1>1
  <1> QED
    BY <1>2 DEF Contract!Ended

(* ... or nothing shows. *)
LEMMA MapsToStutter ==
  ASSUME \A f \in Token :
            /\ Head(f)' <=> Head(f)
            /\ Head(f) => /\ token'[f].user = token[f].user
                          /\ LiveIn(f)' = {} <=> LiveIn(f) = {}
  PROVE  UNCHANGED Contract!vars
  BY DEF Contract!vars

(* A rotation never shows: its family keeps a live token. *)
LEMMA RotationMaps ==
  ASSUME Alone, IInv, AloneInv, ContractInv, NEW r \in Request, CommitRotation(r)
  PROVE  UNCHANGED Contract!vars
  <1>1. PICK g \in Token : g = token[req[r].token].family
    BY DEF CommitRotation, IInv, Shape, RequestOK, OnToken, RowOK
  <1>2. /\ req[r].token \in Token /\ Issued(g)
        /\ Live(req[r].token) /\ req[r].writes = {req[r].token}
    BY <1>1 DEF CommitRotation, IInv, Shape, RequestOK, OnToken, RowOK, AloneInv, SeesNow
  <1>3. PICK W \in SUBSET Token : W = {req[r].token} /\ W = req[r].writes
    BY <1>2
  <1>4. PICK n \in Token :
           /\ ~Issued(n)
           /\ token' = WithNew(Revoked(req[r].writes), n, req[r].user, g)
    BY <1>1 DEF CommitRotation
  <1>5. req[r].phase = "commit"
    BY DEF CommitRotation
  <1>6. /\ token'[n] = [status |-> "live", user |-> req[r].user, family |-> g]
        /\ \A t \in Token \ {n} : /\ token'[t].user = token[t].user
                                  /\ token'[t].family = token[t].family
                                  /\ Live(t)' <=> Live(t) /\ t \notin W
    BY <1>3, <1>4, <1>5, CommitRows
  <1>7. token'[n].family = g /\ Live(n)'
    BY <1>6 DEF Live
  <1>8. g # n /\ ~Live(n)
    BY <1>2, <1>4 DEF Live, Issued
  <1>9. ~Head(n) /\ ~Head(n)'
    BY <1>4, <1>7, <1>8, NullAssumption DEF Head, ContractInv, Untouched, Unused
  <1>10. ASSUME NEW f \in Token, f # g, f # n PROVE LiveIn(f)' = LiveIn(f)
    <2>1. \A t \in W : token[t].family = g
      BY <1>1, <1>3
    <2> QED
      BY <1>6, <1>7, <1>8, <1>10, <2>1 DEF LiveIn
  <1>11. n \in LiveIn(g)' /\ req[r].token \in LiveIn(g)
    BY <1>1, <1>2, <1>7 DEF LiveIn
  <1>12. \A f \in Token : /\ Head(f)' <=> Head(f)
                          /\ Head(f) => /\ token'[f].user = token[f].user
                                        /\ LiveIn(f)' = {} <=> LiveIn(f) = {}
    <2>1. ASSUME NEW f \in Token, f # n PROVE Head(f)' <=> Head(f)
      BY <1>6, <2>1 DEF Head
    <2>2. ASSUME NEW f \in Token, f # n PROVE LiveIn(f)' = {} <=> LiveIn(f) = {}
      BY <1>10, <1>11, <2>2
    <2> QED
      BY <1>6, <1>9, <2>1, <2>2
  <1> QED
    BY <1>12, MapsToStutter

(* A login opens a session, a password change ends the others of its       *)
(* account with it.                                                        *)
LEMMA NewFamilyMaps ==
  ASSUME Alone, IInv, ContractInv, NEW r \in Request, CommitNewFamily(r)
  PROVE  Contract!Next
  <1>1. /\ req[r].user \in User /\ Chosen(req[r]) /\ \A t \in Token : RowOK(t)
        /\ req[r].phase = "commit" /\ req[r].op \in {"login", "changePassword"}
        /\ req[r].writes \in SUBSET Token
    BY DEF CommitNewFamily, IInv, TypeOK, Transaction, Shape, RequestOK, ContractInv
  <1>2. PICK u \in User : u = req[r].user
    BY <1>1
  <1>3. PICK W \in SUBSET Token : W = req[r].writes
    BY <1>1
  <1>4. PICK S : S = IF req[r].op = "login" THEN {} ELSE Contract!OpenOf(u)
    OBVIOUS
  <1>5. PICK n \in Token : /\ ~Issued(n)
                           /\ token' = WithNew(Revoked(req[r].writes), n, req[r].user, n)
    BY DEF CommitNewFamily
  <1>6. /\ token'[n] = [status |-> "live", user |-> u, family |-> n]
        /\ \A t \in Token \ {n} : /\ token'[t].user = token[t].user
                                  /\ token'[t].family = token[t].family
                                  /\ Live(t)' <=> Live(t) /\ t \notin W
    BY <1>1, <1>2, <1>3, <1>5, CommitRows
  <1>7. token'[n].family = n /\ token'[n].user = u /\ Live(n)' /\ ~Live(n)
    BY <1>5, <1>6 DEF Live, Issued
  <1>8. ~Head(n) /\ Head(n)' /\ LiveIn(n)' # {}
    BY <1>5, <1>7, NullAssumption DEF Head, LiveIn, ContractInv, Untouched, Unused
  <1>9. \A f \in Token \ {n} : LiveIn(f)' = LiveIn(f) \ W
    BY <1>6, <1>7 DEF LiveIn
  <1>10. W = IF req[r].op = "login" THEN {} ELSE LiveOf(u)
    BY <1>1, <1>2, <1>3 DEF Chosen, WritesNothing, Revokes, Targets, FamilyWide
  <1>11. Contract!OpenOf(u) = {f \in Token : /\ Head(f) /\ LiveIn(f) # {}
                                             /\ token[f].user = u}
    BY <1>2, NullAssumption DEF Contract!OpenOf
  <1>12. \A f \in Token : \A t \in LiveIn(f) : t \in LiveOf(u) <=> token[f].user = u
    BY <1>1 DEF LiveIn, LiveOf, RowOK, Live, Issued
  <1>13. ASSUME NEW f \in Token \ {n}
         PROVE  /\ Head(f)' <=> Head(f)
                /\ token'[f].user = token[f].user
                /\ Head(f) /\ f \in S => LiveIn(f)' = {}
                /\ Head(f) /\ f \notin S => LiveIn(f)' = LiveIn(f)
    <2>1. (Head(f)' <=> Head(f)) /\ token'[f].user = token[f].user
      BY <1>6 DEF Head
    <2>2. LiveIn(f)' = LiveIn(f) \ W
      BY <1>9
    <2>3. LiveIn(f) \subseteq Token
      BY DEF LiveIn
    <2>4. Head(f) /\ f \in S => LiveIn(f)' = {}
      BY <1>4, <1>10, <1>11, <1>12, <2>2, <2>3
    <2>5. Head(f) /\ f \notin S => LiveIn(f)' = LiveIn(f)
      BY <1>4, <1>10, <1>11, <1>12, <2>2, <2>3
    <2> QED
      BY <2>1, <2>4, <2>5
  <1>14. S \in SUBSET Token /\ \A f \in S : Head(f)
    BY <1>4, <1>11
  <1>15. Contract!Opened(n, u, S)
    BY <1>7, <1>8, <1>13, <1>14, MapsToOpened
  <1>16. CASE req[r].op = "login"
    <2>1. Contract!Login(n, u)
      BY <1>4, <1>15, <1>16 DEF Contract!Login
    <2> QED
      BY <2>1 DEF Contract!Next
  <1>17. CASE req[r].op = "changePassword"
    <2>1. S = Contract!OpenOf(u)
      BY <1>4, <1>17
    <2>2. Contract!ChangePassword(n, u)
      BY <1>15, <2>1 DEF Contract!ChangePassword, Contract!Opened
    <2> QED
      BY <2>2 DEF Contract!Next
  <1> QED
    BY <1>1, <1>16, <1>17

(* Every other commit ends one session, all of an account, or nothing.     *)
LEMMA RevocationMaps ==
  ASSUME Alone, IInv, AloneInv, ContractInv, NEW r \in Request, CommitRevocation(r)
  PROVE  Contract!Next \/ UNCHANGED Contract!vars
  <1>x. PICK x \in Transaction : x = req[r]
    BY DEF IInv, TypeOK
  <1>S. PICK S : S = {f \in Token : /\ Head(f) /\ LiveIn(f) # {}
                                   /\ LiveIn(f) \subseteq x.writes}
    OBVIOUS
  <1>1. /\ RequestOK(x) /\ Chosen(x)
        /\ \A t \in Token : RowOK(t)
        /\ x.phase = "commit" /\ x.op \notin Mints
    BY <1>x DEF CommitRevocation, IInv, TypeOK, Shape, ContractInv
  <1>2. \A t \in Token : /\ token'[t].user = token[t].user
                         /\ token'[t].family = token[t].family
                         /\ Live(t)' <=> Live(t) /\ t \notin x.writes
    BY <1>x, RevocationRows
  <1>3. \A f \in Token : LiveIn(f)' = LiveIn(f) \ x.writes
    BY <1>2 DEF LiveIn
  <1>4. \/ x.op = "reactivate" /\ x.writes = {}
        \/ x.op \in Revokes /\ x.op # "changePassword" /\ x.writes = Targets(x)
    BY <1>1 DEF Chosen, WritesNothing, Revokes, Mints, Transaction, Op
  <1>5. x.user \in User
    BY <1>1 DEF RequestOK
  <1>6. (* a family is ended as a whole or not at all *)
        \A f \in Token : LiveIn(f) \subseteq x.writes \/ LiveIn(f) \cap x.writes = {}
    <2>1. CASE x.writes = {}
      BY <2>1
    <2>2. CASE x.op = "logout" /\ x.writes = Targets(x)
      <3>1. x.writes \subseteq {x.token}
        BY <2>2 DEF Targets, FamilyWide
      <3> QED
        BY <3>1 DEF AloneInv, SoleLive, LiveIn
    <2>3. CASE x.op \in FamilyWide /\ x.writes = Targets(x)
      BY <2>3 DEF Targets, FamilyWide, LiveIn
    <2>4. CASE x.op \notin FamilyWide \cup {"logout"} /\ x.writes = Targets(x)
      BY <1>1, <2>4 DEF Targets, LiveIn, LiveOf, RowOK, Live, Issued
    <2> QED
      BY <1>4, <2>1, <2>2, <2>3, <2>4
  <1>7. ASSUME NEW f \in Token
        PROVE  /\ Head(f)' <=> Head(f)
               /\ token'[f].user = token[f].user
               /\ Head(f) /\ f \in S => LiveIn(f)' = {}
               /\ Head(f) /\ f \notin S => LiveIn(f)' = LiveIn(f)
    <2>1. (Head(f)' <=> Head(f)) /\ token'[f].user = token[f].user
      BY <1>2 DEF Head
    <2>2. Head(f) /\ f \in S => LiveIn(f)' = {}
      BY <1>S, <1>3
    <2>3. Head(f) /\ f \notin S => LiveIn(f)' = LiveIn(f)
      BY <1>S, <1>3, <1>6
    <2> QED
      BY <2>1, <2>2, <2>3
  <1>8. CASE S = {}
    <2>1. \A f \in Token : /\ Head(f)' <=> Head(f)
                           /\ Head(f) => /\ token'[f].user = token[f].user
                                         /\ LiveIn(f)' = {} <=> LiveIn(f) = {}
      BY <1>7, <1>8
    <2> QED
      BY <2>1, MapsToStutter
  <1>9. CASE S # {}
    <2>1. Contract!Ended(S)
      <3>1. S \in SUBSET Token /\ \A f \in S : Head(f)
        BY <1>S
      <3> QED
        BY <1>7, <1>9, <3>1, MapsToEnded
    <2>2. CASE x.op \in FamilyWide \cup {"logout"}
      <3>1. \E f \in Token : \A t \in x.writes : token[t].family = f
        BY <1>1, <1>4, <1>9, <2>2 DEF Targets, FamilyWide, LiveIn, LiveOf, RequestOK, OnToken, RowOK
      <3>2. PICK f \in S : S = {f}
        BY <1>S, <1>9, <3>1 DEF LiveIn
      <3>3. Contract!End(f)
        BY <1>S, <2>1, <3>2 DEF Contract!End
      <3>4. f \in Token
        BY <1>S, <3>2
      <3> QED
        BY <3>3, <3>4 DEF Contract!Next
    <2>3. CASE x.op \notin FamilyWide \cup {"logout"}
      <3>1. x.writes = LiveOf(x.user)
        BY <1>4, <1>S, <1>9, <2>3 DEF Targets, FamilyWide
      <3>2. \A f \in Token : \A t \in LiveIn(f) : t \in LiveOf(x.user) <=> token[f].user = x.user
        BY <1>1 DEF LiveIn, LiveOf, RowOK, Live, Issued
      <3>3. Contract!OpenOf(x.user) = {f \in Token : /\ Head(f) /\ LiveIn(f) # {}
                                                     /\ token[f].user = x.user}
        BY DEF Contract!OpenOf
      <3>4. S = Contract!OpenOf(x.user)
        BY <1>S, <3>1, <3>2, <3>3
      <3> QED
        BY <1>5, <2>1, <3>4 DEF Contract!EndAll, Contract!Next
    <2> QED
      BY <2>2, <2>3
  <1> QED
    BY <1>8, <1>9

(* When requests do not overlap, the rows of a family implement one        *)
(* session of SessionContract, which opens once and ends once, wherever    *)
(* requests fail and whatever the numbers of accounts and tokens.          *)
THEOREM FamiliesAreSessions == ASSUME Alone PROVE Spec => ImplementsContract
  <1>1. Init => ContractInv
    BY DEF Init, ContractInv, Untouched, Chosen, Idle, WritesNothing, Revokes
  <1>2. IInv /\ ContractInv /\ [Next]_vars => ContractInv'
    BY ContractNext
  <1>3. Init => Contract!Init
    BY NullAssumption DEF Init, Contract!Init, Head, Unused
  <1>4. IInv /\ AloneInv /\ ContractInv /\ [Next]_vars => [Contract!Next]_(Contract!vars)
    <2> SUFFICES ASSUME IInv, AloneInv, ContractInv, [Next]_vars
                 PROVE  [Contract!Next]_(Contract!vars)
      OBVIOUS
    <2>1. CASE UNCHANGED token
      BY <2>1, MapsToStutter DEF Head, LiveIn, Live
    <2>2. CASE \E r \in Request : CommitRotation(r)
      BY <2>2, RotationMaps
    <2>3. CASE \E r \in Request : CommitNewFamily(r)
      BY <2>3, NewFamilyMaps
    <2>4. CASE \E r \in Request : CommitRevocation(r)
      BY <2>4, RevocationMaps
    <2> QED
      BY <2>1, <2>2, <2>3, <2>4
         DEF Next, vars, BeginOnToken, BeginRotation, BeginReplay, BeginLogout,
             BeginRevokeSession, BeginOnUser, BeginLogin, BeginSignOutAll,
             BeginReset, BeginChangePassword, BeginDeactivate, BeginReactivate,
             BeginDelete, Begin, Advance, LoadUser, TakeSnapshot, LockRows,
             FlushUser, FlushToken, BreakDeadlock, Abort
  <1> QED
    BY <1>1, <1>2, <1>3, <1>4, SpecInv, AloneSpec, PTL
       DEF Spec, ImplementsContract, Contract!Spec
-----------------------------------------------------------------------------
(* No group of requests can wait for good: the safety half of              *)
(* RequestsFinish.  A request can advance if the guard of one of its steps *)
(* holds ...                                                               *)
CanAdvance(r) ==
    \/ req[r].phase \in {"loadUser", "revoke"}
    \/ req[r].phase = "lock" /\ RowsFree(r, req[r].writes)
    \/ req[r].phase = "flush" /\ UserRowFree(r, req[r].user)
    \/ req[r].phase = "store" /\ RowsFree(r, {req[r].token})
    \/ /\ req[r].phase = "commit"
       /\ req[r].op \in Mints => \E n \in Token : ~Issued(n)

(* ... and it waits for whoever holds a row it needs.                      *)
WaitsFor(r, o) ==
    /\ o # r
    /\ \/ req[r].phase = "lock" /\ TokenLocks(o) \cap req[r].writes # {}
       \/ req[r].phase = "flush" /\ HoldsUserRow(o) /\ req[o].user = req[r].user
       \/ req[r].phase = "store" /\ req[r].token \in TokenLocks(o)

Parted(r) == \E o \in Request : Deadlocked(r, o) \/ Deadlocked(o, r)

NoGroupIsStuck ==
    \A S \in SUBSET Request :
        /\ \E r \in S : req[r].phase # "idle"
        /\ \A r \in S : \A o \in Request : WaitsFor(r, o) => o \in S
        => \E r \in S : CanAdvance(r) \/ Parted(r)

(* The rows a request writes are of its own account, and it locks none     *)
(* before its statement, a rotation none before its flush has ended.       *)
OwnRows(x) ==
    /\ x.phase \notin {"lock", "flush", "commit"} => x.writes = {}
    /\ x.op = "refresh" /\ x.phase # "commit" => x.writes = {}
    /\ \A t \in x.writes : token[t].user = x.user

OwnInv == \A r \in Request : OwnRows(req[r])

(* Every request that is to insert a token will find one: the pool is the  *)
(* model's bound, and TokenLeft keeps it from making anybody wait.         *)
Minting == {r \in Request : req[r].op \in Mints}
Free == {t \in Token : ~Issued(t)}

TokensSuffice == Cardinality(Minting) <= Cardinality(Free)

Finitely == IsFiniteSet(Token) /\ IsFiniteSet(Request)

LEMMA OwnIdle == OwnRows(Idle)
  BY DEF OwnRows, Idle

(* A step that leaves the rows alone, and one that ends a request. *)
LEMMA OwnRequestStep ==
  ASSUME IInv, OwnInv, NEW r \in Request, NEW x,
         req' = [req EXCEPT ![r] = x], OwnRows(x), UNCHANGED token
  PROVE  OwnInv'
  BY DEF IInv, TypeOK, OwnInv, OwnRows

LEMMA OwnLeaveStep ==
  ASSUME IInv, OwnInv, NEW r \in Request, req' = [req EXCEPT ![r] = Idle],
         \A t \in Token : Issued(t) => token'[t].user = token[t].user
  PROVE  OwnInv'
  <1>1. ASSUME NEW q \in Request, q # r PROVE OwnRows(req[q])'
    <2>1. req'[q] = req[q] /\ OwnRows(req[q])
      BY <1>1 DEF IInv, TypeOK, OwnInv
    <2>2. \A t \in req[q].writes : t \in Token /\ Issued(t)
      BY DEF IInv, TypeOK, Shape, RequestOK, Transaction
    <2> QED  BY <2>1, <2>2 DEF OwnRows
  <1>2. OwnRows(req[r])'
    BY DEF IInv, TypeOK, OwnRows, Idle
  <1> QED  BY <1>1, <1>2 DEF OwnInv

(* A revocation chooses rows of one account. *)
LEMMA TargetsAreOwn ==
  ASSUME IInv, NEW x \in Transaction, RequestOK(x), x.phase = "revoke"
  PROVE  \A t \in Targets(x) : token[t].user = x.user
  <1>1. \A t \in Token : RowOK(t)
    BY DEF IInv, Shape
  <1>2. \A t \in Token : Live(t) => Issued(t)
    BY DEF Live, Issued
  <1>3. CASE x.op = "logout" \/ x.op \notin FamilyWide
    BY <1>3 DEF Targets, LiveOf, FamilyWide
  <1>4. CASE x.op \in FamilyWide
    <2>1. x.token \in Token /\ Issued(x.token) /\ x.user = token[x.token].user
      BY <1>4 DEF RequestOK, FamilyWide, OnToken
    <2>2. Targets(x) = LiveIn(token[x.token].family)
      BY <1>4 DEF Targets, FamilyWide
    <2> QED  BY <1>1, <1>2, <2>1, <2>2 DEF LiveIn, RowOK
  <1> QED  BY <1>3, <1>4

(* Rows that are issued keep their owner. *)
LEMMA OwnersStay ==
  ASSUME IInv, NEW r \in Request,
         CommitRotation(r) \/ CommitNewFamily(r) \/ CommitRevocation(r)
  PROVE  /\ \A t \in Token : Issued(t) => token'[t].user = token[t].user /\ Issued(t)'
         /\ req[r].op \in Mints =>
               \E n \in Token : ~Issued(n) /\ \A t \in Token \ {n} : Issued(t)' <=> Issued(t)
         /\ req[r].op \notin Mints => \A t \in Token : Issued(t)' <=> Issued(t)
  <1>1. /\ TypeOK /\ req[r].writes \in SUBSET Token /\ req[r].user \in User
        /\ \A t \in req[r].writes : Issued(t)
    BY DEF IInv, TypeOK, Shape, RequestOK, Transaction,
           CommitRotation, CommitNewFamily, CommitRevocation
  <1>2. CASE CommitRevocation(r)
    BY <1>1, <1>2, RevokedRows DEF CommitRevocation, Issued
  <1>3. CASE CommitRotation(r) \/ CommitNewFamily(r)
    <2>1. PICK n \in Token, f \in Token :
             /\ ~Issued(n)
             /\ token' = WithNew(Revoked(req[r].writes), n, req[r].user, f)
      <3>1. CASE CommitRotation(r)
        <4>1. token[req[r].token].family \in Token
          BY <3>1 DEF CommitRotation, RequestOK, OnToken, RowOK, IInv, Shape
        <4> QED  BY <3>1, <4>1 DEF CommitRotation
      <3>2. CASE CommitNewFamily(r)
        BY <3>2 DEF CommitNewFamily
      <3> QED  BY <1>3, <3>1, <3>2
    <2>2. /\ token'[n] = [status |-> "live", user |-> req[r].user, family |-> f]
          /\ \A t \in Token \ {n} : /\ token'[t].user = token[t].user
                                    /\ token'[t].family = token[t].family
                                    /\ Issued(t)' <=> Issued(t)
                                    /\ Live(t)' <=> Live(t) /\ t \notin req[r].writes
      BY <1>1, <2>1, NewRow
    <2>3. req[r].op \in Mints
      BY <1>3 DEF CommitRotation, CommitNewFamily, Mints
    <2> QED  BY <2>1, <2>2, <2>3
  <1> QED  BY <1>2, <1>3

LEMMA OwnNext == IInv /\ OwnInv /\ [Next]_vars => OwnInv'
  <1> SUFFICES ASSUME IInv, OwnInv, [Next]_vars PROVE OwnInv'
    OBVIOUS
  <1>2. ASSUME NEW r \in Request, NEW t \in Token, BeginOnToken(r, t)
        PROVE  OwnInv'
    <2>1. CASE BeginRotation(r, t)
      <3> DEFINE x == [Idle EXCEPT !.op = "refresh", !.phase = "loadUser",
                                   !.user = token[t].user, !.token = t,
                                   !.sawEnded = token[t].family \in ended]
      <3>1. OwnRows(x)
        BY DEF OwnRows, Idle
      <3> QED  BY <2>1, <3>1, OwnRequestStep DEF BeginRotation
    <2>2. CASE ~BeginRotation(r, t)
      <3>1. PICK o : Begin(r, o, "revoke", token[t].user, t)
        BY <1>2, <2>2 DEF BeginOnToken, BeginReplay, BeginLogout, BeginRevokeSession
      <3> DEFINE x == [Idle EXCEPT !.op = o, !.phase = "revoke",
                                   !.user = token[t].user, !.token = t]
      <3>2. OwnRows(x)
        BY DEF OwnRows, Idle
      <3> QED  BY <3>1, <3>2, OwnRequestStep DEF Begin
    <2> QED  BY <2>1, <2>2
  <1>3. ASSUME NEW r \in Request, NEW u \in User, BeginOnUser(r, u)
        PROVE  OwnInv'
    <2>1. PICK o, p : Begin(r, o, p, u, NoToken)
      BY <1>3 DEF BeginOnUser, BeginLogin, BeginSignOutAll, BeginReset,
             BeginChangePassword, BeginDeactivate, BeginReactivate, BeginDelete
    <2> DEFINE x == [Idle EXCEPT !.op = o, !.phase = p, !.user = u, !.token = NoToken]
    <2>2. OwnRows(x)
      BY DEF OwnRows, Idle
    <2> QED  BY <2>1, <2>2, OwnRequestStep DEF Begin
  <1>4. ASSUME NEW r \in Request, Advance(r) PROVE OwnInv'
    <2>1. /\ req[r] \in Transaction /\ RequestOK(req[r]) /\ OwnRows(req[r])
      BY DEF IInv, TypeOK, Shape, OwnInv
    <2>2. CASE LoadUser(r)
      <3> DEFINE x == [req[r] EXCEPT !.phase = "flush"]
      <3>1. OwnRows(x)
        BY <2>1, <2>2 DEF OwnRows, Transaction, LoadUser
      <3> QED  BY <2>2, <3>1, OwnIdle, OwnRequestStep DEF LoadUser
    <2>3. CASE TakeSnapshot(r)
      <3> DEFINE x == [req[r] EXCEPT !.phase = "lock",
                                     !.writes = Targets(req[r]),
                                     !.ends = Scope(req[r])]
      <3>1. OwnRows(x)
        BY <2>1, <2>3, TargetsAreOwn DEF OwnRows, RequestOK, Transaction, TakeSnapshot
      <3> QED  BY <2>3, <3>1, OwnRequestStep DEF TakeSnapshot
    <2>4. CASE LockRows(r)
      <3> DEFINE p == IF req[r].op \in LeavesUserRow THEN "commit" ELSE "flush"
                 W == {t \in req[r].writes : Live(t)}
                 x == [req[r] EXCEPT !.phase = p, !.writes = W]
      <3>1. /\ x.phase \in {"commit", "flush"} /\ x.writes = W
            /\ x.user = req[r].user /\ x.op = req[r].op
        BY <2>1 DEF Transaction
      <3>2. OwnRows(x)
        BY <2>1, <2>4, <3>1 DEF OwnRows, LockRows
      <3> QED  BY <2>4, <3>2, OwnRequestStep DEF LockRows
    <2>5. CASE FlushUser(r)
      <3> DEFINE p == IF req[r].op = "refresh" THEN "store" ELSE "commit"
                 x == [req[r] EXCEPT !.phase = p]
      <3>1. x.phase = p /\ x.writes = req[r].writes /\ x.user = req[r].user
        BY <2>1 DEF Transaction
      <3>2. OwnRows(x)
        BY <2>1, <2>5, <3>1 DEF OwnRows, FlushUser, Transaction
      <3>3. req' = [req EXCEPT ![r] = x]
        BY <2>1, <2>5 DEF FlushUser, IInv, TypeOK, Transaction
      <3> QED  BY <2>5, <3>2, <3>3, OwnRequestStep DEF FlushUser
    <2>6. CASE FlushToken(r)
      <3> DEFINE x == [req[r] EXCEPT !.phase = "commit", !.writes = {req[r].token}]
      <3>1. OwnRows(x)
        BY <2>1, <2>6 DEF OwnRows, Transaction, FlushToken, RequestOK, OnToken
      <3> QED  BY <2>6, <3>1, OwnRequestStep DEF FlushToken
    <2>7. CASE CommitRotation(r) \/ CommitNewFamily(r) \/ CommitRevocation(r)
      BY <2>7, OwnersStay, OwnLeaveStep
         DEF CommitRotation, CommitNewFamily, CommitRevocation
    <2> QED
      BY <1>4, <2>2, <2>3, <2>4, <2>5, <2>6, <2>7 DEF Advance
  <1>5. ASSUME NEW r \in Request, Abort(r) \/ BreakDeadlock(r) PROVE OwnInv'
    BY <1>5, OwnIdle, OwnRequestStep DEF Abort, BreakDeadlock
  <1>6. CASE UNCHANGED vars
    BY <1>6 DEF vars, OwnInv, OwnRows
  <1> QED  BY <1>2, <1>3, <1>4, <1>5, <1>6 DEF Next

(* The tokens that are left are enough for the requests that will insert.  *)
LEMMA FewerMints ==
  ASSUME Finitely, TokensSuffice, Minting' \subseteq Minting, Free' = Free
  PROVE  TokensSuffice'
  <1>1. IsFiniteSet(Minting) /\ IsFiniteSet(Free)
    BY FS_Subset DEF Finitely, Minting, Free
  <1>2. Cardinality(Minting') <= Cardinality(Minting)
    BY <1>1, FS_Subset
  <1>3. /\ Cardinality(Minting) \in Nat /\ Cardinality(Minting') \in Nat
        /\ Cardinality(Free) \in Nat
    BY <1>1, FS_Subset, FS_CardinalityType
  <1> QED  BY <1>2, <1>3 DEF TokensSuffice

LEMMA MintBegins ==
  ASSUME Finitely, TokenLeft, NEW r \in Request, Minting' \subseteq Minting \cup {r},
         Free' = Free
  PROVE  TokensSuffice'
  <1>1. IsFiniteSet(Minting) /\ IsFiniteSet(Free)
    BY FS_Subset DEF Finitely, Minting, Free
  <1>2. /\ IsFiniteSet(Minting \cup {r})
        /\ Cardinality(Minting \cup {r}) <= Cardinality(Minting) + 1
    <2>1. Cardinality(Minting) \in Nat
      BY <1>1, FS_CardinalityType
    <2>2. /\ IsFiniteSet(Minting \cup {r})
          /\ Cardinality(Minting \cup {r}) \in {Cardinality(Minting), Cardinality(Minting) + 1}
      BY <1>1, FS_AddElement
    <2> QED  BY <2>1, <2>2
  <1>3. Cardinality(Minting') <= Cardinality(Minting \cup {r}) /\ IsFiniteSet(Minting')
    BY <1>2, FS_Subset
  <1>4. /\ Cardinality(Minting) \in Nat /\ Cardinality(Minting') \in Nat
        /\ Cardinality(Free) \in Nat /\ Cardinality(Minting \cup {r}) \in Nat
    BY <1>1, <1>2, <1>3, FS_CardinalityType
  <1>5. Cardinality(Minting) < Cardinality(Free)
    BY DEF TokenLeft, Minting, Free
  <1>6. Cardinality(Minting') <= Cardinality(Free)
    BY <1>2, <1>3, <1>4, <1>5
  <1> QED  BY <1>6 DEF TokensSuffice

LEMMA MintEnds ==
  ASSUME Finitely, TokensSuffice, NEW r \in Minting, NEW n \in Free,
         Minting' \subseteq Minting \ {r}, Free' = Free \ {n}
  PROVE  TokensSuffice'
  <1>1. IsFiniteSet(Minting) /\ IsFiniteSet(Free)
    BY FS_Subset DEF Finitely, Minting, Free
  <1>2. /\ IsFiniteSet(Minting \ {r}) /\ Cardinality(Minting \ {r}) = Cardinality(Minting) - 1
        /\ IsFiniteSet(Free \ {n}) /\ Cardinality(Free \ {n}) = Cardinality(Free) - 1
    BY <1>1, FS_RemoveElement
  <1>3. Cardinality(Minting') <= Cardinality(Minting \ {r}) /\ IsFiniteSet(Minting')
    BY <1>2, FS_Subset
  <1>4. /\ Cardinality(Minting) \in Nat /\ Cardinality(Minting') \in Nat
        /\ Cardinality(Free) \in Nat
    BY <1>1, <1>3, FS_CardinalityType
  <1>5. Cardinality(Minting') <= Cardinality(Free')
    BY <1>2, <1>3, <1>4 DEF TokensSuffice
  <1> QED  BY <1>5 DEF TokensSuffice

LEMMA SufficeInit == Finitely /\ Init => TokensSuffice
  <1> SUFFICES ASSUME Finitely, Init PROVE TokensSuffice
    OBVIOUS
  <1>1. Minting = {}
    BY DEF Init, Minting, Mints, Idle
  <1>2. IsFiniteSet(Free)
    BY FS_Subset DEF Finitely, Free
  <1> QED  BY <1>1, <1>2, FS_EmptySet, FS_CardinalityType DEF TokensSuffice

LEMMA SufficeNext == Finitely /\ IInv /\ TokensSuffice /\ [Next]_vars => TokensSuffice'
  <1> SUFFICES ASSUME Finitely, IInv, TokensSuffice, [Next]_vars PROVE TokensSuffice'
    OBVIOUS
  <1>1. ASSUME UNCHANGED token PROVE Free' = Free
    BY <1>1 DEF Free, Issued
  <1>2. ASSUME NEW r \in Request, NEW x, req' = [req EXCEPT ![r] = x]
        PROVE  /\ Minting' \subseteq Minting \cup {r}
               /\ x.op \notin Mints => Minting' \subseteq Minting \ {r}
               /\ x.op = req[r].op => Minting' \subseteq Minting
    BY <1>2 DEF Minting, IInv, TypeOK
  <1>3. ASSUME NEW r \in Request, NEW o, NEW p, NEW u, NEW t, Begin(r, o, p, u, t),
               o \in Mints => TokenLeft
        PROVE  TokensSuffice'
    <2> DEFINE x == [Idle EXCEPT !.op = o, !.phase = p, !.user = u, !.token = t]
    <2>1. x.op = o
      BY DEF Idle
    <2>2. req' = [req EXCEPT ![r] = x] /\ UNCHANGED token
      BY <1>3 DEF Begin
    <2> HIDE DEF x
    <2> QED  BY <1>1, <1>2, <1>3, <2>1, <2>2, FewerMints, MintBegins
  <1>4. ASSUME NEW r \in Request, NEW t \in Token, BeginOnToken(r, t)
        PROVE  TokensSuffice'
    <2>1. CASE BeginRotation(r, t)
      BY <2>1, <1>1, <1>2, MintBegins DEF BeginRotation
    <2>2. CASE ~BeginRotation(r, t)
      <3>1. PICK o \in {"replay", "logout", "revokeSession"} :
               Begin(r, o, "revoke", token[t].user, t)
        BY <1>4, <2>2 DEF BeginOnToken, BeginReplay, BeginLogout, BeginRevokeSession
      <3> QED  BY <3>1, <1>3 DEF Mints
    <2> QED  BY <2>1, <2>2
  <1>5. ASSUME NEW r \in Request, NEW u \in User, BeginOnUser(r, u)
        PROVE  TokensSuffice'
    <2>1. PICK o, p : Begin(r, o, p, u, NoToken) /\ (o \in Mints => TokenLeft)
      BY <1>5 DEF BeginOnUser, BeginLogin, BeginSignOutAll, BeginReset,
             BeginChangePassword, BeginDeactivate, BeginReactivate, BeginDelete, Mints
    <2> QED  BY <2>1, <1>3
  <1>6. ASSUME NEW r \in Request, req' = [req EXCEPT ![r] = Idle], UNCHANGED token
        PROVE  TokensSuffice'
    <2>1. Idle.op \notin Mints
      BY DEF Idle, Mints
    <2> QED  BY <2>1, <1>1, <1>2, <1>6, FewerMints
  <1>7. ASSUME NEW r \in Request, Advance(r) PROVE TokensSuffice'
    <2>1. req[r] \in Transaction
      BY DEF IInv, TypeOK
    <2>2. CASE \/ LoadUser(r) \/ TakeSnapshot(r) \/ LockRows(r)
               \/ FlushUser(r) \/ FlushToken(r)
      <3>1. UNCHANGED token
        BY <2>2 DEF LoadUser, TakeSnapshot, LockRows, FlushUser, FlushToken
      <3>2. req' = [req EXCEPT ![r] = Idle] \/ req'[r].op = req[r].op
        <4>1. req \in [Request -> Transaction]
          BY DEF IInv, TypeOK
        <4>2. CASE LoadUser(r)
          BY <2>1, <4>1, <4>2 DEF LoadUser, Transaction
        <4>3. CASE TakeSnapshot(r)
          BY <2>1, <4>1, <4>3 DEF TakeSnapshot, Transaction
        <4>4. CASE LockRows(r)
          BY <2>1, <4>1, <4>4 DEF LockRows, Transaction
        <4>5. CASE FlushUser(r)
          BY <2>1, <4>1, <4>5 DEF FlushUser, Transaction
        <4>6. CASE FlushToken(r)
          BY <2>1, <4>1, <4>6 DEF FlushToken, Transaction
        <4> QED  BY <2>2, <4>2, <4>3, <4>4, <4>5, <4>6
      <3>3. \E x : req' = [req EXCEPT ![r] = x]
        BY <2>2 DEF LoadUser, TakeSnapshot, LockRows, FlushUser, FlushToken
      <3>4. req'[r].op = req[r].op => Minting' \subseteq Minting
        BY <3>3 DEF Minting, IInv, TypeOK
      <3> QED  BY <1>1, <1>6, <3>1, <3>2, <3>4, FewerMints
    <2>3. CASE CommitRotation(r) \/ CommitNewFamily(r) \/ CommitRevocation(r)
      <3>1. req' = [req EXCEPT ![r] = Idle] /\ Idle.op \notin Mints
        BY <2>3 DEF CommitRotation, CommitNewFamily, CommitRevocation, Idle, Mints
      <3>2. Minting' \subseteq Minting \ {r}
        BY <3>1, <1>2
      <3>3. CASE req[r].op \in Mints
        <4>1. PICK n \in Token : /\ ~Issued(n)
                                 /\ \A t \in Token \ {n} : Issued(t)' <=> Issued(t)
          BY <2>3, <3>3, OwnersStay
        <4>2. CASE Issued(n)'
          <5>1. Free' = Free \ {n} /\ n \in Free /\ r \in Minting
            BY <3>3, <4>1, <4>2 DEF Free, Minting
          <5> QED  BY <3>2, <5>1, MintEnds
        <4>3. CASE ~Issued(n)'
          <5>1. Free' = Free
            BY <4>1, <4>3 DEF Free
          <5> QED  BY <3>2, <5>1, FewerMints
        <4> QED  BY <4>2, <4>3
      <3>4. CASE req[r].op \notin Mints
        <4>1. Free' = Free
          BY <2>3, <3>4, OwnersStay DEF Free
        <4> QED  BY <3>2, <4>1, FewerMints
      <3> QED  BY <3>3, <3>4
    <2> QED  BY <1>7, <2>2, <2>3 DEF Advance
  <1>8. ASSUME NEW r \in Request, Abort(r) \/ BreakDeadlock(r) PROVE TokensSuffice'
    BY <1>8, <1>6 DEF Abort, BreakDeadlock
  <1>9. CASE UNCHANGED vars
    <2>1. Minting' = Minting
      BY <1>9 DEF vars, Minting
    <2> QED  BY <1>1, <1>9, <2>1, FewerMints DEF vars
  <1> QED  BY <1>4, <1>5, <1>7, <1>8, <1>9 DEF Next

(* What a request waits for brings it, in three steps at most, to one that *)
(* can go on or to a deadlock: the rows a rotation waits for are held by a *)
(* request of its own account, which waits for nothing or for it.          *)
LEMMA SomebodyMoves ==
  ASSUME Finitely, IInv, OwnInv, TokensSuffice
  PROVE  NoGroupIsStuck
  <1> SUFFICES ASSUME NEW S \in SUBSET Request, NEW q \in S, req[q].phase # "idle",
                      \A r \in S : \A o \in Request : WaitsFor(r, o) => o \in S,
                      \A r \in S : ~CanAdvance(r) /\ ~Parted(r)
               PROVE  FALSE
    BY DEF NoGroupIsStuck
  <1>1. \A r \in S : req[r].phase \in Phase /\ RequestOK(req[r]) /\ OwnRows(req[r])
    BY DEF IInv, TypeOK, Transaction, Shape, OwnInv
  <1>2. \A r \in S : req[r].phase # "commit"
    <2> SUFFICES ASSUME NEW r \in S, req[r].op \in Mints PROVE \E n \in Token : ~Issued(n)
      BY DEF CanAdvance
    <2> SUFFICES ASSUME Free = {} PROVE FALSE
      BY DEF Free
    <2>1. Cardinality(Free) = 0
      BY FS_EmptySet
    <2>2. IsFiniteSet(Minting) /\ r \in Minting
      BY FS_Subset DEF Finitely, Minting
    <2>3. Cardinality(Minting) \in Nat /\ Cardinality(Minting) # 0
      BY <2>2, FS_CardinalityType, FS_EmptySet
    <2> QED  BY <2>1, <2>3 DEF TokensSuffice
  <1>3. \A r \in S : req[r].phase # "store"
    <2> SUFFICES ASSUME NEW r \in S, req[r].phase = "store" PROVE FALSE
      OBVIOUS
    <2>1. PICK o \in Request \ {r} : req[r].token \in TokenLocks(o)
      BY DEF CanAdvance, RowsFree
    <2>2. o \in S
      BY <2>1 DEF WaitsFor
    <2>3. /\ req[o].phase # "lock" /\ req[r].token \in req[o].writes
      BY <2>1 DEF TokenLocks
    <2>4. req[o].phase = "flush"
      BY <1>1, <1>2, <2>2, <2>3 DEF OwnRows
    <2>5. req[o].user = req[r].user
      BY <1>1, <2>2, <2>3 DEF OwnRows, RequestOK, OnToken
    <2> QED  BY <2>1, <2>4, <2>5 DEF Deadlocked, Parted
  <1>4. \A r \in S : req[r].phase # "flush"
    BY <1>2, <1>3 DEF CanAdvance, UserRowFree, WaitsFor, HoldsUserRow
  <1>5. \A r \in S : req[r].phase # "lock"
    <2> SUFFICES ASSUME NEW r \in S, req[r].phase = "lock" PROVE FALSE
      OBVIOUS
    <2>1. PICK o \in Request \ {r} : TokenLocks(o) \cap req[r].writes # {}
      BY DEF CanAdvance, RowsFree
    <2>2. o \in S
      BY <2>1 DEF WaitsFor
    <2>3. req[o].phase # "lock" /\ req[o].writes # {}
      BY <2>1 DEF TokenLocks
    <2> QED  BY <1>1, <1>2, <1>4, <2>2, <2>3 DEF OwnRows
  <1> QED  BY <1>1, <1>2, <1>3, <1>4, <1>5 DEF CanAdvance, Phase

(* Whatever requests wait for each other's rows, following their waits     *)
(* leads to one that can go on or to one that the deadlock detector parts  *)
(* from another; it need never look at more than two.                      *)
THEOREM WaitsNeverHang == ASSUME Finitely PROVE Spec => []NoGroupIsStuck
<1>1. Init => OwnInv
  BY OwnIdle DEF Init, OwnInv
<1>2. Spec => []OwnInv
  BY <1>1, OwnNext, SpecInv, PTL DEF Spec
<1>3. Spec => []TokensSuffice
  <2>1. Init => TokensSuffice
    BY SufficeInit
  <2>2. IInv /\ TokensSuffice /\ [Next]_vars => TokensSuffice'
    BY SufficeNext
  <2> QED  BY <2>1, <2>2, SpecInv, PTL DEF Spec
<1>4. IInv /\ OwnInv /\ TokensSuffice => NoGroupIsStuck
  BY SomebodyMoves
<1> QED  BY <1>2, <1>3, <1>4, SpecInv, PTL

(* A request goes forward in finitely many steps. *)
StepsLeft == [p \in Phase |-> CASE p = "idle" -> 0
                                [] p = "commit" -> 1
                                [] p = "store" -> 2
                                [] p = "flush" -> 3
                                [] p = "lock" -> 4
                                [] p = "revoke" -> 5
                                [] p = "loadUser" -> 4]

OnlyForward ==
    \A r \in Request :
        /\ Advance(r) => StepsLeft[req'[r].phase] < StepsLeft[req[r].phase]
        /\ req[r].phase # "idle" => \/ req'[r] = req[r]
                                    \/ req'[r].phase = "idle"
                                    \/ Advance(r)

LEMMA AdvanceIsForward ==
  ASSUME IInv, NEW r \in Request, Advance(r)
  PROVE  StepsLeft[req'[r].phase] < StepsLeft[req[r].phase]
  <1>1. req[r] \in Transaction /\ req \in [Request -> Transaction]
    BY DEF IInv, TypeOK
  <1>2. CASE LoadUser(r)
    <2>1. req'[r].phase \in {"flush", "idle"}
      BY <1>1, <1>2 DEF LoadUser, Idle, Transaction
    <2> QED  BY <1>2, <2>1 DEF LoadUser, StepsLeft, Phase
  <1>3. CASE TakeSnapshot(r)
    <2>1. req'[r].phase = "lock"
      BY <1>1, <1>3 DEF TakeSnapshot, Transaction
    <2> QED  BY <1>3, <2>1 DEF TakeSnapshot, StepsLeft, Phase
  <1>4. CASE LockRows(r)
    <2>1. req'[r].phase \in {"commit", "flush"}
      BY <1>1, <1>4 DEF LockRows, Transaction
    <2> QED  BY <1>4, <2>1 DEF LockRows, StepsLeft, Phase
  <1>5. CASE FlushUser(r)
    <2>1. req'[r].phase \in {"store", "commit"}
      BY <1>1, <1>5 DEF FlushUser, Transaction
    <2> QED  BY <1>5, <2>1 DEF FlushUser, StepsLeft, Phase
  <1>6. CASE FlushToken(r)
    <2>1. req'[r].phase = "commit"
      BY <1>1, <1>6 DEF FlushToken, Transaction
    <2> QED  BY <1>6, <2>1 DEF FlushToken, StepsLeft, Phase
  <1>7. CASE CommitRotation(r) \/ CommitNewFamily(r) \/ CommitRevocation(r)
    BY <1>1, <1>7 DEF CommitRotation, CommitNewFamily, CommitRevocation, Idle, StepsLeft, Phase
  <1> QED  BY <1>2, <1>3, <1>4, <1>5, <1>6, <1>7 DEF Advance

LEMMA OthersStay ==
  ASSUME IInv, [Next]_vars, NEW r \in Request, req[r].phase # "idle", ~Advance(r)
  PROVE  req'[r] = req[r] \/ req'[r].phase = "idle"
  <1>1. req \in [Request -> Transaction]
    BY DEF IInv, TypeOK
  <1>2. ASSUME NEW o \in Request, NEW x, req' = [req EXCEPT ![o] = x], o # r
        PROVE  req'[r] = req[r]
    BY <1>1, <1>2
  <1>3. ASSUME NEW o \in Request, Advance(o) PROVE req'[r] = req[r]
    <2>1. \E x : req' = [req EXCEPT ![o] = x]
      BY <1>3 DEF Advance, LoadUser, TakeSnapshot, LockRows, FlushUser, FlushToken,
                  CommitRotation, CommitNewFamily, CommitRevocation
    <2> QED  BY <1>2, <1>3, <2>1
  <1>4. ASSUME NEW o \in Request,
               \/ \E t \in Token : BeginOnToken(o, t)
               \/ \E u \in User : BeginOnUser(o, u)
        PROVE  req'[r] = req[r]
    <2>1. /\ req[o].phase = "idle"
          /\ \E x : req' = [req EXCEPT ![o] = x]
      BY <1>4 DEF BeginOnToken, BeginRotation, BeginReplay, BeginLogout,
             BeginRevokeSession, BeginOnUser, BeginLogin, BeginSignOutAll, BeginReset,
             BeginChangePassword, BeginDeactivate, BeginReactivate, BeginDelete, Begin
    <2> QED  BY <1>2, <2>1
  <1>5. ASSUME NEW o \in Request, Abort(o) \/ BreakDeadlock(o)
        PROVE  req'[r] = req[r] \/ req'[r].phase = "idle"
    BY <1>1, <1>5 DEF Abort, BreakDeadlock, Idle
  <1> QED  BY <1>3, <1>4, <1>5 DEF Next, vars

(* Every step of a request brings it nearer to its end, and no step of     *)
(* another moves it, except to the end: with WaitsNeverHang, all that      *)
(* RequestsFinish needs of the model beside fairness.                      *)
THEOREM RequestsGoForward == Spec => [][OnlyForward]_vars
<1>1. IInv /\ [Next]_vars => [OnlyForward]_vars
  BY AdvanceIsForward, OthersStay DEF OnlyForward
<1> QED  BY <1>1, SpecInv, PTL DEF Spec
=============================================================================
