-------------------------- MODULE SessionClientProofs --------------------------
(***************************************************************************)
(* What holds of SessionClient for any number of tabs, calls, exchanges    *)
(* and tokens.                                                             *)
(*                                                                         *)
(* A token's cookie is in one place at a time: on its way (the answer of   *)
(* an answered exchange), lost, or arrived (in the jar, or presented by an *)
(* exchange).  Only tokens that arrived are presented, so only those are   *)
(* spent: that is Places, and JarIsNewest follows from it step by step.    *)
(***************************************************************************)
EXTENDS SessionClient, TLAPS

IsLive(k) == token[k].status = "live"

OnItsWay(k) == \E s \in Slot : exchange[s].phase = "answered" /\ exchange[s].answer = k

(* A slot without an exchange is empty, and an answer with a token comes   *)
(* only from a refresh or a login that was granted.                        *)
Slots ==
    \A s \in Slot :
        /\ Idle(s) => exchange[s] = None
        /\ exchange[s].answer # NoToken =>
               /\ exchange[s].phase # "sent" /\ exchange[s].granted
               /\ exchange[s].kind \in {"refresh", "login"}

(* One live token per family, and a family has the token it is named for. *)
Server ==
    /\ \A k \in Token : token[k].status = "unused" => token[k].family = NoToken
    /\ \A k \in Token : token[k].status # "unused" =>
           token[k].family \in Token /\ token[token[k].family].status # "unused"
    /\ \A k, x \in Token : IsLive(k) /\ IsLive(x) /\ token[k].family = token[x].family
                           => k = x

(* Where a token can be. *)
Places ==
    /\ \A k \in lost : token[k].status # "unused"
    /\ jar # NoToken => jar \notin lost /\ token[jar].status # "unused" /\ ~OnItsWay(jar)
    /\ \A s \in Slot : LET k == exchange[s].cookie IN
           k # NoToken => k \notin lost /\ token[k].status # "unused" /\ ~OnItsWay(k)
    /\ \A s \in Slot : LET k == exchange[s].answer IN
           exchange[s].phase = "answered" /\ k # NoToken =>
               /\ k \notin lost /\ token[k].status # "unused"
               /\ \A o \in Slot : exchange[o].phase = "answered" /\ exchange[o].answer = k
                                  => o = s
               /\ token[k].status = "revoked" =>
                      \A x \in Token : IsLive(x) => token[x].family # token[k].family

(* JarIsNewest, token by token. *)
Newest ==
    jar # NoToken /\ token[jar].status = "revoked" =>
        \A x \in Token : IsLive(x) /\ token[x].family = token[jar].family
                         => x \in lost \/ OnItsWay(x)

(* One refresh per page; an exchange that is alone has its page's company  *)
(* at most; a login's token is the only one of its family until it has     *)
(* arrived; and a refresh sent alone presents the newest token.            *)
Solitude ==
    /\ \A s, o \in Slot : /\ exchange[s].kind = "refresh" /\ exchange[o].kind = "refresh"
                          /\ exchange[s].tab = exchange[o].tab /\ exchange[s].tab \in Tab
                          => s = o
    /\ \A s \in Slot : exchange[s].alone =>
           /\ exchange[s].tab \in Tab
           /\ \A o \in Slot : ~Idle(o) => exchange[o].tab = exchange[s].tab
    /\ \A s \in Slot : LET k == exchange[s].answer IN
           exchange[s].kind = "login" /\ exchange[s].phase = "answered" /\ k # NoToken =>
               \A x \in Token : token[x].family = token[k].family => x = k
    /\ \A s \in Slot : LET k == exchange[s].cookie IN
           Waiting(s, "refresh") /\ exchange[s].alone /\ k # NoToken =>
               \A x \in Token : IsLive(x) /\ token[x].family = token[k].family
                                => x = k \/ x \in lost

(* Once signed out, there is nothing that could bring a token. *)
Ended ==
    out => /\ jar = NoToken
           /\ \A s \in Slot : /\ exchange[s].answer = NoToken
                              /\ exchange[s].kind # "login"
                              /\ exchange[s].phase = "sent" => exchange[s].cookie = NoToken

(* Who waits has a page, and the page a refresh. *)
Awake ==
    \A c \in Call : /\ call[c].phase # "idle" => call[c].tab \in Tab
                    /\ call[c].phase = "waiting" => Refreshing(call[c].tab)

Inv == TypeOK /\ Slots /\ Server /\ Places /\ Newest /\ Solitude /\ Ended /\ Awake

-----------------------------------------------------------------------------
(* What an action does to the exchanges, field by field *)

LEMMA SentEffect ==
    ASSUME TypeOK, NEW ex \in [Slot -> Exchange], NEW s \in Slot, NEW t \in Tab,
           NEW kind \in {"refresh", "login", "logout"}, exchange' = Sent(ex, s, t, kind)
    PROVE  /\ exchange' \in [Slot -> Exchange]
           /\ exchange'[s].kind = kind /\ exchange'[s].tab = t
           /\ exchange'[s].phase = "sent" /\ exchange'[s].cookie = jar
           /\ exchange'[s].answer = NoToken
           /\ exchange'[s].alone => \A o \in Slot : ex[o].kind # "none" => ex[o].tab = t
           /\ \A o \in Slot \ {s} :
                  /\ exchange'[o].kind = ex[o].kind /\ exchange'[o].tab = ex[o].tab
                  /\ exchange'[o].phase = ex[o].phase
                  /\ exchange'[o].cookie = ex[o].cookie
                  /\ exchange'[o].granted = ex[o].granted
                  /\ exchange'[o].answer = ex[o].answer
                  /\ exchange'[o].alone => ex[o].alone /\ ex[o].tab = t
                  /\ ex[o] = None => exchange'[o] = None
  <1> DEFINE B == \A o \in Slot : ex[o].kind # "none" => ex[o].tab = t
             new == [kind |-> kind, tab |-> t, phase |-> "sent", cookie |-> jar,
                     granted |-> FALSE, answer |-> NoToken, alone |-> B]
             apart(o) == [ex[o] EXCEPT !.alone = FALSE]
  <1>1. jar \in Token \cup {NoToken} /\ B \in BOOLEAN
    BY DEF TypeOK
  <1>2. exchange' = [x \in Slot |-> IF x = s THEN new
                                   ELSE IF ex[x].tab = t THEN ex[x] ELSE apart(x)]
    BY DEF Sent
  <1>3. B => \A o \in Slot : ex[o].kind # "none" => ex[o].tab = t
    OBVIOUS
  <1> HIDE DEF B
  <1>5. new \in Exchange
    BY <1>1 DEF Exchange
  <1>6. ASSUME NEW o \in Slot
        PROVE  /\ apart(o) \in Exchange
               /\ apart(o).kind = ex[o].kind /\ apart(o).tab = ex[o].tab
               /\ apart(o).phase = ex[o].phase /\ apart(o).cookie = ex[o].cookie
               /\ apart(o).granted = ex[o].granted /\ apart(o).answer = ex[o].answer
               /\ apart(o).alone = FALSE
               /\ ex[o] = None => apart(o) = None
    <2>1. ex[o] \in Exchange
      OBVIOUS
    <2>2. apart(o) \in Exchange
      BY <2>1 DEF Exchange
    <2>3. /\ apart(o).kind = ex[o].kind /\ apart(o).tab = ex[o].tab
          /\ apart(o).phase = ex[o].phase /\ apart(o).cookie = ex[o].cookie
          /\ apart(o).granted = ex[o].granted /\ apart(o).answer = ex[o].answer
      BY <2>1 DEF Exchange
    <2>4. apart(o).alone = FALSE
      BY <2>1 DEF Exchange
    <2>5. ex[o] = None => apart(o) = None
      <3>1. ex[o].alone = FALSE => apart(o) = ex[o]
        BY <2>1 DEF Exchange
      <3>2. None.alone = FALSE
        BY DEF None
      <3> QED BY <3>1, <3>2
    <2> QED BY <2>2, <2>3, <2>4, <2>5
  <1>7. /\ new.kind = kind /\ new.tab = t /\ new.phase = "sent" /\ new.cookie = jar
        /\ new.answer = NoToken /\ new.alone = B
    OBVIOUS
  <1> HIDE DEF new, apart
  <1>8. exchange' \in [Slot -> Exchange]
    BY <1>2, <1>5, <1>6
  <1>9. exchange'[s] = new
    BY <1>2
  <1>10. ASSUME NEW o \in Slot \ {s}
         PROVE  /\ exchange'[o].kind = ex[o].kind /\ exchange'[o].tab = ex[o].tab
                /\ exchange'[o].phase = ex[o].phase
                /\ exchange'[o].cookie = ex[o].cookie
                /\ exchange'[o].granted = ex[o].granted
                /\ exchange'[o].answer = ex[o].answer
                /\ exchange'[o].alone => ex[o].alone /\ ex[o].tab = t
                /\ ex[o] = None => exchange'[o] = None
    <2>1. CASE ex[o].tab = t
      BY <1>2, <2>1
    <2>2. CASE ex[o].tab # t
      BY <1>2, <1>6, <2>2
    <2> QED BY <2>1, <2>2
  <1> QED BY <1>3, <1>7, <1>8, <1>9, <1>10

LEMMA AnswerEffect ==
    ASSUME TypeOK, NEW s \in Slot, NEW granted \in BOOLEAN, NEW k \in Token \cup {NoToken},
           Answer(s, granted, k)
    PROVE  /\ exchange' \in [Slot -> Exchange]
           /\ exchange'[s].kind = exchange[s].kind /\ exchange'[s].tab = exchange[s].tab
           /\ exchange'[s].phase = "answered" /\ exchange'[s].cookie = exchange[s].cookie
           /\ exchange'[s].granted = granted /\ exchange'[s].answer = k
           /\ exchange'[s].alone = exchange[s].alone
           /\ \A o \in Slot \ {s} : exchange'[o] = exchange[o]
  BY DEF TypeOK, Answer, Exchange

LEMMA PhaseEffect ==
    ASSUME TypeOK, NEW s \in Slot, NEW p \in {"stored", "lost"},
           exchange' = [exchange EXCEPT ![s].phase = p]
    PROVE  /\ exchange' \in [Slot -> Exchange]
           /\ exchange'[s].kind = exchange[s].kind /\ exchange'[s].tab = exchange[s].tab
           /\ exchange'[s].phase = p /\ exchange'[s].cookie = exchange[s].cookie
           /\ exchange'[s].granted = exchange[s].granted
           /\ exchange'[s].answer = exchange[s].answer
           /\ exchange'[s].alone = exchange[s].alone
           /\ \A o \in Slot \ {s} : exchange'[o] = exchange[o]
  BY DEF TypeOK, Exchange

LEMMA CloseEffect ==
    ASSUME TypeOK, NEW s \in Slot, Close(s)
    PROVE  /\ exchange' \in [Slot -> Exchange] /\ exchange'[s] = None
           /\ \A o \in Slot \ {s} : exchange'[o] = exchange[o]
  BY DEF TypeOK, Close, Exchange, None

-----------------------------------------------------------------------------
(* Types *)

(* The variables range over what the module keeps in them: TypeOK. *)
LEMMA TypeStep == ASSUME TypeOK, Awake, [Next]_vars PROVE TypeOK'
  <1> USE DEF TypeOK
  <1>1. ASSUME NEW t \in Tab, NEW s \in Slot, Login(t, s) \/ Logout(t, s) PROVE TypeOK'
    <2>1. exchange' \in [Slot -> Exchange]
      BY <1>1, SentEffect DEF Login, Logout
    <2> QED BY <1>1, <2>1 DEF Login, Logout
  <1>2. ASSUME NEW t \in Tab, NEW s \in Slot, Load(t, s) PROVE TypeOK'
    <2> DEFINE left == [x \in Slot |-> IF exchange[x].tab = t
                                       THEN [exchange[x] EXCEPT !.tab = NoTab]
                                       ELSE exchange[x]]
    <2>1. left \in [Slot -> Exchange]
      BY DEF Exchange
    <2>2. exchange' = Sent(left, s, t, "refresh")
      BY <1>2 DEF Load
    <2>3. exchange' \in [Slot -> Exchange]
      <3> HIDE DEF left
      <3> QED BY <2>1, <2>2, SentEffect
    <2>4. access' \in [Tab -> Access]
      BY <1>2 DEF Load, Access
    <2>5. call' \in [Call -> CallState]
      BY <1>2 DEF Load, CallState, NoCall
    <2> QED BY <1>2, <2>3, <2>4, <2>5 DEF Load
  <1>3. ASSUME NEW s \in Slot, Serve(s) PROVE TypeOK'
    <2>2. \A S : Revoke(S) => token' \in [Token -> [status : {"unused", "live", "revoked"},
                                                   family : Token \cup {NoToken}]]
      BY DEF Revoke
    <2>3. \A g \in BOOLEAN, k \in Token \cup {NoToken} :
              Answer(s, g, k) => exchange' \in [Slot -> Exchange]
      BY AnswerEffect
    <2>4. CASE Rotate(s)
      <3>1. exchange[s].cookie \in Token \cup {NoToken}
        BY DEF Exchange
      <3>2. \A k \in Token : token[k].family \in Token \cup {NoToken}
        OBVIOUS
      <3>3. PICK n \in Token :
               /\ Issue(n, token[exchange[s].cookie].family, {exchange[s].cookie})
               /\ Answer(s, TRUE, n)
        BY <2>4 DEF Rotate
      <3>4. exchange' \in [Slot -> Exchange]
        BY <2>3, <3>3
      <3>5. token' \in [Token -> [status : {"unused", "live", "revoked"},
                                  family : Token \cup {NoToken}]]
        BY <2>4, <3>1, <3>2, <3>3 DEF Issue, Rotate
      <3> QED BY <2>4, <3>4, <3>5 DEF Rotate
    <2>5. CASE Replay(s)
      <3>1. exchange' \in [Slot -> Exchange]
        BY <2>3, <2>5 DEF Replay
      <3>2. Revoke(LiveIn(token[exchange[s].cookie].family))
        BY <2>5 DEF Replay
      <3> QED BY <2>2, <2>5, <3>1, <3>2 DEF Replay
    <2>6. CASE Deny(s)
      BY <2>3, <2>6 DEF Deny
    <2>7. CASE SignIn(s)
      <3>1. PICK n \in Token : Issue(n, n, {}) /\ Answer(s, TRUE, n)
        BY <2>7 DEF SignIn
      <3>2. exchange' \in [Slot -> Exchange]
        BY <2>3, <3>1
      <3>3. token' \in [Token -> [status : {"unused", "live", "revoked"},
                                  family : Token \cup {NoToken}]]
        BY <3>1 DEF Issue
      <3> QED BY <2>7, <3>2, <3>3 DEF SignIn
    <2>8. CASE SignOut(s)
      <3>1. exchange' \in [Slot -> Exchange]
        BY <2>3, <2>8 DEF SignOut
      <3> QED BY <2>2, <2>8, <3>1 DEF SignOut
    <2> QED BY <1>3, <2>4, <2>5, <2>6, <2>7, <2>8 DEF Serve
  <1>4. CASE EndElsewhere
    BY <1>4 DEF EndElsewhere, Revoke
  <1>5. ASSUME NEW s \in Slot, Lose(s) PROVE TypeOK'
    <2>1. exchange' \in [Slot -> Exchange]
      BY <1>5, PhaseEffect DEF Lose
    <2>2. exchange[s].answer \in Token \cup {NoToken}
      BY DEF Exchange
    <2> QED BY <1>5, <2>1, <2>2 DEF Lose
  <1>6. ASSUME NEW s \in Slot, StoreCookie(s) PROVE TypeOK'
    <2>1. exchange' \in [Slot -> Exchange]
      BY <1>6, PhaseEffect DEF StoreCookie
    <2>2. exchange[s].answer \in Token \cup {NoToken} /\ exchange[s].alone \in BOOLEAN
      BY DEF Exchange
    <2> QED BY <1>6, <2>1, <2>2 DEF StoreCookie
  <1>7. ASSUME NEW s \in Slot, Settle(s) PROVE TypeOK'
    <2>1. Close(s) => exchange' \in [Slot -> Exchange]
      BY CloseEffect
    <2>2. \A t \in Tab, ok \in BOOLEAN : Resumed(t, ok) \in [Call -> CallState]
      BY DEF Resumed, CallState, NoCall
    <2>3. exchange[s].tab \in Tab \cup {NoTab} /\ Granted(s) \in BOOLEAN
      BY DEF Exchange, Granted
    <2>4. CASE RefreshSettles(s)
      <3>1. exchange[s].tab \in Tab /\ call' = Resumed(exchange[s].tab, Granted(s))
        BY <2>3, <2>4 DEF RefreshSettles
      <3>2. call' \in [Call -> CallState]
        BY <2>2, <2>3, <3>1
      <3>3. access' \in [Tab -> Access]
        BY <2>4 DEF RefreshSettles, Access
      <3> QED BY <2>1, <2>4, <3>2, <3>3 DEF RefreshSettles
    <2>5. CASE LoginSettles(s)
      <3>1. access' \in [Tab -> Access]
        BY <2>5 DEF LoginSettles, Access
      <3> QED BY <2>1, <2>5, <3>1 DEF LoginSettles
    <2>6. CASE LogoutSettles(s)
      <3>1. access' \in [Tab -> Access]
        BY <2>6 DEF LogoutSettles, Access
      <3> QED BY <2>1, <2>6, <3>1 DEF LogoutSettles
    <2>7. CASE NobodyListens(s)
      BY <2>1, <2>7 DEF NobodyListens
    <2> QED BY <1>7, <2>4, <2>5, <2>6, <2>7 DEF Settle
  <1>8. ASSUME NEW c \in Call, (\E t \in Tab : Send(c, t)) \/ CallEnds(c) PROVE TypeOK'
    <2> DEFINE sent(t) == [phase |-> "sent", tab |-> t, retry |-> FALSE]
    <2>0. NoCall \in CallState /\ \A t \in Tab : sent(t) \in CallState
      BY DEF CallState, NoCall
    <2>1. call' \in [Call -> CallState]
      <3>1. CASE CallEnds(c)
        BY <2>0, <3>1 DEF CallEnds
      <3>2. ASSUME NEW t \in Tab, Send(c, t) PROVE call' \in [Call -> CallState]
        BY <2>0, <3>2 DEF Send
      <3> QED BY <1>8, <3>1, <3>2
    <2> QED BY <1>8, <2>1 DEF Send, CallEnds
  <1>9. ASSUME NEW c \in Call, Unauthorized(c) PROVE TypeOK'
    <2>1. exchange' \in [Slot -> Exchange]
      BY <1>9, SentEffect DEF Unauthorized, RefreshShared, Awake
    <2>2. call' \in [Call -> CallState]
      BY <1>9 DEF Unauthorized, CallState
    <2> QED BY <1>9, <2>1, <2>2 DEF Unauthorized
  <1>10. ASSUME NEW t \in Tab, Expire(t) PROVE TypeOK'
    BY <1>10 DEF Expire, Access
  <1>11. CASE UNCHANGED vars
    BY <1>11 DEF vars
  <1> QED BY <1>1, <1>2, <1>3, <1>4, <1>5, <1>6, <1>7, <1>8, <1>9, <1>10, <1>11 DEF Next

-----------------------------------------------------------------------------
(* Loading a page leaves the page's exchanges behind, and is then a sending. *)

Left(t) == [x \in Slot |-> IF exchange[x].tab = t
                           THEN [exchange[x] EXCEPT !.tab = NoTab]
                           ELSE exchange[x]]

LEMMA LeftEffect ==
    ASSUME TypeOK, NEW t \in Tab
    PROVE  /\ Left(t) \in [Slot -> Exchange]
           /\ \A o \in Slot :
                  /\ Left(t)[o].tab = IF exchange[o].tab = t THEN NoTab ELSE exchange[o].tab
                  /\ Left(t)[o].kind = exchange[o].kind
                  /\ Left(t)[o].phase = exchange[o].phase
                  /\ Left(t)[o].cookie = exchange[o].cookie
                  /\ Left(t)[o].granted = exchange[o].granted
                  /\ Left(t)[o].answer = exchange[o].answer
                  /\ Left(t)[o].alone = exchange[o].alone
                  /\ exchange[o] = None => Left(t)[o] = None
  <1>1. ASSUME NEW o \in Slot
        PROVE  /\ Left(t)[o] \in Exchange
               /\ Left(t)[o].tab = IF exchange[o].tab = t THEN NoTab ELSE exchange[o].tab
               /\ Left(t)[o].kind = exchange[o].kind
               /\ Left(t)[o].phase = exchange[o].phase
               /\ Left(t)[o].cookie = exchange[o].cookie
               /\ Left(t)[o].granted = exchange[o].granted
               /\ Left(t)[o].answer = exchange[o].answer
               /\ Left(t)[o].alone = exchange[o].alone
    BY DEF TypeOK, Left, Exchange
  <1>2. ASSUME NEW o \in Slot, exchange[o] = None PROVE Left(t)[o] = None
    <2>1. None.tab = NoTab /\ t # NoTab
      BY ClientAssumption DEF None
    <2> QED BY <1>2, <2>1 DEF Left
  <1>3. Left(t) = [x \in Slot |-> Left(t)[x]]
    BY DEF Left
  <1> QED BY <1>1, <1>2, <1>3

(* What is sent comes from one of four handlers. *)
Sends(ex, s, t, kind) ==
    /\ Idle(s) /\ exchange' = Sent(ex, s, t, kind)
    /\ UNCHANGED <<token, jar, lost>>
    /\ kind = "refresh" => \A o \in Slot : ex[o].kind = "refresh" => ex[o].tab # t

LEMMA Sending ==
    ASSUME TypeOK, Awake, NEW t \in Tab, NEW s \in Slot,
           \/ Login(t, s) \/ Logout(t, s) \/ Load(t, s)
    PROVE  \E kind \in {"refresh", "login", "logout"} :
               \/ Sends(exchange, s, t, kind) /\ (kind = "login" => out' = FALSE)
               \/ Sends(Left(t), s, t, kind) /\ kind = "refresh"
  <1>1. CASE Login(t, s)
    BY <1>1 DEF Login, Sends
  <1>2. CASE Logout(t, s)
    BY <1>2 DEF Logout, Sends
  <1>3. CASE Load(t, s)
    <2>1. \A o \in Slot : Left(t)[o].tab # t
      BY LeftEffect, ClientAssumption
    <2>2. exchange' = Sent(Left(t), s, t, "refresh")
      BY <1>3 DEF Load, Left
    <2> QED BY <1>3, <2>1, <2>2 DEF Load, Sends
  <1> QED BY <1>1, <1>2, <1>3

(* What the invariants need to know of a sending. *)
SendFacts(s, t, kind) ==
    /\ Idle(s) /\ UNCHANGED <<token, jar, lost>>
    /\ exchange'[s].kind = kind /\ exchange'[s].tab = t
    /\ exchange'[s].phase = "sent" /\ exchange'[s].cookie = jar
    /\ exchange'[s].answer = NoToken
    /\ exchange'[s].alone =>
           \A o \in Slot \ {s} : ~Idle(o) => exchange[o].tab = t /\ exchange'[o].tab = t
    /\ \A o \in Slot \ {s} :
           /\ exchange'[o].kind = exchange[o].kind
           /\ exchange'[o].tab \in {exchange[o].tab, NoTab}
           /\ exchange'[o].phase = exchange[o].phase
           /\ exchange'[o].cookie = exchange[o].cookie
           /\ exchange'[o].granted = exchange[o].granted
           /\ exchange'[o].answer = exchange[o].answer
           /\ exchange'[o].alone =>
                  exchange[o].alone /\ exchange[o].tab = t /\ exchange'[o].tab = t
                  /\ \A x \in Slot \ {s} : exchange'[x].tab = exchange[x].tab
           /\ exchange[o] = None => exchange'[o] = None
           /\ kind = "refresh" /\ exchange[o].kind = "refresh" => exchange'[o].tab # t

LEMMA SendEffect ==
    ASSUME TypeOK, NEW t \in Tab, NEW s \in Slot, NEW kind \in {"refresh", "login", "logout"},
           Sends(exchange, s, t, kind) \/ Sends(Left(t), s, t, kind)
    PROVE  SendFacts(s, t, kind)
  <1>1. CASE Sends(exchange, s, t, kind)
    <2>1. exchange \in [Slot -> Exchange] /\ exchange' = Sent(exchange, s, t, kind)
      BY <1>1 DEF TypeOK, Sends
    <2>2. /\ exchange'[s].kind = kind /\ exchange'[s].tab = t
          /\ exchange'[s].phase = "sent" /\ exchange'[s].cookie = jar
          /\ exchange'[s].answer = NoToken
          /\ exchange'[s].alone =>
                 \A o \in Slot : exchange[o].kind # "none" => exchange[o].tab = t
          /\ \A o \in Slot \ {s} :
                 /\ exchange'[o].kind = exchange[o].kind
                 /\ exchange'[o].tab = exchange[o].tab
                 /\ exchange'[o].phase = exchange[o].phase
                 /\ exchange'[o].cookie = exchange[o].cookie
                 /\ exchange'[o].granted = exchange[o].granted
                 /\ exchange'[o].answer = exchange[o].answer
                 /\ exchange'[o].alone => exchange[o].alone /\ exchange[o].tab = t
                 /\ exchange[o] = None => exchange'[o] = None
      BY <2>1, SentEffect
    <2> QED BY <1>1, <2>2 DEF Sends, SendFacts, Idle
  <1>2. CASE Sends(Left(t), s, t, kind)
    <2>1. Left(t) \in [Slot -> Exchange] /\ exchange' = Sent(Left(t), s, t, kind)
      BY <1>2, LeftEffect DEF Sends
    <2>2. /\ exchange'[s].kind = kind /\ exchange'[s].tab = t
          /\ exchange'[s].phase = "sent" /\ exchange'[s].cookie = jar
          /\ exchange'[s].answer = NoToken
          /\ exchange'[s].alone =>
                 \A o \in Slot : Left(t)[o].kind # "none" => Left(t)[o].tab = t
          /\ \A o \in Slot \ {s} :
                 /\ exchange'[o].kind = Left(t)[o].kind
                 /\ exchange'[o].tab = Left(t)[o].tab
                 /\ exchange'[o].phase = Left(t)[o].phase
                 /\ exchange'[o].cookie = Left(t)[o].cookie
                 /\ exchange'[o].granted = Left(t)[o].granted
                 /\ exchange'[o].answer = Left(t)[o].answer
                 /\ exchange'[o].alone => Left(t)[o].alone /\ Left(t)[o].tab = t
                 /\ Left(t)[o] = None => exchange'[o] = None
      BY <2>1, SentEffect
    <2>3. \A o \in Slot : Left(t)[o].tab # t
      BY LeftEffect, ClientAssumption
    <2>4. \A o \in Slot \ {s} : ~exchange'[o].alone
      BY <2>2, <2>3
    <2>5. \A o \in Slot :
              /\ Left(t)[o].tab \in {exchange[o].tab, NoTab}
              /\ Left(t)[o].kind = exchange[o].kind
              /\ Left(t)[o].phase = exchange[o].phase
              /\ Left(t)[o].cookie = exchange[o].cookie
              /\ Left(t)[o].granted = exchange[o].granted
              /\ Left(t)[o].answer = exchange[o].answer
              /\ exchange[o] = None => Left(t)[o] = None
      BY LeftEffect
    <2>6. exchange'[s].alone => \A o \in Slot : Idle(o)
      BY <2>2, <2>3, <2>5 DEF Idle
    <2>7. \A o \in Slot \ {s} : exchange'[o].tab # t
      BY <2>2, <2>3
    <2> QED BY <1>2, <2>2, <2>4, <2>5, <2>6, <2>7 DEF Sends, SendFacts
  <1> QED BY <1>1, <1>2

Core == Slots /\ Server /\ Places /\ Newest /\ Solitude

LEMMA SendKeepsCore ==
    ASSUME TypeOK, Core, NEW t \in Tab, NEW s \in Slot,
           NEW kind \in {"refresh", "login", "logout"}, SendFacts(s, t, kind)
    PROVE  Core'
  <1>1. exchange[s] = None /\ None.phase = "sent" /\ None.answer = NoToken
    BY DEF Core, Slots, SendFacts, None
  <1>2. \A k : OnItsWay(k)' <=> OnItsWay(k)
    BY <1>1 DEF OnItsWay, SendFacts
  <1>3. Slots'
    BY DEF Core, Slots, SendFacts, Idle
  <1>4. Server'
    BY DEF Core, Server, SendFacts, IsLive
  <1>5. Places'
    <2>1. jar # NoToken => jar \notin lost /\ token[jar].status # "unused" /\ ~OnItsWay(jar)
      BY DEF Core, Places
    <2> QED BY <1>2, <2>1 DEF Core, Places, SendFacts, IsLive
  <1>6. Newest'
    BY <1>2 DEF Core, Newest, SendFacts, IsLive
  <1>7. Solitude'
    <2>1. \A x, o \in Slot : /\ exchange'[x].kind = "refresh" /\ exchange'[o].kind = "refresh"
                             /\ exchange'[x].tab = exchange'[o].tab /\ exchange'[x].tab \in Tab
                             => x = o
      BY ClientAssumption DEF Core, Solitude, SendFacts
    <2>2. \A x \in Slot : exchange'[x].alone =>
             /\ exchange'[x].tab \in Tab
             /\ \A o \in Slot : ~Idle(o)' => exchange'[o].tab = exchange'[x].tab
      BY DEF Core, Solitude, SendFacts, Idle
    <2>3. \A x \in Slot : LET k == exchange'[x].answer IN
             exchange'[x].kind = "login" /\ exchange'[x].phase = "answered" /\ k # NoToken =>
                 \A y \in Token : token'[y].family = token'[k].family => y = k
      BY DEF Core, Solitude, SendFacts
    <2>4. ASSUME NEW x \in Slot, Waiting(x, "refresh")', exchange'[x].alone,
                 exchange'[x].cookie # NoToken, NEW y \in Token, IsLive(y)',
                 token'[y].family = token'[exchange'[x].cookie].family
          PROVE  y = exchange'[x].cookie \/ y \in lost'
      <3>1. CASE x # s
        BY <2>4, <3>1 DEF Core, Solitude, SendFacts, Waiting, IsLive
      <3>2. CASE x = s
        <4>1. /\ kind = "refresh" /\ jar # NoToken /\ exchange'[x].cookie = jar
              /\ IsLive(y) /\ token[y].family = token[jar].family /\ lost' = lost
              /\ \A o \in Slot \ {s} : ~Idle(o) => exchange[o].tab = t
                                                /\ exchange'[o].tab = t
          BY <2>4, <3>2 DEF SendFacts, Waiting, IsLive
        <4>2. jar \in Token
          BY <4>1 DEF TypeOK
        <4>3. token[jar].status \in {"live", "revoked"}
          BY <4>1, <4>2 DEF Core, Places, TypeOK
        <4>4. CASE token[jar].status = "live"
          BY <4>1, <4>2, <4>4 DEF Core, Server, IsLive
        <4>5. CASE token[jar].status = "revoked"
          <5>1. y \in lost \/ OnItsWay(y)
            BY <4>1, <4>5 DEF Core, Newest
          <5>2. SUFFICES ASSUME OnItsWay(y) PROVE FALSE
            BY <4>1, <5>1
          <5>3. PICK o \in Slot : exchange[o].phase = "answered" /\ exchange[o].answer = y
            BY <5>2 DEF OnItsWay
          <5>4. y # NoToken /\ o # s
            BY <1>1, <5>3, ClientAssumption
          <5>5. exchange[o].kind \in {"refresh", "login"}
            BY <5>3, <5>4 DEF Core, Slots
          <5>6. exchange'[o].tab = t
            BY <4>1, <5>4, <5>5 DEF Idle
          <5>7. exchange[o].kind = "login"
            BY <4>1, <5>4, <5>5, <5>6 DEF SendFacts
          <5>8. jar = y
            BY <4>1, <4>2, <5>3, <5>4, <5>7 DEF Core, Solitude
          <5> QED BY <4>5, <4>1, <5>8 DEF IsLive
        <4> QED BY <4>3, <4>4, <4>5
      <3> QED BY <3>1, <3>2
    <2> QED BY <2>1, <2>2, <2>3, <2>4 DEF Solitude
  <1> QED BY <1>3, <1>4, <1>5, <1>6, <1>7 DEF Core

-----------------------------------------------------------------------------
(* Serving *)

AnswerFacts(s, k) ==
    /\ exchange[s].kind # "none" /\ exchange[s].phase = "sent"
    /\ exchange'[s].kind = exchange[s].kind /\ exchange'[s].tab = exchange[s].tab
    /\ exchange'[s].phase = "answered" /\ exchange'[s].cookie = exchange[s].cookie
    /\ exchange'[s].answer = k /\ (k # NoToken => exchange'[s].granted)
    /\ exchange'[s].alone = exchange[s].alone
    /\ \A o \in Slot \ {s} : exchange'[o] = exchange[o]
    /\ UNCHANGED <<jar, lost>>

(* Whole families may be revoked, and what was presented. *)
Revocable(S) ==
    \A k \in S \cap Token : /\ token[k].status # "unused"
                            /\ \/ \E s \in Slot : exchange[s].cookie = k
                               \/ LiveIn(token[k].family) \subseteq S

LEMMA RevokeKeepsCore ==
    ASSUME TypeOK, Core, NEW S, Revoke(S), Revocable(S),
           \/ UNCHANGED <<jar, lost, exchange>>
           \/ \E s \in Slot : AnswerFacts(s, NoToken)
    PROVE  Core'
  <1>1. \A k \in Token : /\ token'[k].family = token[k].family
                         /\ token'[k].status = IF k \in S THEN "revoked" ELSE token[k].status
    BY DEF TypeOK, Revoke
  <1>2. \A k \in Token : /\ IsLive(k)' <=> IsLive(k) /\ k \notin S
                         /\ token'[k].status = "unused" <=> token[k].status = "unused"
    BY <1>1 DEF IsLive, Revocable
  <1>3. /\ UNCHANGED <<jar, lost>>
        /\ \A o \in Slot :
               /\ exchange'[o].kind = exchange[o].kind /\ exchange'[o].tab = exchange[o].tab
               /\ exchange'[o].cookie = exchange[o].cookie
               /\ exchange'[o].alone = exchange[o].alone
               /\ Idle(o) => exchange'[o] = exchange[o]
               /\ \/ exchange'[o] = exchange[o]
                  \/ /\ exchange[o].phase = "sent" /\ exchange'[o].phase = "answered"
                     /\ exchange'[o].answer = NoToken
    BY DEF AnswerFacts, Idle
  <1>4. \A k \in Token : OnItsWay(k)' <=> OnItsWay(k)
    <2>1. NoToken \notin Token
      BY ClientAssumption
    <2> QED BY <1>3, <2>1 DEF OnItsWay
  <1>5. Slots'
    BY <1>3 DEF Core, Slots, Idle
  <1>6. Server'
    BY <1>1, <1>2 DEF Core, Server
  <1>7. Places'
    <2>1. jar \in Token \cup {NoToken} /\ lost \subseteq Token
          /\ \A o \in Slot : /\ exchange[o].cookie \in Token \cup {NoToken}
                            /\ exchange[o].answer \in Token \cup {NoToken}
      BY DEF TypeOK, Exchange
    <2>3. ASSUME NEW s \in Slot, exchange'[s].phase = "answered", NEW k \in Token,
                 k = exchange'[s].answer
          PROVE  /\ k \notin lost /\ token[k].status # "unused"
                 /\ \A o \in Slot : exchange'[o].phase = "answered" /\ exchange'[o].answer = k
                                   => o = s
                 /\ token'[k].status = "revoked" =>
                        \A x \in Token : IsLive(x)' => token'[x].family # token'[k].family
      <3>1. exchange[s].phase = "answered" /\ exchange[s].answer = k
        BY <1>3, <2>3, ClientAssumption
      <3>2. /\ k \notin lost /\ token[k].status # "unused" /\ OnItsWay(k)
            /\ \A o \in Slot : exchange[o].phase = "answered" /\ exchange[o].answer = k => o = s
            /\ token[k].status = "revoked" =>
                   \A x \in Token : IsLive(x) => token[x].family # token[k].family
        BY <3>1, ClientAssumption DEF Core, Places, OnItsWay
      <3>3. \A o \in Slot : exchange'[o].phase = "answered" /\ exchange'[o].answer = k => o = s
        BY <1>3, <3>2, ClientAssumption
      <3>4. \A o \in Slot : exchange[o].cookie # k
        BY <3>2, ClientAssumption DEF Core, Places
      <3>5. k \in S => LiveIn(token[k].family) \subseteq S
        BY <3>4 DEF Revocable
      <3>6. ASSUME token'[k].status = "revoked", NEW x \in Token, IsLive(x)'
            PROVE  token'[x].family # token'[k].family
        <4>1. IsLive(x) /\ x \notin S
          BY <1>2, <3>6
        <4>2. CASE k \in S
          BY <1>1, <3>5, <4>1, <4>2 DEF LiveIn, IsLive
        <4>3. CASE k \notin S
          BY <1>1, <3>2, <3>6, <4>1, <4>3
        <4> QED BY <4>2, <4>3
      <3> QED BY <3>2, <3>3, <3>6
    <2>4. ASSUME NEW s \in Slot, exchange'[s].phase = "answered", exchange'[s].answer # NoToken
          PROVE  LET k == exchange'[s].answer IN
               /\ k \notin lost' /\ token'[k].status # "unused"
               /\ \A o \in Slot : exchange'[o].phase = "answered" /\ exchange'[o].answer = k
                                  => o = s
               /\ token'[k].status = "revoked" =>
                      \A x \in Token : IsLive(x)' => token'[x].family # token'[k].family
      <3>1. exchange'[s].answer \in Token
        BY <1>3, <2>1, <2>4
      <3> QED BY <1>2, <1>3, <2>3, <2>4, <3>1
    <2>5. \A k \in lost' : token'[k].status # "unused"
      BY <1>2, <1>3, <2>1 DEF Core, Places
    <2>6. jar' # NoToken => jar' \notin lost' /\ token'[jar'].status # "unused" /\ ~OnItsWay(jar)'
      <3>1. jar' = jar /\ lost' = lost
        BY <1>3
      <3>2. CASE jar \in Token
        BY <1>2, <1>4, <3>1, <3>2 DEF Core, Places, OnItsWay
      <3> QED BY <2>1, <3>1, <3>2
    <2>7. ASSUME NEW s \in Slot, exchange'[s].cookie # NoToken
          PROVE  /\ exchange'[s].cookie \notin lost'
                 /\ token'[exchange'[s].cookie].status # "unused"
                 /\ ~OnItsWay(exchange[s].cookie)'
      <3>1. exchange'[s].cookie = exchange[s].cookie /\ lost' = lost /\ exchange[s].cookie \in Token
        BY <1>3, <2>1, <2>7
      <3>2. ~OnItsWay(exchange[s].cookie) /\ exchange[s].cookie \notin lost
            /\ token[exchange[s].cookie].status # "unused"
        BY <3>1, ClientAssumption DEF Core, Places
      <3>3. \A o \in Slot : ~(exchange'[o].phase = "answered" /\ exchange'[o].answer = exchange[s].cookie)
        BY <1>3, <3>1, <3>2, ClientAssumption DEF OnItsWay
      <3> QED BY <1>2, <3>1, <3>2, <3>3 DEF OnItsWay
    <2> QED BY <1>1, <2>4, <2>5, <2>6, <2>7 DEF Places
  <1>8. Newest'
    <2>1. SUFFICES ASSUME jar # NoToken, token'[jar].status = "revoked", NEW x \in Token,
                          IsLive(x)', token'[x].family = token'[jar].family
                   PROVE  x \in lost \/ OnItsWay(x)
      BY <1>3, <1>4 DEF Newest
    <2>2. jar \in Token
      BY <2>1 DEF TypeOK
    <2>3. IsLive(x) /\ x \notin S /\ token[x].family = token[jar].family
      BY <1>1, <1>2, <2>1, <2>2
    <2>4. CASE token[jar].status = "revoked"
      BY <2>1, <2>3, <2>4 DEF Core, Newest
    <2>5. CASE token[jar].status # "revoked"
      <3>1. jar \in S /\ token[jar].status = "live"
        BY <1>1, <1>2, <2>1, <2>2, <2>5 DEF TypeOK, Revocable
      <3>2. x = jar
        BY <2>2, <2>3, <3>1 DEF Core, Server, IsLive
      <3> QED BY <2>3, <3>1, <3>2
    <2> QED BY <2>4, <2>5
  <1>9. Solitude'
    <2>1. \A x, o \in Slot : /\ exchange'[x].kind = "refresh" /\ exchange'[o].kind = "refresh"
                             /\ exchange'[x].tab = exchange'[o].tab /\ exchange'[x].tab \in Tab
                             => x = o
      BY <1>3 DEF Core, Solitude
    <2>2. \A x \in Slot : exchange'[x].alone =>
             /\ exchange'[x].tab \in Tab
             /\ \A o \in Slot : ~Idle(o)' => exchange'[o].tab = exchange'[x].tab
      BY <1>3 DEF Core, Solitude, Idle
    <2>3. \A x \in Slot : exchange'[x].answer \in Token \cup {NoToken}
                           /\ exchange'[x].cookie \in Token \cup {NoToken}
      BY <1>3 DEF TypeOK, Exchange
    <2>4. \A x \in Slot : LET k == exchange'[x].answer IN
             exchange'[x].kind = "login" /\ exchange'[x].phase = "answered" /\ k # NoToken =>
                 \A y \in Token : token'[y].family = token'[k].family => y = k
      BY <1>1, <1>3, <2>3 DEF Core, Solitude
    <2>5. \A x \in Slot : LET k == exchange'[x].cookie IN
             Waiting(x, "refresh")' /\ exchange'[x].alone /\ k # NoToken =>
                 \A y \in Token : IsLive(y)' /\ token'[y].family = token'[k].family
                                  => y = k \/ y \in lost'
      BY <1>1, <1>2, <1>3, <2>3 DEF Core, Solitude, Waiting
    <2> QED BY <2>1, <2>2, <2>4, <2>5 DEF Solitude
  <1> QED BY <1>5, <1>6, <1>7, <1>8, <1>9 DEF Core

(* A new token continues the family of a token that was presented live, or *)
(* begins one of its own.                                                  *)
Continues(s, f, spent) ==
    \E k \in Token : /\ exchange[s].kind = "refresh" /\ exchange[s].cookie = k
                     /\ IsLive(k) /\ f = token[k].family /\ spent = {k}

LEMMA IssueKeepsCore ==
    ASSUME TypeOK, Core, NEW s \in Slot, NEW n \in Token, NEW f, NEW spent,
           Issue(n, f, spent), AnswerFacts(s, n), exchange[s].kind \in {"refresh", "login"},
           Continues(s, f, spent) \/ (exchange[s].kind = "login" /\ f = n /\ spent = {})
    PROVE  Core'
  <1>1. NoToken \notin Token
    BY ClientAssumption
  <1>2. /\ token[n].status = "unused"
        /\ token'[n].family = f /\ token'[n].status = "live"
        /\ \A x \in Token \ {n} :
               /\ token'[x].family = token[x].family
               /\ token'[x].status = IF x \in spent THEN "revoked" ELSE token[x].status
    BY DEF TypeOK, Issue
  <1>3. \A x \in spent : /\ x \in Token /\ IsLive(x) /\ token[x].family = f
                         /\ exchange[s].cookie = x /\ x # n
    BY <1>2 DEF Continues, IsLive
  <1>4. \A x \in Token : /\ IsLive(x)' <=> (x = n \/ (IsLive(x) /\ x \notin spent))
                         /\ token'[x].status = "unused" <=> (token[x].status = "unused" /\ x # n)
    BY <1>2, <1>3 DEF IsLive
  <1>5. \A x \in Token : IsLive(x) /\ token[x].family = f => x \in spent
    <2>1. CASE Continues(s, f, spent)
      BY <2>1 DEF Core, Server, Continues
    <2>2. CASE f = n
      BY <1>1, <1>2, <2>2 DEF Core, Server, IsLive
    <2> QED BY <2>1, <2>2
  <1>6. f \in Token /\ token'[f].status # "unused"
    <2>1. CASE Continues(s, f, spent)
      <3>1. f \in Token /\ token[f].status # "unused"
        BY <2>1 DEF Core, Server, Continues, IsLive
      <3> QED BY <1>4, <3>1
    <2>2. CASE f = n
      BY <1>2, <2>2
    <2> QED BY <2>1, <2>2
  <1>7. /\ n # jar /\ n \notin lost
        /\ \A o \in Slot : exchange[o].cookie # n
        /\ \A o \in Slot : exchange[o].phase = "answered" => exchange[o].answer # n
    BY <1>1, <1>2 DEF Core, Places
  <1>8. /\ UNCHANGED <<jar, lost>> /\ exchange[s].phase = "sent"
        /\ exchange'[s].phase = "answered" /\ exchange'[s].answer = n
        /\ exchange'[s].granted
        /\ \A o \in Slot :
               /\ exchange'[o].kind = exchange[o].kind /\ exchange'[o].tab = exchange[o].tab
               /\ exchange'[o].cookie = exchange[o].cookie
               /\ exchange'[o].alone = exchange[o].alone
               /\ Idle(o) => exchange'[o] = exchange[o]
               /\ o # s => exchange'[o] = exchange[o]
    BY <1>1 DEF AnswerFacts, Idle
  <1>9. \A x : OnItsWay(x)' <=> (OnItsWay(x) \/ x = n)
    BY <1>8 DEF OnItsWay
  <1>10. /\ jar \in Token \cup {NoToken} /\ lost \subseteq Token
         /\ \A o \in Slot : /\ exchange[o].cookie \in Token \cup {NoToken}
                           /\ exchange[o].answer \in Token \cup {NoToken}
    BY DEF TypeOK, Exchange
  <1>11. Slots'
    BY <1>8 DEF Core, Slots, Idle
  <1>12. Server'
    <2>1. \A k \in Token : token'[k].status = "unused" => token'[k].family = NoToken
      BY <1>2, <1>4 DEF Core, Server
    <2>2. \A k \in Token : token'[k].status # "unused" =>
             token'[k].family \in Token /\ token'[token'[k].family].status # "unused"
      BY <1>2, <1>4, <1>6 DEF Core, Server
    <2>3. \A k, x \in Token : IsLive(k)' /\ IsLive(x)' /\ token'[k].family = token'[x].family
                              => k = x
      BY <1>2, <1>4, <1>5 DEF Core, Server
    <2> QED BY <2>1, <2>2, <2>3 DEF Server
  <1>13. Places'
    <2>1. \A k \in lost' : token'[k].status # "unused"
      BY <1>4, <1>8, <1>10 DEF Core, Places
    <2>2. jar' # NoToken => jar' \notin lost' /\ token'[jar'].status # "unused"
                            /\ \A o \in Slot : ~(exchange'[o].phase = "answered"
                                               /\ exchange'[o].answer = jar')
      BY <1>4, <1>7, <1>8, <1>10 DEF Core, Places, OnItsWay
    <2>3. \A x \in Slot : LET k == exchange'[x].cookie IN
             k # NoToken => /\ k \notin lost' /\ token'[k].status # "unused"
                            /\ \A o \in Slot : ~(exchange'[o].phase = "answered"
                                               /\ exchange'[o].answer = k)
      BY <1>4, <1>7, <1>8, <1>10 DEF Core, Places, OnItsWay
    <2>4. ASSUME NEW x \in Slot, exchange'[x].phase = "answered", exchange'[x].answer # NoToken
          PROVE  LET k == exchange'[x].answer IN
               /\ k \notin lost' /\ token'[k].status # "unused"
               /\ \A o \in Slot : exchange'[o].phase = "answered" /\ exchange'[o].answer = k
                                  => o = x
               /\ token'[k].status = "revoked" =>
                      \A y \in Token : IsLive(y)' => token'[y].family # token'[k].family
      <3>1. CASE x = s
        BY <1>2, <1>7, <1>8, <3>1
      <3>2. CASE x # s
        <4> DEFINE a == exchange[x].answer
        <4>1. exchange'[x] = exchange[x] /\ a \in Token /\ exchange[x].phase = "answered"
          BY <1>8, <1>10, <2>4, <3>2
        <4>2. /\ a \notin lost /\ token[a].status # "unused"
              /\ \A o \in Slot : exchange[o].phase = "answered" /\ exchange[o].answer = a => o = x
              /\ token[a].status = "revoked" =>
                     \A y \in Token : IsLive(y) => token[y].family # token[a].family
          BY <1>1, <4>1 DEF Core, Places
        <4>3. a # n /\ a \notin spent
          <5>1. exchange[s].cookie # a
            BY <1>1, <4>1 DEF Core, Places, OnItsWay
          <5> QED BY <1>3, <1>7, <4>1, <5>1
        <4>4. token'[a].status = token[a].status /\ token'[a].family = token[a].family
          BY <1>2, <4>1, <4>3
        <4>5. \A o \in Slot : exchange'[o].phase = "answered" /\ exchange'[o].answer = a => o = x
          BY <1>8, <4>2, <4>3
        <4>6. ASSUME token[a].status = "revoked", NEW y \in Token, IsLive(y)'
              PROVE  token'[y].family # token[a].family
          <5>1. CASE y # n
            BY <1>2, <1>4, <4>2, <4>6, <5>1
          <5>2. CASE y = n
            <6>1. CASE Continues(s, f, spent)
              BY <1>2, <4>2, <4>6, <5>2, <6>1 DEF Continues
            <6>2. CASE f = n
              BY <1>1, <1>2, <4>1, <4>2, <5>2, <6>2 DEF Core, Server
            <6> QED BY <6>1, <6>2
          <5> QED BY <5>1, <5>2
        <4> QED BY <1>8, <4>1, <4>2, <4>4, <4>5, <4>6
      <3> QED BY <3>1, <3>2
    <2> QED BY <2>1, <2>2, <2>3, <2>4 DEF Places, OnItsWay
  <1>14. Newest'
    <2>1. SUFFICES ASSUME jar # NoToken, token'[jar].status = "revoked", NEW x \in Token,
                          IsLive(x)', token'[x].family = token'[jar].family
                   PROVE  x \in lost \/ OnItsWay(x) \/ x = n
      BY <1>8, <1>9 DEF Newest
    <2>2. SUFFICES ASSUME x # n PROVE x \in lost \/ OnItsWay(x)
      OBVIOUS
    <2>3. jar \in Token /\ jar # n
      BY <1>7, <1>10, <2>1
    <2>4. IsLive(x) /\ x \notin spent /\ token[x].family = token[jar].family
      BY <1>2, <1>4, <2>1, <2>2, <2>3
    <2>5. CASE jar \in spent
      BY <1>3, <1>5, <2>4, <2>5
    <2>6. CASE jar \notin spent
      BY <1>2, <2>1, <2>3, <2>4, <2>6 DEF Core, Newest
    <2> QED BY <2>5, <2>6
  <1>15. Solitude'
    <2>1. \A x, o \in Slot : /\ exchange'[x].kind = "refresh" /\ exchange'[o].kind = "refresh"
                             /\ exchange'[x].tab = exchange'[o].tab /\ exchange'[x].tab \in Tab
                             => x = o
      BY <1>8 DEF Core, Solitude
    <2>2. \A x \in Slot : exchange'[x].alone =>
             /\ exchange'[x].tab \in Tab
             /\ \A o \in Slot : ~Idle(o)' => exchange'[o].tab = exchange'[x].tab
      BY <1>8 DEF Core, Solitude, Idle
    <2>3. ASSUME NEW x \in Slot, exchange'[x].kind = "login", exchange'[x].phase = "answered",
                 exchange'[x].answer # NoToken, NEW y \in Token,
                 token'[y].family = token'[exchange'[x].answer].family
          PROVE  y = exchange'[x].answer
      <3>1. CASE x = s
        <4>1. f = n /\ exchange'[x].answer = n
          BY <1>8, <2>3, <3>1 DEF Continues
        <4>2. CASE y # n
          BY <1>1, <1>2, <2>3, <4>1, <4>2 DEF Core, Server
        <4> QED BY <4>1, <4>2
      <3>2. CASE x # s
        <4> DEFINE a == exchange[x].answer
        <4>1. exchange'[x] = exchange[x] /\ a \in Token /\ a # n
              /\ exchange[x].phase = "answered" /\ exchange[x].kind = "login"
          BY <1>7, <1>8, <1>10, <2>3, <3>2
        <4>2. \A k \in Token : token[k].family = token[a].family => k = a
          BY <1>1, <4>1 DEF Core, Solitude
        <4>3. token[a].status # "unused" /\ exchange[s].cookie # a
          BY <1>1, <4>1 DEF Core, Places, OnItsWay
        <4>4. token'[y].family = token[a].family
          BY <1>2, <2>3, <4>1
        <4>5. f # token[a].family
          <5>1. CASE Continues(s, f, spent)
            BY <4>2, <4>3, <5>1 DEF Continues
          <5>2. CASE f = n
            BY <1>1, <1>2, <4>1, <4>3, <5>2 DEF Core, Server
          <5> QED BY <5>1, <5>2
        <4> QED BY <1>2, <4>1, <4>2, <4>4, <4>5
      <3> QED BY <3>1, <3>2
    <2>4. ASSUME NEW x \in Slot, Waiting(x, "refresh")', exchange'[x].alone,
                 exchange'[x].cookie # NoToken, NEW y \in Token, IsLive(y)',
                 token'[y].family = token'[exchange'[x].cookie].family
          PROVE  y = exchange'[x].cookie \/ y \in lost'
      <3> DEFINE k == exchange[x].cookie
      <3>1. x # s /\ exchange'[x] = exchange[x] /\ k \in Token /\ k # n
        BY <1>7, <1>8, <1>10, <2>4 DEF Waiting
      <3>2. exchange[x].kind = "refresh" /\ exchange[x].phase = "sent" /\ exchange[x].alone
        BY <2>4, <3>1 DEF Waiting
      <3>3. exchange[s].kind # "refresh"
        <4>1. exchange[x].tab \in Tab /\ exchange[s].tab = exchange[x].tab
          BY <3>2 DEF Core, Solitude, Idle, AnswerFacts
        <4> QED BY <3>1, <3>2, <4>1 DEF Core, Solitude
      <3>4. f = n /\ spent = {}
        BY <3>3 DEF Continues
      <3>5. token[k].status # "unused"
        BY <1>1, <3>1 DEF Core, Places
      <3>6. y # n
        BY <1>1, <1>2, <2>4, <3>1, <3>4, <3>5 DEF Core, Server
      <3>7. IsLive(y) /\ token[y].family = token[k].family
        BY <1>2, <1>4, <2>4, <3>1, <3>6
      <3> QED BY <1>1, <1>8, <3>1, <3>2, <3>7 DEF Core, Solitude, Waiting
    <2> QED BY <2>1, <2>2, <2>3, <2>4 DEF Solitude
  <1> QED BY <1>11, <1>12, <1>13, <1>14, <1>15 DEF Core

LEMMA ServeKeepsCore == ASSUME TypeOK, Core, NEW s \in Slot, Serve(s) PROVE Core'
  <1>1. exchange[s].cookie \in Token \cup {NoToken}
    BY DEF TypeOK, Exchange
  <1>2. \A g \in BOOLEAN, k \in Token \cup {NoToken} :
            /\ Answer(s, g, k) /\ (k # NoToken => g)
            /\ exchange[s].kind # "none" /\ exchange[s].phase = "sent"
            /\ UNCHANGED <<jar, lost>>
            => AnswerFacts(s, k)
    BY AnswerEffect DEF AnswerFacts
  <1>3. CASE Rotate(s)
    <2> DEFINE k == exchange[s].cookie
    <2>1. PICK n \in Token : Issue(n, token[k].family, {k}) /\ Answer(s, TRUE, n)
      BY <1>3 DEF Rotate
    <2>2. AnswerFacts(s, n)
      BY <1>2, <1>3, <2>1 DEF Rotate, Waiting
    <2>3. Continues(s, token[k].family, {k}) /\ exchange[s].kind = "refresh"
      BY <1>1, <1>3 DEF Rotate, Waiting, Continues, IsLive
    <2> QED BY <2>1, <2>2, <2>3, IssueKeepsCore
  <1>4. CASE SignIn(s)
    <2>1. PICK n \in Token : Issue(n, n, {}) /\ Answer(s, TRUE, n)
      BY <1>4 DEF SignIn
    <2>2. AnswerFacts(s, n) /\ exchange[s].kind = "login"
      BY <1>2, <1>4, <2>1 DEF SignIn, Waiting
    <2> QED BY <2>1, <2>2, IssueKeepsCore
  <1>5. CASE Replay(s)
    <2> DEFINE S == LiveIn(token[exchange[s].cookie].family)
    <2>1. Revoke(S) /\ AnswerFacts(s, NoToken)
      BY <1>2, <1>5 DEF Replay, Waiting
    <2>2. Revocable(S)
      BY DEF Revocable, LiveIn
    <2> QED BY <2>1, <2>2, RevokeKeepsCore
  <1>6. CASE SignOut(s)
    <2>1. Revoke({exchange[s].cookie}) /\ AnswerFacts(s, NoToken)
      BY <1>2, <1>6 DEF SignOut, Waiting
    <2>2. Revocable({exchange[s].cookie})
      BY ClientAssumption DEF Revocable, Core, Places
    <2> QED BY <2>1, <2>2, RevokeKeepsCore
  <1>7. CASE Deny(s)
    <2>1. AnswerFacts(s, NoToken)
      BY <1>2, <1>7 DEF Deny
    <2>2. Revoke({}) /\ Revocable({})
      BY <1>7 DEF Deny, Revoke, Revocable, TypeOK
    <2> QED BY <2>1, <2>2, RevokeKeepsCore
  <1> QED BY <1>3, <1>4, <1>5, <1>6, <1>7 DEF Serve

LEMMA EndKeepsCore == ASSUME TypeOK, Core, EndElsewhere PROVE Core'
  <1> DEFINE S == {k \in Token : token[k].status = "live"}
  <1>1. Revoke(S) /\ UNCHANGED <<jar, lost, exchange>>
    BY DEF EndElsewhere
  <1>2. Revocable(S)
    BY DEF Revocable, LiveIn
  <1> QED BY <1>1, <1>2, RevokeKeepsCore

-----------------------------------------------------------------------------
(* Answers *)

(* Slot s leaves the phase it is in; nothing else moves. *)
Moves(s) ==
    /\ exchange[s].kind # "none" /\ exchange'[s].phase \in {"stored", "lost"}
    /\ exchange'[s].kind = exchange[s].kind /\ exchange'[s].tab = exchange[s].tab
    /\ exchange'[s].cookie = exchange[s].cookie
    /\ exchange'[s].granted = exchange[s].granted
    /\ exchange'[s].answer = exchange[s].answer
    /\ exchange'[s].alone = exchange[s].alone
    /\ \A o \in Slot \ {s} : exchange'[o] = exchange[o]
    /\ UNCHANGED token

LEMMA MoveKeepsCore ==
    ASSUME TypeOK, Core, NEW s \in Slot, Moves(s), jar' \in Token \cup {NoToken},
           LET a == exchange[s].answer IN
             \/ /\ jar' = jar /\ lost' = lost \cup ({a} \ {NoToken})
                /\ exchange[s].phase \in {"sent", "answered"}
             \/ /\ jar' \in {jar, a} /\ lost' = lost /\ exchange[s].phase = "answered"
                /\ a # NoToken => jar' = a
    PROVE  Core'
  <1> DEFINE a == exchange[s].answer
  <1>1. NoToken \notin Token /\ a \in Token \cup {NoToken} /\ lost \subseteq Token
        /\ jar \in Token \cup {NoToken}
        /\ \A o \in Slot : /\ exchange[o].cookie \in Token \cup {NoToken}
                          /\ exchange[o].answer \in Token \cup {NoToken}
    BY ClientAssumption DEF TypeOK, Exchange
  <1>2. /\ UNCHANGED token
        /\ \A o \in Slot :
               /\ exchange'[o].kind = exchange[o].kind /\ exchange'[o].tab = exchange[o].tab
               /\ exchange'[o].cookie = exchange[o].cookie
               /\ exchange'[o].granted = exchange[o].granted
               /\ exchange'[o].answer = exchange[o].answer
               /\ exchange'[o].alone = exchange[o].alone
               /\ Idle(o) => exchange'[o] = exchange[o]
               /\ o # s => exchange'[o] = exchange[o]
        /\ exchange'[s].phase \in {"stored", "lost"}
    BY DEF Moves, Idle
  <1>3. a # NoToken => exchange[s].phase # "sent"
    BY DEF Core, Slots
  <1>4. \A x \in Token : /\ OnItsWay(x)' => OnItsWay(x) /\ x # a
                         /\ OnItsWay(x) => OnItsWay(x)' \/ x = a
    <2>1. ASSUME NEW x \in Token, OnItsWay(x)' PROVE OnItsWay(x) /\ x # a
      <3>1. PICK o \in Slot : exchange'[o].phase = "answered" /\ exchange'[o].answer = x
        BY <2>1 DEF OnItsWay
      <3>2. o # s /\ exchange[o].phase = "answered" /\ exchange[o].answer = x
        BY <1>2, <3>1
      <3>3. x # a
        <4>1. SUFFICES ASSUME x = a PROVE FALSE
          OBVIOUS
        <4>2. a # NoToken
          BY <1>1, <4>1
        <4>3. exchange[s].phase = "answered"
          BY <1>3, <4>2
        <4> QED BY <1>1, <3>2, <4>1, <4>3 DEF Core, Places
      <3> QED BY <3>2, <3>3 DEF OnItsWay
    <2>2. ASSUME NEW x \in Token, OnItsWay(x), x # a PROVE OnItsWay(x)'
      <3>1. PICK o \in Slot : exchange[o].phase = "answered" /\ exchange[o].answer = x
        BY <2>2 DEF OnItsWay
      <3>2. exchange'[o].phase = "answered" /\ exchange'[o].answer = x
        BY <1>2, <2>2, <3>1
      <3> QED BY <3>2 DEF OnItsWay
    <2> QED BY <2>1, <2>2
  <1>5. a # NoToken /\ exchange[s].phase = "answered" =>
            /\ OnItsWay(a) /\ a \in Token /\ a # jar /\ a \notin lost
            /\ token[a].status # "unused" /\ \A o \in Slot : exchange[o].cookie # a
            /\ token[a].status = "revoked" =>
                   \A x \in Token : IsLive(x) => token[x].family # token[a].family
    BY <1>1 DEF Core, Places, OnItsWay
  <1>6. Slots'
    BY <1>2 DEF Core, Slots, Idle
  <1>7. Server'
    BY <1>2 DEF Core, Server, IsLive
  <1>8. Places'
    <2>1. \A k \in lost' : token'[k].status # "unused"
      BY <1>2, <1>3, <1>5 DEF Core, Places
    <2>2. jar' # NoToken => jar' \notin lost' /\ token'[jar'].status # "unused"
                            /\ ~OnItsWay(jar)'
      <3>1. CASE jar' = jar
        <4>1. jar # NoToken => jar \in Token /\ jar \notin lost /\ token[jar].status # "unused"
                               /\ ~OnItsWay(jar)
          BY <1>1 DEF Core, Places
        <4>2. \A o \in Slot : exchange'[o].phase = "answered" => exchange[o].phase = "answered"
          BY <1>2
        <4>3. jar # NoToken => \A o \in Slot : ~(exchange'[o].phase = "answered"
                                                /\ exchange'[o].answer = jar)
          BY <1>2, <4>1, <4>2 DEF OnItsWay
        <4>4. jar # NoToken => jar \notin lost'
          BY <1>3, <1>5, <4>1
        <4> QED BY <1>2, <3>1, <4>1, <4>3, <4>4 DEF OnItsWay
      <3>2. CASE jar' # jar
        <4>1. jar' = a /\ exchange[s].phase = "answered" /\ lost' = lost
          BY <3>2
        <4>2. a # NoToken => \A o \in Slot : ~(exchange'[o].phase = "answered"
                                              /\ exchange'[o].answer = a)
          BY <1>1, <1>4 DEF OnItsWay
        <4> QED BY <1>2, <1>5, <4>1, <4>2 DEF OnItsWay
      <3> QED BY <3>1, <3>2
    <2>3. \A x \in Slot : LET k == exchange'[x].cookie IN
             k # NoToken => /\ k \notin lost' /\ token'[k].status # "unused"
                            /\ \A o \in Slot : ~(exchange'[o].phase = "answered"
                                               /\ exchange'[o].answer = k)
      BY <1>1, <1>2, <1>3, <1>5 DEF Core, Places, OnItsWay
    <2>4. ASSUME NEW x \in Slot, exchange'[x].phase = "answered", exchange'[x].answer # NoToken
          PROVE  LET k == exchange'[x].answer IN
               /\ k \notin lost' /\ token'[k].status # "unused"
               /\ \A o \in Slot : exchange'[o].phase = "answered" /\ exchange'[o].answer = k
                                  => o = x
               /\ token'[k].status = "revoked" =>
                      \A y \in Token : IsLive(y)' => token'[y].family # token'[k].family
      <3>1. x # s /\ exchange'[x] = exchange[x] /\ exchange[x].answer \in Token
        BY <1>1, <1>2, <2>4
      <3>2. exchange[x].answer # a
        BY <1>4, <2>4, <3>1 DEF OnItsWay
      <3>3. exchange[x].answer \notin lost'
        BY <1>1, <2>4, <3>1, <3>2 DEF Core, Places
      <3> QED BY <1>2, <2>4, <3>1, <3>3 DEF Core, Places, IsLive
    <2> QED BY <2>1, <2>2, <2>3, <2>4 DEF Places, OnItsWay
  <1>9. Newest'
    <2>1. SUFFICES ASSUME jar' # NoToken, token[jar'].status = "revoked", NEW x \in Token,
                          IsLive(x), token[x].family = token[jar'].family
                   PROVE  x \in lost' \/ OnItsWay(x)'
      BY <1>2 DEF Newest, IsLive
    <2>2. CASE jar' = jar
      <3>1. x \in lost \/ OnItsWay(x)
        BY <2>1, <2>2 DEF Core, Newest
      <3>2. CASE x = a
        BY <1>1, <2>1, <2>2, <3>1, <1>5, <3>2
      <3>3. CASE x # a
        BY <1>4, <3>1, <3>3
      <3> QED BY <3>2, <3>3
    <2>3. CASE jar' # jar
      <3>1. jar' = a /\ exchange[s].phase = "answered"
        BY <2>3
      <3> QED BY <1>5, <2>1, <3>1
    <2> QED BY <2>2, <2>3
  <1>10. Solitude'
    <2>1. \A x, o \in Slot : /\ exchange'[x].kind = "refresh" /\ exchange'[o].kind = "refresh"
                             /\ exchange'[x].tab = exchange'[o].tab /\ exchange'[x].tab \in Tab
                             => x = o
      BY <1>2 DEF Core, Solitude
    <2>2. \A x \in Slot : exchange'[x].alone =>
             /\ exchange'[x].tab \in Tab
             /\ \A o \in Slot : ~Idle(o)' => exchange'[o].tab = exchange'[x].tab
      BY <1>2 DEF Core, Solitude, Idle
    <2>3. \A x \in Slot : LET k == exchange'[x].answer IN
             exchange'[x].kind = "login" /\ exchange'[x].phase = "answered" /\ k # NoToken =>
                 \A y \in Token : token'[y].family = token'[k].family => y = k
      BY <1>2 DEF Core, Solitude
    <2>4. \A x \in Slot : LET k == exchange'[x].cookie IN
             Waiting(x, "refresh")' /\ exchange'[x].alone /\ k # NoToken =>
                 \A y \in Token : IsLive(y)' /\ token'[y].family = token'[k].family
                                  => y = k \/ y \in lost'
      BY <1>2 DEF Core, Solitude, Waiting, IsLive
    <2> QED BY <2>1, <2>2, <2>3, <2>4 DEF Solitude
  <1> QED BY <1>6, <1>7, <1>8, <1>9, <1>10 DEF Core

LEMMA CloseKeepsCore ==
    ASSUME TypeOK, Core, NEW s \in Slot, Close(s), exchange[s].phase \in {"stored", "lost"},
           UNCHANGED <<token, jar, lost>>
    PROVE  Core'
  <1>1. /\ exchange'[s] = None
        /\ \A o \in Slot \ {s} : exchange'[o] = exchange[o]
    BY CloseEffect
  <1>2. /\ None.kind = "none" /\ None.phase = "sent" /\ None.answer = NoToken
        /\ None.cookie = NoToken /\ None.alone = FALSE
    BY DEF None
  <1>3. \A k : OnItsWay(k)' <=> OnItsWay(k)
    BY <1>1, <1>2 DEF OnItsWay
  <1>4. Slots'
    BY <1>1, <1>2 DEF Core, Slots, Idle
  <1>5. Server'
    BY DEF Core, Server, IsLive
  <1>6. Places'
    BY <1>1, <1>2, <1>3 DEF Core, Places, IsLive, OnItsWay
  <1>7. Newest'
    BY <1>3 DEF Core, Newest, IsLive
  <1>8. Solitude'
    BY <1>1, <1>2 DEF Core, Solitude, Idle, Waiting, IsLive
  <1> QED BY <1>4, <1>5, <1>6, <1>7, <1>8 DEF Core

LEMMA LoseEffect == ASSUME TypeOK, NEW s \in Slot, Lose(s)
                    PROVE  Moves(s) /\ jar' = jar
                           /\ lost' = lost \cup ({exchange[s].answer} \ {NoToken})
                           /\ exchange[s].phase \in {"sent", "answered"} /\ out' = out
  <1>1. /\ exchange'[s].kind = exchange[s].kind /\ exchange'[s].tab = exchange[s].tab
        /\ exchange'[s].phase = "lost" /\ exchange'[s].cookie = exchange[s].cookie
        /\ exchange'[s].granted = exchange[s].granted
        /\ exchange'[s].answer = exchange[s].answer
        /\ exchange'[s].alone = exchange[s].alone
        /\ \A o \in Slot \ {s} : exchange'[o] = exchange[o]
    BY PhaseEffect DEF Lose
  <1> QED BY <1>1 DEF Lose, Moves, Idle

LEMMA StoreEffect == ASSUME TypeOK, Slots, NEW s \in Slot, StoreCookie(s)
                     PROVE  Moves(s) /\ lost' = lost /\ exchange[s].phase = "answered"
                            /\ jar' \in {jar, exchange[s].answer}
                            /\ (exchange[s].answer # NoToken => jar' = exchange[s].answer)
  <1>1. /\ exchange'[s].kind = exchange[s].kind /\ exchange'[s].tab = exchange[s].tab
        /\ exchange'[s].phase = "stored" /\ exchange'[s].cookie = exchange[s].cookie
        /\ exchange'[s].granted = exchange[s].granted
        /\ exchange'[s].answer = exchange[s].answer
        /\ exchange'[s].alone = exchange[s].alone
        /\ \A o \in Slot \ {s} : exchange'[o] = exchange[o]
    BY PhaseEffect DEF StoreCookie
  <1>2. exchange[s].answer # NoToken => exchange[s].granted
    BY DEF Slots
  <1> QED BY <1>1, <1>2 DEF StoreCookie, Moves, Idle

LEMMA SettleEffect == ASSUME NEW s \in Slot, Settle(s)
                      PROVE  /\ Close(s) /\ exchange[s].phase \in {"stored", "lost"}
                             /\ UNCHANGED <<token, jar, lost, out>>
  BY DEF Settle, RefreshSettles, LoginSettles, LogoutSettles, NobodyListens, Arrived

LEMMA UnauthorizedEffect ==
    ASSUME TypeOK, Awake, NEW c \in Call, Unauthorized(c)
    PROVE  /\ call[c].tab \in Tab /\ UNCHANGED <<token, jar, lost, out>>
           /\ \/ UNCHANGED exchange /\ Refreshing(call[c].tab)
              \/ \E s \in Slot : SendFacts(s, call[c].tab, "refresh")
  <1>1. call[c].tab \in Tab /\ UNCHANGED <<token, jar, lost, out>> /\ RefreshShared(call[c].tab)
    BY DEF Unauthorized, Awake
  <1>2. CASE Refreshing(call[c].tab)
    BY <1>1, <1>2 DEF RefreshShared
  <1>3. CASE ~Refreshing(call[c].tab)
    <2>1. PICK s \in Slot : Idle(s) /\ exchange' = Sent(exchange, s, call[c].tab, "refresh")
      BY <1>1, <1>3 DEF RefreshShared
    <2>2. Sends(exchange, s, call[c].tab, "refresh")
      BY <1>1, <1>3, <2>1 DEF Sends, Refreshing
    <2> QED BY <1>1, <2>2, SendEffect
  <1> QED BY <1>2, <1>3

-----------------------------------------------------------------------------
(* Every step *)

LEMMA CoreStep == ASSUME TypeOK, TypeOK', Core, Awake, [Next]_vars PROVE Core'
  <1>1. ASSUME NEW t \in Tab, NEW s \in Slot, Login(t, s) \/ Logout(t, s) \/ Load(t, s)
        PROVE  Core'
    BY <1>1, Sending, SendEffect, SendKeepsCore
  <1>2. ASSUME NEW s \in Slot, Serve(s) PROVE Core'
    BY <1>2, ServeKeepsCore
  <1>3. CASE EndElsewhere
    BY <1>3, EndKeepsCore
  <1>4. jar' \in Token \cup {NoToken}
    BY DEF TypeOK
  <1>5. ASSUME NEW s \in Slot, Lose(s) PROVE Core'
    BY <1>4, <1>5, LoseEffect, MoveKeepsCore
  <1>6. ASSUME NEW s \in Slot, StoreCookie(s) PROVE Core'
    BY <1>4, <1>6, StoreEffect, MoveKeepsCore DEF Core
  <1>7. ASSUME NEW s \in Slot, Settle(s) PROVE Core'
    BY <1>7, SettleEffect, CloseKeepsCore
  <1>8. UNCHANGED <<token, jar, lost, exchange>> => Core'
    BY DEF Core, Slots, Server, Places, Newest, Solitude, Idle, IsLive, OnItsWay, Waiting
  <1>9. ASSUME NEW c \in Call, Unauthorized(c) PROVE Core'
    BY <1>8, <1>9, UnauthorizedEffect, SendKeepsCore
  <1>10. ASSUME NEW c \in Call, NEW t \in Tab, Send(c, t) PROVE Core'
    BY <1>8, <1>10 DEF Send
  <1>11. ASSUME NEW c \in Call, CallEnds(c) PROVE Core'
    BY <1>8, <1>11 DEF CallEnds
  <1>12. ASSUME NEW t \in Tab, Expire(t) PROVE Core'
    BY <1>8, <1>12 DEF Expire
  <1>13. CASE UNCHANGED vars
    BY <1>8, <1>13 DEF vars
  <1> QED BY <1>1, <1>2, <1>3, <1>5, <1>6, <1>7, <1>9, <1>10, <1>11, <1>12, <1>13 DEF Next

LEMMA EndedStep == ASSUME TypeOK, Core, Ended, Awake, [Next]_vars PROVE Ended'
  <1> USE DEF Ended
  <1>1. ASSUME NEW t \in Tab, NEW s \in Slot, NEW kind \in {"refresh", "logout"},
               SendFacts(s, t, kind), out' = out
        PROVE  Ended'
    BY <1>1 DEF SendFacts
  <1>2. ASSUME NEW t \in Tab, NEW s \in Slot, Login(t, s) PROVE Ended'
    BY <1>2 DEF Login
  <1>3. ASSUME NEW t \in Tab, NEW s \in Slot, Logout(t, s) \/ Load(t, s) PROVE Ended'
    <2>1. out' = out
      BY <1>3 DEF Logout, Load
    <2>2. PICK kind \in {"refresh", "login", "logout"} :
              SendFacts(s, t, kind) /\ (kind = "login" => out' = FALSE)
      BY <1>3, Sending, SendEffect
    <2> QED BY <1>1, <2>1, <2>2
  <1>4. ASSUME NEW c \in Call, Unauthorized(c) PROVE Ended'
    <2>1. UNCHANGED exchange => Ended'
      BY <1>4, UnauthorizedEffect
    <2> QED BY <1>1, <1>4, <2>1, UnauthorizedEffect
  <1>5. ASSUME NEW s \in Slot, Serve(s) PROVE Ended'
    <2>1. SUFFICES ASSUME out PROVE Ended'
      BY <1>5 DEF Serve, Rotate, Replay, SignIn, SignOut, Deny
    <2>2. ~Rotate(s) /\ ~SignIn(s)
      BY <2>1 DEF Rotate, SignIn, Waiting
    <2>3. \E g \in BOOLEAN : Answer(s, g, NoToken)
      BY <1>5, <2>2 DEF Serve, Replay, SignOut, Deny
    <2>4. UNCHANGED <<jar, out>>
      BY <1>5, <2>2 DEF Serve, Replay, SignOut, Deny
    <2> QED BY <2>1, <2>3, <2>4, AnswerEffect
  <1>6. ASSUME NEW s \in Slot, Lose(s) PROVE Ended'
    BY <1>6, LoseEffect DEF Moves
  <1>7. ASSUME NEW s \in Slot, StoreCookie(s) PROVE Ended'
    <2>1. Moves(s) /\ jar' = IF exchange[s].granted THEN exchange[s].answer ELSE jar
      BY <1>7, StoreEffect DEF Core, StoreCookie
    <2>2. CASE exchange[s].kind = "logout" /\ exchange[s].granted
      <3>1. SUFFICES ASSUME \A o \in Slot \ {s} : Idle(o) PROVE Ended'
        BY <1>7, <2>2 DEF StoreCookie
      <3>2. exchange[s].answer = NoToken
        BY <2>2 DEF Core, Slots
      <3>3. \A o \in Slot \ {s} : exchange'[o] = None
        BY <2>1, <3>1 DEF Moves, Core, Slots
      <3>4. None.kind = "none" /\ None.answer = NoToken /\ None.cookie = NoToken
        BY DEF None
      <3> QED BY <2>1, <2>2, <3>2, <3>3, <3>4 DEF Moves
    <2>3. CASE ~(exchange[s].kind = "logout" /\ exchange[s].granted)
      <3>1. out' = out
        BY <1>7, <2>3 DEF StoreCookie
      <3> QED BY <2>1, <3>1 DEF Moves
    <2> QED BY <2>2, <2>3
  <1>8. ASSUME NEW s \in Slot, Settle(s) PROVE Ended'
    <2>1. None.kind = "none" /\ None.answer = NoToken /\ None.cookie = NoToken
      BY DEF None
    <2> QED BY <1>8, <2>1, SettleEffect, CloseEffect
  <1>9. CASE EndElsewhere
    BY <1>9 DEF EndElsewhere
  <1>10. UNCHANGED <<jar, exchange, out>> => Ended'
    OBVIOUS
  <1>11. ASSUME NEW c \in Call, (\E t \in Tab : Send(c, t)) \/ CallEnds(c) PROVE Ended'
    BY <1>10, <1>11 DEF Send, CallEnds
  <1>12. ASSUME NEW t \in Tab, Expire(t) PROVE Ended'
    BY <1>10, <1>12 DEF Expire
  <1>13. CASE UNCHANGED vars
    BY <1>10, <1>13 DEF vars
  <1> QED BY <1>2, <1>3, <1>4, <1>5, <1>6, <1>7, <1>8, <1>9, <1>11, <1>12, <1>13 DEF Next

LEMMA AwakeStep == ASSUME TypeOK, Core, Awake, [Next]_vars PROVE Awake'
  <1> USE DEF Awake
  <1>0. NoCall.phase = "idle"
    BY DEF NoCall
  <1>1. ASSUME NEW t \in Tab, NEW s \in Slot, Login(t, s) \/ Logout(t, s) PROVE Awake'
    <2>1. PICK kind \in {"login", "logout"} : Sends(exchange, s, t, kind)
      BY <1>1 DEF Login, Logout, Sends
    <2>2. \A o \in Slot \ {s} : exchange'[o].kind = exchange[o].kind
                                /\ exchange'[o].tab = exchange[o].tab
      BY <2>1, SentEffect DEF Sends, TypeOK
    <2>3. \A p : Refreshing(p) => Refreshing(p)'
      BY <2>1, <2>2 DEF Refreshing, Sends, Idle
    <2> QED BY <1>1, <2>3 DEF Login, Logout
  <1>2. ASSUME NEW t \in Tab, NEW s \in Slot, Load(t, s) PROVE Awake'
    <2>1. exchange' = Sent(Left(t), s, t, "refresh") /\ Idle(s)
      BY <1>2 DEF Load, Left
    <2>2. \A o \in Slot \ {s} : /\ exchange'[o].kind = exchange[o].kind
                                /\ exchange[o].tab # t => exchange'[o].tab = exchange[o].tab
      <3>1. \A o \in Slot \ {s} : exchange'[o].kind = Left(t)[o].kind
                                  /\ exchange'[o].tab = Left(t)[o].tab
        BY <2>1, LeftEffect, SentEffect
      <3> QED BY <3>1, LeftEffect
    <2>3. \A p : Refreshing(p) /\ p # t => Refreshing(p)'
      BY <2>1, <2>2 DEF Refreshing, Idle
    <2>4. \A c \in Call : call'[c] = IF call[c].tab = t THEN NoCall ELSE call[c]
      BY <1>2 DEF Load
    <2> QED BY <1>0, <2>3, <2>4
  <1>3. ASSUME NEW s \in Slot, Serve(s) PROVE Awake'
    <2>1. UNCHANGED call /\ \E g \in BOOLEAN, k \in Token \cup {NoToken} : Answer(s, g, k)
      BY <1>3 DEF Serve, Rotate, Replay, SignIn, SignOut, Deny
    <2>2. \A o \in Slot : exchange'[o].kind = exchange[o].kind
                         /\ exchange'[o].tab = exchange[o].tab
      BY <2>1, AnswerEffect
    <2> QED BY <2>1, <2>2 DEF Refreshing
  <1>4. ASSUME NEW s \in Slot, Lose(s) \/ StoreCookie(s) PROVE Awake'
    <2>1. Moves(s) /\ UNCHANGED call
      BY <1>4, LoseEffect, StoreEffect DEF Core, Lose, StoreCookie
    <2>2. \A o \in Slot : exchange'[o].kind = exchange[o].kind
                         /\ exchange'[o].tab = exchange[o].tab
      BY <2>1 DEF Moves
    <2> QED BY <2>1, <2>2 DEF Refreshing
  <1>5. ASSUME NEW s \in Slot, Settle(s) PROVE Awake'
    <2>1. \A o \in Slot \ {s} : exchange'[o] = exchange[o]
      BY <1>5, SettleEffect, CloseEffect
    <2>2. CASE RefreshSettles(s)
      <3> DEFINE t == exchange[s].tab
      <3>1. \A p : Refreshing(p) /\ p # t => Refreshing(p)'
        BY <2>1 DEF Refreshing
      <3>2. \A c \in Call :
                /\ call[c].phase = "waiting" /\ call[c].tab = t =>
                       \/ call'[c] = [call[c] EXCEPT !.phase = "sent", !.retry = TRUE]
                       \/ call'[c] = NoCall
                /\ ~(call[c].phase = "waiting" /\ call[c].tab = t) => call'[c] = call[c]
        BY <2>2 DEF RefreshSettles, Resumed
      <3>3. \A c \in Call : LET r == [call[c] EXCEPT !.phase = "sent", !.retry = TRUE] IN
                r.phase = "sent" /\ r.tab = call[c].tab
        BY DEF TypeOK, CallState
      <3>4. ASSUME NEW c \in Call
            PROVE  /\ call'[c].phase # "idle" => call'[c].tab \in Tab
                   /\ call'[c].phase = "waiting" => Refreshing(call[c].tab)'
                                                    /\ call'[c] = call[c]
        BY <1>0, <3>1, <3>2, <3>3
      <3> QED BY <3>4 DEF Refreshing
    <2>3. CASE ~RefreshSettles(s)
      <3>1. UNCHANGED call /\ (exchange[s].kind # "refresh" \/ exchange[s].tab = NoTab)
        BY <1>5, <2>3 DEF Settle, LoginSettles, LogoutSettles, NobodyListens, Arrived
      <3>2. \A p \in Tab : Refreshing(p) => Refreshing(p)'
        BY <2>1, <3>1, ClientAssumption DEF Refreshing
      <3> QED BY <3>1, <3>2
    <2> QED BY <2>2, <2>3
  <1>6. ASSUME NEW c \in Call, Unauthorized(c) PROVE Awake'
    <2>1. /\ \A d \in Call \ {c} : call'[d] = call[d]
          /\ call'[c].tab = call[c].tab
      BY <1>6 DEF Unauthorized, TypeOK, CallState
    <2>2. /\ call[c].tab \in Tab
          /\ \A p : Refreshing(p) => Refreshing(p)'
          /\ Refreshing(call[c].tab)'
      <3>1. CASE UNCHANGED exchange /\ Refreshing(call[c].tab)
        BY <1>6, <2>1, <3>1, UnauthorizedEffect DEF Refreshing
      <3>2. CASE ~(UNCHANGED exchange /\ Refreshing(call[c].tab))
        <4>1. call[c].tab \in Tab
          BY <1>6 DEF Unauthorized
        <4>2. PICK s \in Slot : Idle(s) /\ exchange' = Sent(exchange, s, call[c].tab, "refresh")
          BY <1>6, <3>2 DEF Unauthorized, RefreshShared
        <4>3. /\ exchange'[s].kind = "refresh" /\ exchange'[s].tab = call[c].tab
              /\ \A o \in Slot \ {s} : exchange'[o].kind = exchange[o].kind
                                       /\ exchange'[o].tab = exchange[o].tab
          BY <4>1, <4>2, SentEffect DEF TypeOK
        <4> QED BY <2>1, <4>1, <4>2, <4>3 DEF Refreshing, Idle
      <3> QED BY <3>1, <3>2
    <2> QED BY <2>1, <2>2
  <1>7. ASSUME NEW c \in Call, NEW t \in Tab, Send(c, t) PROVE Awake'
    <2>1. /\ call'[c].phase = "sent" /\ call'[c].tab = t
          /\ \A d \in Call \ {c} : call'[d] = call[d]
          /\ UNCHANGED exchange
      BY <1>7 DEF Send, TypeOK
    <2> QED BY <2>1 DEF Refreshing
  <1>8. ASSUME NEW c \in Call, CallEnds(c) PROVE Awake'
    <2>1. /\ call'[c] = NoCall /\ UNCHANGED exchange
          /\ \A d \in Call \ {c} : call'[d] = call[d]
      BY <1>8 DEF CallEnds, TypeOK
    <2> QED BY <1>0, <2>1 DEF Refreshing
  <1>9. UNCHANGED <<call, exchange>> => Awake'
    BY DEF Refreshing
  <1>10. CASE EndElsewhere
    BY <1>9, <1>10 DEF EndElsewhere
  <1>11. ASSUME NEW t \in Tab, Expire(t) PROVE Awake'
    BY <1>9, <1>11 DEF Expire
  <1>12. CASE UNCHANGED vars
    BY <1>9, <1>12 DEF vars
  <1> QED BY <1>1, <1>2, <1>3, <1>4, <1>5, <1>6, <1>7, <1>8, <1>10, <1>11, <1>12 DEF Next

-----------------------------------------------------------------------------
(* What holds in every reachable state *)

LEMMA InvInit == Init => Inv
  <1> SUFFICES ASSUME Init PROVE Inv
    OBVIOUS
  <1> USE DEF Init
  <1>1. /\ None \in Exchange /\ None.kind = "none" /\ None.phase = "sent"
        /\ None.answer = NoToken /\ None.cookie = NoToken /\ None.alone = FALSE
    BY DEF None, Exchange
  <1>2. NoCall \in CallState /\ NoCall.phase = "idle"
    BY DEF NoCall, CallState
  <1>3. TypeOK
    BY <1>1, <1>2 DEF TypeOK, Access
  <1>4. Slots /\ Server /\ Places /\ Newest
    BY <1>1, ClientAssumption DEF Slots, Server, Places, Newest, IsLive, Idle
  <1>5. Solitude /\ Ended /\ Awake
    BY <1>1, <1>2 DEF Solitude, Ended, Awake, Waiting
  <1> QED BY <1>3, <1>4, <1>5 DEF Inv

LEMMA InvStep == Inv /\ [Next]_vars => Inv'
  <1> SUFFICES ASSUME Inv, [Next]_vars PROVE Inv'
    OBVIOUS
  <1>1. TypeOK'
    BY TypeStep DEF Inv
  <1>2. Core'
    BY <1>1, CoreStep DEF Inv, Core
  <1>3. Ended'
    BY EndedStep DEF Inv, Core
  <1>4. Awake'
    BY AwakeStep DEF Inv, Core
  <1> QED BY <1>1, <1>2, <1>3, <1>4 DEF Inv, Core

THEOREM InvHolds == Spec => []Inv
  BY InvInit, InvStep, PTL DEF Spec

(* The types of the server's tokens, the cookie, the tabs' access tokens,   *)
(* the exchanges and the calls (lib/api.ts, stores/auth.ts).                *)
THEOREM TypeCorrect == Spec => []TypeOK
  <1>1. Inv => TypeOK
    BY DEF Inv
  <1> QED BY <1>1, InvHolds, PTL

(* The shared cookie is the newest of its family unless its successor is    *)
(* under way or was lost, for any number of tabs and any order of answers   *)
(* (services/auth.py: "the legitimate client only ever holds the newest     *)
(* token").                                                                 *)
THEOREM CookieIsNewest == Spec => []JarIsNewest
  <1>1. Inv => JarIsNewest
    BY DEF Inv, JarIsNewest, Newest, LiveIn, IsLive, OnItsWay, UnderWay
  <1> QED BY <1>1, InvHolds, PTL

(* The shared promise is enough for one page: whatever calls it makes, it   *)
(* never ends its own session by presenting a spent token, unless an answer *)
(* was lost (lib/api.ts, refreshInFlight).                                  *)
THEOREM DedupeIsEnoughForOnePage == Spec => []OnePageNeverReplays
  <1>1. Inv => OnePageNeverReplays
    BY DEF Inv, OnePageNeverReplays, Solitude, LiveIn, IsLive
  <1> QED BY <1>1, InvHolds, PTL

(* A logout that was answered while nothing else was under way ends the     *)
(* session in this browser for good (api/v1/auth.py, logout).               *)
THEOREM LogoutIsFinal == Spec => []SignedOutForGood
  <1>1. Inv => SignedOutForGood
    BY DEF Inv, SignedOutForGood, Ended
  <1> QED BY <1>1, InvHolds, PTL

(* A call that waits for a refresh has one (lib/api.ts, send and            *)
(* refreshAccessToken).                                                     *)
THEOREM NobodyWaitsInVain == Spec => []WaitersAreWoken
  <1>1. Inv => WaitersAreWoken
    BY DEF Inv, WaitersAreWoken, Awake
  <1> QED BY <1>1, InvHolds, PTL
=============================================================================
