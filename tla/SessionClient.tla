----------------------------- MODULE SessionClient -----------------------------
(***************************************************************************)
(* The browser's side of a session (frontend lib/api.ts): tabs that share  *)
(* the refresh cookie, each with an access token in memory and at most one *)
(* refresh under way, against a server that rotates the cookie's token and *)
(* ends its family when a spent one is presented.                          *)
(*                                                                         *)
(* An exchange with /auth/* is sent with the cookie of that moment, served *)
(* at some later one, its Set-Cookie stored by the browser and then its    *)
(* answer settled in the tab.  It can be lost before the cookie is stored, *)
(* and a page that is reloaded leaves its exchanges behind.                *)
(*                                                                         *)
(* Left out: the password change, the second factor as a step of its own   *)
(* (SignIn), and races inside the server (RefreshTokens).                  *)
(***************************************************************************)
EXTENDS FiniteSets

CONSTANTS
    Tab,
    Call,     \* API calls in progress at the same time
    Slot,     \* bound: exchanges under way at the same time
    Token,    \* bound: every refresh token that can be issued
    NoToken,
    NoTab     \* an exchange whose page is gone

ASSUME ClientAssumption == NoToken \notin Token /\ NoTab \notin Tab

VARIABLES
    token,     \* the server's tokens
    jar,       \* the cookie all tabs share
    lost,      \* history: tokens issued whose cookie never reached the jar
    access,    \* each tab's access token
    exchange,  \* what is under way with /auth/*
    call,      \* what each call is doing
    out        \* history: somebody signed out with nothing else under way

vars == <<token, jar, lost, access, exchange, call, out>>

Access == {"none", "valid", "expired"}

(* alone: no other page has had an exchange under way since it was sent. *)
Exchange == [kind : {"none", "refresh", "login", "logout"}, tab : Tab \cup {NoTab},
             phase : {"sent", "answered", "stored", "lost"},
             cookie : Token \cup {NoToken},
             granted : BOOLEAN, answer : Token \cup {NoToken}, alone : BOOLEAN]

None == [kind |-> "none", tab |-> NoTab, phase |-> "sent", cookie |-> NoToken,
         granted |-> FALSE, answer |-> NoToken, alone |-> FALSE]

CallState == [phase : {"idle", "sent", "waiting"}, tab : Tab \cup {NoTab},
              retry : BOOLEAN]

NoCall == [phase |-> "idle", tab |-> NoTab, retry |-> FALSE]

Init ==
    /\ token = [k \in Token |-> [status |-> "unused", family |-> NoToken]]
    /\ jar = NoToken
    /\ lost = {}
    /\ access = [t \in Tab |-> "none"]
    /\ exchange = [s \in Slot |-> None]
    /\ call = [c \in Call |-> NoCall]
    /\ out = FALSE

-----------------------------------------------------------------------------
(* Sending *)

Idle(s) == exchange[s].kind = "none"

Refreshing(t) == \E s \in Slot : exchange[s].kind = "refresh" /\ exchange[s].tab = t

Signing(t) == \E s \in Slot : /\ exchange[s].kind \in {"login", "logout"}
                              /\ exchange[s].tab = t

(* An exchange ends the solitude of those of other pages, and has none     *)
(* itself while one of those is under way.                                 *)
Sent(ex, s, t, kind) ==
    [x \in Slot |->
        IF x = s
        THEN [kind |-> kind, tab |-> t, phase |-> "sent", cookie |-> jar,
              granted |-> FALSE, answer |-> NoToken,
              alone |-> \A o \in Slot : ex[o].kind # "none" => ex[o].tab = t]
        ELSE IF ex[x].tab = t THEN ex[x] ELSE [ex[x] EXCEPT !.alone = FALSE]]

(* Mutant: every call that is refused refreshes for itself. *)
RefreshEach(t) ==
    \E s \in Slot : Idle(s) /\ exchange' = Sent(exchange, s, t, "refresh")

(* The module-wide promise: one refresh per page, joined by all its calls. *)
RefreshShared(t) ==
    IF Refreshing(t) THEN UNCHANGED exchange
    ELSE \E s \in Slot : Idle(s) /\ exchange' = Sent(exchange, s, t, "refresh")

Login(t, s) ==
    /\ access[t] = "none" /\ ~Signing(t) /\ Idle(s)
    /\ exchange' = Sent(exchange, s, t, "login")
    /\ out' = FALSE
    /\ UNCHANGED <<token, jar, lost, access, call>>

Logout(t, s) ==
    /\ access[t] # "none" /\ ~Signing(t) /\ Idle(s)
    /\ exchange' = Sent(exchange, s, t, "logout")
    /\ UNCHANGED <<token, jar, lost, access, call, out>>

(* A page is loaded: memory and promises are gone, and one silent refresh. *)
Load(t, s) ==
    LET left == [x \in Slot |-> IF exchange[x].tab = t
                                THEN [exchange[x] EXCEPT !.tab = NoTab]
                                ELSE exchange[x]]
    IN  /\ Idle(s)
        /\ access' = [access EXCEPT ![t] = "none"]
        /\ exchange' = Sent(left, s, t, "refresh")
        /\ call' = [c \in Call |-> IF call[c].tab = t THEN NoCall ELSE call[c]]
        /\ UNCHANGED <<token, jar, lost, out>>

-----------------------------------------------------------------------------
(* The server *)

LiveIn(f) == {k \in Token : token[k].status = "live" /\ token[k].family = f}

Waiting(s, kind) == exchange[s].kind = kind /\ exchange[s].phase = "sent"

Answer(s, granted, k) ==
    exchange' = [exchange EXCEPT ![s].phase = "answered",
                                 ![s].granted = granted, ![s].answer = k]

Issue(k, f, spent) ==
    /\ token[k].status = "unused"
    /\ token' = [x \in Token |->
          IF x = k THEN [status |-> "live", family |-> f]
          ELSE IF x \in spent THEN [token[x] EXCEPT !.status = "revoked"]
          ELSE token[x]]

Revoke(S) == token' = [x \in Token |->
                 IF x \in S THEN [token[x] EXCEPT !.status = "revoked"] ELSE token[x]]

Rotate(s) ==
    LET k == exchange[s].cookie
    IN  /\ Waiting(s, "refresh")
        /\ k # NoToken /\ token[k].status = "live"
        /\ \E n \in Token : Issue(n, token[k].family, {k}) /\ Answer(s, TRUE, n)
        /\ UNCHANGED <<jar, lost, access, call, out>>

Replay(s) ==
    LET k == exchange[s].cookie
    IN  /\ Waiting(s, "refresh")
        /\ k # NoToken /\ token[k].status = "revoked"
        /\ Revoke(LiveIn(token[k].family))
        /\ Answer(s, FALSE, NoToken)
        /\ UNCHANGED <<jar, lost, access, call, out>>

(* No cookie or an expired one, a disabled account, a wrong password, an   *)
(* error.                                                                  *)
Deny(s) ==
    /\ exchange[s].kind # "none" /\ exchange[s].phase = "sent"
    /\ Answer(s, FALSE, NoToken)
    /\ UNCHANGED <<token, jar, lost, access, call, out>>

SignIn(s) ==
    /\ Waiting(s, "login")
    /\ \E n \in Token : Issue(n, n, {}) /\ Answer(s, TRUE, n)
    /\ UNCHANGED <<jar, lost, access, call, out>>

(* Only the token presented is revoked; the answer clears the cookie.      *)
SignOut(s) ==
    /\ Waiting(s, "logout")
    /\ Revoke({exchange[s].cookie})
    /\ Answer(s, TRUE, NoToken)
    /\ UNCHANGED <<jar, lost, access, call, out>>

(* A password reset, a disabled account, another browser. *)
EndElsewhere ==
    /\ Revoke({k \in Token : token[k].status = "live"})
    /\ UNCHANGED <<jar, lost, access, exchange, call, out>>

-----------------------------------------------------------------------------
(* Answers *)

Lose(s) ==
    /\ ~Idle(s) /\ exchange[s].phase \in {"sent", "answered"}
    /\ exchange' = [exchange EXCEPT ![s].phase = "lost"]
    /\ lost' = lost \cup ({exchange[s].answer} \ {NoToken})
    /\ UNCHANGED <<token, jar, access, call, out>>

(* Mutant: /auth/refresh rotates the token but does not set the cookie. *)
StoreSignInsOnly(s) ==
    LET e == exchange[s]
    IN  /\ ~Idle(s) /\ e.phase = "answered"
        /\ exchange' = [exchange EXCEPT ![s].phase = "stored"]
        /\ jar' = IF e.granted /\ e.kind # "refresh" THEN e.answer ELSE jar
        /\ out' = IF e.kind = "logout" /\ e.granted
                  THEN \A o \in Slot \ {s} : Idle(o) ELSE out
        /\ UNCHANGED <<token, lost, access, call>>

(* Mutant: the cookie is deleted with attributes that do not match. *)
StoreWithoutClearing(s) ==
    LET e == exchange[s]
    IN  /\ ~Idle(s) /\ e.phase = "answered"
        /\ exchange' = [exchange EXCEPT ![s].phase = "stored"]
        /\ jar' = IF e.granted /\ e.answer # NoToken THEN e.answer ELSE jar
        /\ out' = IF e.kind = "logout" /\ e.granted
                  THEN \A o \in Slot \ {s} : Idle(o) ELSE out
        /\ UNCHANGED <<token, lost, access, call>>

StoreCookie(s) ==
    LET e == exchange[s]
    IN  /\ ~Idle(s) /\ e.phase = "answered"
        /\ exchange' = [exchange EXCEPT ![s].phase = "stored"]
        /\ jar' = IF e.granted THEN e.answer ELSE jar
        /\ out' = IF e.kind = "logout" /\ e.granted
                  THEN \A o \in Slot \ {s} : Idle(o) ELSE out
        /\ UNCHANGED <<token, lost, access, call>>

Arrived(s, kind) == exchange[s].kind = kind /\ exchange[s].phase \in {"stored", "lost"}

Granted(s) == exchange[s].phase = "stored" /\ exchange[s].granted

Close(s) == exchange' = [exchange EXCEPT ![s] = None]

(* Mutant: a refresh that fails resolves nothing. *)
ResumedOnSuccess(t, ok) == [c \in Call |->
    IF call[c].tab = t /\ call[c].phase = "waiting" /\ ok
    THEN [call[c] EXCEPT !.phase = "sent", !.retry = TRUE]
    ELSE call[c]]

(* The calls that waited for the refresh are sent once more, or give up. *)
Resumed(t, ok) == [c \in Call |->
    IF call[c].tab = t /\ call[c].phase = "waiting"
    THEN IF ok THEN [call[c] EXCEPT !.phase = "sent", !.retry = TRUE] ELSE NoCall
    ELSE call[c]]

RefreshSettles(s) ==
    LET t == exchange[s].tab
    IN  /\ Arrived(s, "refresh") /\ t # NoTab
        /\ access' = [access EXCEPT ![t] = IF Granted(s) THEN "valid" ELSE "none"]
        /\ call' = Resumed(t, Granted(s))
        /\ Close(s)
        /\ UNCHANGED <<token, jar, lost, out>>

(* Mutant: the answer's token is stored whether or not there is one. *)
LoginStoresAnyAnswer(s) ==
    LET t == exchange[s].tab
    IN  /\ Arrived(s, "login") /\ t # NoTab
        /\ access' = [access EXCEPT ![t] = IF Granted(s) THEN "valid" ELSE "undefined"]
        /\ Close(s)
        /\ UNCHANGED <<token, jar, lost, call, out>>

LoginSettles(s) ==
    LET t == exchange[s].tab
    IN  /\ Arrived(s, "login") /\ t # NoTab
        /\ access' = IF Granted(s) THEN [access EXCEPT ![t] = "valid"] ELSE access
        /\ Close(s)
        /\ UNCHANGED <<token, jar, lost, call, out>>

(* "Clear locally regardless of the request's outcome". *)
LogoutSettles(s) ==
    LET t == exchange[s].tab
    IN  /\ Arrived(s, "logout") /\ t # NoTab
        /\ access' = [access EXCEPT ![t] = "none"]
        /\ Close(s)
        /\ UNCHANGED <<token, jar, lost, call, out>>

(* The page that sent it is gone. *)
NobodyListens(s) ==
    /\ ~Idle(s) /\ exchange[s].tab = NoTab /\ exchange[s].phase \in {"stored", "lost"}
    /\ Close(s)
    /\ UNCHANGED <<token, jar, lost, access, call, out>>

-----------------------------------------------------------------------------
(* API calls *)

Send(c, t) ==
    /\ call[c].phase = "idle" /\ access[t] # "none"
    /\ call' = [call EXCEPT ![c] = [phase |-> "sent", tab |-> t, retry |-> FALSE]]
    /\ UNCHANGED <<token, jar, lost, access, exchange, out>>

(* An answer other than 401, no answer, or a 401 to the second attempt. *)
CallEnds(c) ==
    /\ call[c].phase = "sent"
    /\ call' = [call EXCEPT ![c] = NoCall]
    /\ UNCHANGED <<token, jar, lost, access, exchange, out>>

(* A 401 to the first attempt: an access token can expire on the way. *)
Unauthorized(c) ==
    /\ call[c].phase = "sent" /\ ~call[c].retry
    /\ call' = [call EXCEPT ![c].phase = "waiting"]
    /\ RefreshShared(call[c].tab)
    /\ UNCHANGED <<token, jar, lost, access, out>>

Expire(t) ==
    /\ access[t] = "valid"
    /\ access' = [access EXCEPT ![t] = "expired"]
    /\ UNCHANGED <<token, jar, lost, exchange, call, out>>

-----------------------------------------------------------------------------
Serve(s) == Rotate(s) \/ Replay(s) \/ SignIn(s) \/ SignOut(s) \/ Deny(s)

Settle(s) == RefreshSettles(s) \/ LoginSettles(s) \/ LogoutSettles(s) \/ NobodyListens(s)

Next ==
    \/ EndElsewhere
    \/ \E t \in Tab : Expire(t)
    \/ \E t \in Tab, s \in Slot : Login(t, s) \/ Logout(t, s) \/ Load(t, s)
    \/ \E s \in Slot : Serve(s) \/ Lose(s) \/ StoreCookie(s) \/ Settle(s)
    \/ \E c \in Call, t \in Tab : Send(c, t)
    \/ \E c \in Call : CallEnds(c) \/ Unauthorized(c)

Spec == Init /\ [][Next]_vars

-----------------------------------------------------------------------------
(* What the session should be to its tabs *)

(* The variables range over what the modules keep in them. *)
TypeOK ==
    /\ token \in [Token -> [status : {"unused", "live", "revoked"},
                            family : Token \cup {NoToken}]]
    /\ jar \in Token \cup {NoToken}
    /\ lost \subseteq Token
    /\ access \in [Tab -> Access]
    /\ exchange \in [Slot -> Exchange]
    /\ call \in [Call -> CallState]
    /\ out \in BOOLEAN

UnderWay == {exchange[s].answer : s \in {x \in Slot : exchange[x].phase = "answered"}}

(* The cookie is the newest of its family, whatever the tabs do and in     *)
(* whatever order answers arrive: when it is spent, its successor is still *)
(* on its way or was lost on it (services/auth.py: "the legitimate client  *)
(* only ever holds the newest token").                                     *)
JarIsNewest ==
    jar # NoToken /\ token[jar].status = "revoked"
        => LiveIn(token[jar].family) \subseteq lost \cup UnderWay

(* A page that has the cookie to itself never presents a spent token whose *)
(* family is alive, whatever its calls do at once (lib/api.ts: "one shared *)
(* promise means one rotation"), unless an answer was lost before.         *)
OnePageNeverReplays ==
    \A s \in Slot :
        LET k == exchange[s].cookie
        IN  Waiting(s, "refresh") /\ exchange[s].alone /\ k # NoToken
            /\ token[k].status = "revoked"
            => LiveIn(token[k].family) \subseteq lost

(* When a logout was answered and nothing else was under way, no tab and   *)
(* no reload gets a session back before somebody signs in.                 *)
SignedOutForGood ==
    out => jar = NoToken /\ \A s \in Slot : exchange[s].answer = NoToken

(* A call that waits has a refresh of its own page under way, even after a *)
(* reload, a login or a logout in between: nothing else would wake it.     *)
WaitersAreWoken ==
    \A c \in Call : call[c].phase = "waiting" => Refreshing(call[c].tab)
=============================================================================
