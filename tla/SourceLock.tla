----------------------------- MODULE SourceLock -----------------------------
(***************************************************************************)
(* The per-source Redis lock (core/lock.py) as Celery tasks take it        *)
(* (tasks/celery_app.py): SET NX EX with a random token, a script that     *)
(* deletes the key only while it holds that token, and tasks that the      *)
(* worker's parent process kills at the hard time limit.                   *)
(*                                                                         *)
(* One key: locks of different sources do not touch each other.  Time is   *)
(* counted in units of Redis' and Celery's clocks; a task that has reached *)
(* its limit is gone before the next unit passes.                          *)
(***************************************************************************)
EXTENDS Naturals, FiniteSets

CONSTANTS
    Worker,     \* task processes that may want the source
    Token,      \* values of secrets.token_urlsafe
    TTL,        \* ttl_seconds, DEFAULT_LOCK_TTL_SECONDS
    HardLimit,  \* HardLimit[w]: time_limit of the task w runs, with the time
                \* the kill itself takes (tasks may tighten the default)
    NoToken

ASSUME LockAssumption == /\ TTL \in Nat \ {0}
                         /\ HardLimit \in [Worker -> Nat]
                         /\ NoToken \notin Token

VARIABLES
    key,    \* the token stored under the key, NoToken if there is no key
    ttl,    \* time the key has left, 0 if there is no key
    pc,     \* what each task is doing
    mine,   \* the token the task drew
    age     \* how long the task has been running

vars == <<key, ttl, pc, mine, age>>

Running == {"asking", "working", "releasing"}

TypeOK ==
    /\ key \in Token \cup {NoToken}
    /\ ttl \in 0..TTL
    /\ pc \in [Worker -> Running \cup {"idle"}]
    /\ mine \in [Worker -> Token \cup {NoToken}]
    /\ age \in [Worker -> Nat]
    /\ \A w \in Worker : age[w] <= HardLimit[w]

Init ==
    /\ key = NoToken
    /\ ttl = 0
    /\ pc = [w \in Worker |-> "idle"]
    /\ mine = [w \in Worker |-> NoToken]
    /\ age = [w \in Worker |-> 0]

Exit(w) == /\ pc' = [pc EXCEPT ![w] = "idle"]
           /\ mine' = [mine EXCEPT ![w] = NoToken]
           /\ age' = [age EXCEPT ![w] = 0]

(* A task starts and draws a token nobody is using. *)
Start(w) ==
    /\ pc[w] = "idle"
    /\ \E t \in Token \ ({key} \cup {mine[v] : v \in Worker}) :
          mine' = [mine EXCEPT ![w] = t]
    /\ pc' = [pc EXCEPT ![w] = "asking"]
    /\ UNCHANGED <<key, ttl, age>>

(* Two ways to get the SET wrong: without NX, without EX. *)
SetWithoutNX(w) == key' = mine[w] /\ ttl' = TTL

SetWithoutEX(w) == key = NoToken /\ key' = mine[w] /\ ttl' = 0

(* SET key token NX EX ttl *)
SetNX(w) == /\ key = NoToken
            /\ key' = mine[w]
            /\ ttl' = TTL

Acquire(w) ==
    /\ pc[w] = "asking"
    /\ SetNX(w)
    /\ pc' = [pc EXCEPT ![w] = "working"]
    /\ UNCHANGED <<mine, age>>

(* The key is set but the answer is lost: redis.set raises, the task ends. *)
AcquireUnanswered(w) ==
    /\ pc[w] = "asking"
    /\ SetNX(w)
    /\ Exit(w)

(* A source that is being collected is skipped, not waited for. *)
Skip(w) ==
    /\ pc[w] = "asking"
    /\ key # NoToken
    /\ Exit(w)
    /\ UNCHANGED <<key, ttl>>

FinishWork(w) ==
    /\ pc[w] = "working"
    /\ pc' = [pc EXCEPT ![w] = "releasing"]
    /\ UNCHANGED <<key, ttl, mine, age>>

(* The release as a plain DELETE would do it. *)
ReleaseByDelete(w) == /\ pc[w] = "releasing"
                      /\ key' = NoToken /\ ttl' = 0
                      /\ Exit(w)

(* _RELEASE_SCRIPT: compare and delete in one step. *)
Release(w) ==
    /\ pc[w] = "releasing"
    /\ IF key = mine[w]
       THEN key' = NoToken /\ ttl' = 0
       ELSE UNCHANGED <<key, ttl>>
    /\ Exit(w)

(* The release call fails and is only logged, or the task is killed or     *)
(* crashes wherever it stands: the key is left to its TTL.                 *)
Die(w) ==
    /\ pc[w] \in Running
    /\ Exit(w)
    /\ UNCHANGED <<key, ttl>>

(* Time passes; a key whose time is up is gone. *)
Elapse ==
    /\ ttl' = IF ttl = 0 THEN 0 ELSE ttl - 1
    /\ key' = IF ttl = 1 THEN NoToken ELSE key
    /\ age' = [w \in Worker |-> IF pc[w] \in Running THEN age[w] + 1 ELSE 0]
    /\ UNCHANGED <<pc, mine>>

WithinLimits == \A w \in Worker : pc[w] \in Running => age[w] < HardLimit[w]

Tick == /\ WithinLimits
        /\ ttl > 0 \/ \E w \in Worker : pc[w] \in Running
        /\ Elapse

TimeOut(w) == age[w] = HardLimit[w] /\ Die(w)

Next == \/ Tick
        \/ \E w \in Worker : \/ Start(w)
                             \/ Acquire(w)
                             \/ AcquireUnanswered(w)
                             \/ Skip(w)
                             \/ FinishWork(w)
                             \/ Release(w)
                             \/ Die(w)

Spec == Init /\ [][Next]_vars

(* Time goes on and the parent process enforces the hard limit; nothing is *)
(* assumed of the tasks themselves.                                        *)
FairSpec == Spec /\ WF_vars(Tick) /\ \A w \in Worker : WF_vars(TimeOut(w))

-----------------------------------------------------------------------------
(* Tasks that are killed before a lock's TTL has passed never collect the  *)
(* source at the same time, whatever tasks with longer limits do besides:  *)
(* for them "a lock never expires while its holder is still working".      *)
Bounded == {w \in Worker : HardLimit[w] < TTL}

OneCollector ==
    \A v, w \in Bounded : pc[v] = "working" /\ pc[w] = "working" => v = w

(* The key a task set is its own until the TTL has passed: nobody else     *)
(* acquires it, and no late release of another task deletes it.  This      *)
(* holds whatever the limits are.                                          *)
KeptUntilExpiry ==
    \A w \in Worker : pc[w] = "working" /\ key # mine[w] => age[w] >= TTL

(* A source is never stuck: crashed, killed and unanswered holders         *)
(* included, its key is gone again and again.                              *)
FreedAgain == []<>(key = NoToken)
=============================================================================
