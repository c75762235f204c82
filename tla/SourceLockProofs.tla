-------------------------- MODULE SourceLockProofs --------------------------
(***************************************************************************)
(* Theorems about SourceLock, for any number of tasks, any TTL and any     *)
(* hard limit.                                                             *)
(***************************************************************************)
EXTENDS SourceLock, TLAPS

(* What keeps a key with the task that set it: tokens of running tasks     *)
(* differ, a task that is still asking has set nothing, and a key that a   *)
(* task set has at least TTL - age left.                                   *)
Tokens ==
    /\ \A w \in Worker : pc[w] \in Running <=> mine[w] \in Token
    /\ \A v, w \in Worker : pc[v] \in Running /\ mine[v] = mine[w] => v = w
    /\ \A w \in Worker : pc[w] = "asking" => key # mine[w]

Timing ==
    /\ key = NoToken <=> ttl = 0
    /\ \A w \in Worker : pc[w] = "working" =>
          \/ key = mine[w] /\ ttl + age[w] >= TTL
          \/ age[w] >= TTL

IInv == TypeOK /\ Tokens /\ Timing

-----------------------------------------------------------------------------
(* The empty lock satisfies the invariant. *)
LEMMA InitInv == Init => IInv
  BY LockAssumption DEF Init, IInv, TypeOK, Tokens, Timing, Running

(* A task that ends is idle, has no token and has run no time. *)
LEMMA ExitTypes ==
  ASSUME IInv, NEW w \in Worker, Exit(w)
  PROVE  /\ pc' \in [Worker -> Running \cup {"idle"}]
         /\ mine' \in [Worker -> Token \cup {NoToken}]
         /\ age' \in [Worker -> Nat]
         /\ \A v \in Worker : age'[v] <= HardLimit[v]
<1>1. HardLimit[w] \in Nat
  BY LockAssumption
<1>2. age' = [age EXCEPT ![w] = 0]
  BY DEF Exit
<1>3. age \in [Worker -> Nat] /\ \A v \in Worker : age[v] <= HardLimit[v]
  BY DEF IInv, TypeOK
<1>4. age' \in [Worker -> Nat]
  BY <1>2, <1>3
<1>5. ASSUME NEW v \in Worker PROVE age'[v] <= HardLimit[v]
  <2>1. CASE v = w
    BY <1>1, <1>2, <1>3, <2>1
  <2>2. CASE v # w
    BY <1>2, <1>3, <2>2
  <2> QED  BY <2>1, <2>2
<1>6. /\ pc' \in [Worker -> Running \cup {"idle"}]
      /\ mine' \in [Worker -> Token \cup {NoToken}]
  BY DEF IInv, TypeOK, Exit
<1> QED  BY <1>4, <1>5, <1>6

(* A task that ends, leaving the key alone, preserves the invariant. *)
LEMMA ExitInv ==
  ASSUME IInv, NEW w \in Worker, Exit(w), UNCHANGED <<key, ttl>>
  PROVE  IInv'
<1>1. TypeOK'
  BY ExitTypes DEF IInv, TypeOK
<1>2. Tokens'
  BY LockAssumption DEF IInv, TypeOK, Exit, Tokens, Running
<1>3. Timing'
  BY LockAssumption DEF IInv, TypeOK, Exit, Timing, Running
<1> QED  BY <1>1, <1>2, <1>3 DEF IInv

(* Time passes. *)
LEMMA TickInv == IInv /\ Tick => IInv'
<1> SUFFICES ASSUME IInv, Tick PROVE IInv'
  OBVIOUS
<1>1. TypeOK'
  BY LockAssumption DEF IInv, TypeOK, Tick, Elapse, WithinLimits, Running
<1>2. Tokens'
  BY LockAssumption DEF IInv, TypeOK, Tick, Elapse, WithinLimits, Tokens, Running
<1>3. Timing'
  <2>1. (key = NoToken <=> ttl = 0)'
    BY LockAssumption DEF IInv, TypeOK, Tick, Elapse, WithinLimits, Timing
  <2>2. ASSUME NEW v \in Worker, pc[v] = "working"
        PROVE  (key' = mine[v] /\ ttl' + age'[v] >= TTL) \/ age'[v] >= TTL
    <3>1. ttl \in Nat /\ age[v] \in Nat /\ TTL \in Nat /\ age'[v] = age[v] + 1
      BY <2>2, LockAssumption DEF IInv, TypeOK, Tick, Elapse, WithinLimits, Running
    <3>2. mine[v] # NoToken
      BY <2>2, LockAssumption DEF IInv, Tokens, Running
    <3> QED  BY <2>2, <3>1, <3>2 DEF IInv, Timing, Tick, Elapse, WithinLimits
  <2> QED  BY <2>1, <2>2 DEF Timing, Tick, Elapse, WithinLimits
<1> QED  BY <1>1, <1>2, <1>3 DEF IInv

(* Every step preserves the invariant. *)
LEMMA NextInv == IInv /\ [Next]_vars => IInv'
<1> SUFFICES ASSUME IInv, [Next]_vars PROVE IInv'
  OBVIOUS
<1>1. CASE Tick
  BY <1>1, TickInv
<1>2. ASSUME NEW w \in Worker, Start(w) PROVE IInv'
  <2>1. TypeOK'
    BY <1>2 DEF IInv, TypeOK, Start, Running
  <2>2. Tokens'
    BY <1>2, LockAssumption DEF IInv, TypeOK, Start, Tokens, Running
  <2>3. Timing'
    BY <1>2, LockAssumption DEF IInv, TypeOK, Start, Timing, Running
  <2> QED  BY <2>1, <2>2, <2>3 DEF IInv
<1>3. ASSUME NEW w \in Worker, Acquire(w) PROVE IInv'
  <2>0. mine[w] \in Token
    BY <1>3 DEF IInv, Tokens, Acquire, Running
  <2>1. TypeOK'
    BY <1>3, <2>0, LockAssumption DEF IInv, TypeOK, Acquire, SetNX, Running
  <2>2. Tokens'
    BY <1>3, LockAssumption DEF IInv, TypeOK, Acquire, SetNX, Tokens, Running
  <2>3. Timing'
    BY <1>3, <2>0, LockAssumption
       DEF IInv, TypeOK, Acquire, SetNX, Tokens, Timing, Running
  <2> QED  BY <2>1, <2>2, <2>3 DEF IInv
<1>4. ASSUME NEW w \in Worker, AcquireUnanswered(w) PROVE IInv'
  <2>0. mine[w] \in Token
    BY <1>4 DEF IInv, Tokens, AcquireUnanswered, Running
  <2>1. TypeOK'
    <3>1. Exit(w) /\ key' \in Token \cup {NoToken} /\ ttl' \in 0..TTL
      BY <1>4, <2>0, LockAssumption DEF AcquireUnanswered, SetNX
    <3> QED  BY <3>1, ExitTypes DEF TypeOK
  <2>2. Tokens'
    BY <1>4, <2>0, LockAssumption
       DEF IInv, TypeOK, AcquireUnanswered, SetNX, Exit, Tokens, Running
  <2>3. Timing'
    BY <1>4, <2>0, LockAssumption
       DEF IInv, TypeOK, AcquireUnanswered, SetNX, Exit, Tokens, Timing, Running
  <2> QED  BY <2>1, <2>2, <2>3 DEF IInv
<1>5. ASSUME NEW w \in Worker, Skip(w) PROVE IInv'
  BY <1>5, ExitInv DEF Skip
<1>6. ASSUME NEW w \in Worker, FinishWork(w) PROVE IInv'
  <2>1. TypeOK'
    BY <1>6 DEF IInv, TypeOK, FinishWork, Running
  <2>2. Tokens'
    BY <1>6 DEF IInv, TypeOK, FinishWork, Tokens, Running
  <2>3. Timing'
    BY <1>6 DEF IInv, TypeOK, FinishWork, Timing, Running
  <2> QED  BY <2>1, <2>2, <2>3 DEF IInv
<1>7. ASSUME NEW w \in Worker, Release(w) PROVE IInv'
  <2>1. CASE key # mine[w]
    BY <1>7, <2>1, ExitInv DEF Release
  <2>2. CASE key = mine[w]
    <3>0. mine[w] \in Token
      BY <1>7 DEF IInv, Tokens, Release, Running
    <3>1. TypeOK'
      <4>1. Exit(w) /\ key' \in Token \cup {NoToken} /\ ttl' \in 0..TTL
        BY <1>7, <2>2, LockAssumption DEF Release
      <4> QED  BY <4>1, ExitTypes DEF TypeOK
    <3>2. Tokens'
      BY <1>7, <2>2, <3>0, LockAssumption
         DEF IInv, TypeOK, Release, Exit, Tokens, Running
    <3>3. Timing'
      BY <1>7, <2>2, <3>0, LockAssumption
         DEF IInv, TypeOK, Release, Exit, Tokens, Timing, Running
    <3> QED  BY <3>1, <3>2, <3>3 DEF IInv
  <2> QED  BY <2>1, <2>2
<1>8. ASSUME NEW w \in Worker, Die(w) PROVE IInv'
  BY <1>8, ExitInv DEF Die
<1>9. CASE UNCHANGED vars
  BY <1>9 DEF vars, IInv, TypeOK, Tokens, Timing
<1> QED
  BY <1>1, <1>2, <1>3, <1>4, <1>5, <1>6, <1>7, <1>8, <1>9 DEF Next

(* The invariant holds of every behaviour. *)
LEMMA SpecInv == Spec => []IInv
  BY InitInv, NextInv, PTL DEF Spec

(* The variables keep their types: the hard limit bounds every task's age, *)
(* the TTL every key's life.                                               *)
THEOREM TypeCorrect == Spec => []TypeOK
<1>1. IInv => TypeOK
  BY DEF IInv
<1> QED  BY <1>1, SpecInv, PTL

(* Whatever the limits are, a task's key stays its own for the whole TTL:  *)
(* the compare-and-delete of _RELEASE_SCRIPT never frees another's lock.   *)
THEOREM KeyIsKept == Spec => []KeptUntilExpiry
<1>1. IInv => KeptUntilExpiry
  BY DEF IInv, Timing, KeptUntilExpiry
<1> QED  BY <1>1, SpecInv, PTL

(* No two tasks that are killed before their lock can expire collect the   *)
(* source at the same time: the margin that the comment on                 *)
(* DEFAULT_LOCK_TTL_SECONDS asks of the time limits is all that is needed. *)
THEOREM LimitBelowTTL == Spec => []OneCollector
<1>1. IInv => OneCollector
  <2> SUFFICES ASSUME IInv, NEW v \in Bounded, NEW w \in Bounded,
                      pc[v] = "working", pc[w] = "working"
               PROVE  v = w
    BY DEF OneCollector
  <2>1. age[v] < TTL /\ age[w] < TTL
    BY LockAssumption DEF IInv, TypeOK, Bounded
  <2>2. key = mine[v] /\ key = mine[w]
    BY <2>1, LockAssumption DEF IInv, TypeOK, Timing, Bounded
  <2> QED  BY <2>2 DEF IInv, Tokens, Running, Bounded
<1> QED  BY <1>1, SpecInv, PTL

(* A key that is set has an expiry and is never prolonged: until it is     *)
(* gone it stays the token it is, and only time changes what it has left.  *)
(* So a holder that is lost, whatever the others do meanwhile, blocks the  *)
(* source for TTL at most; FreedAgain adds the fairness of the clock.      *)
RunsOut ==
    key # NoToken => /\ ttl \in 1..TTL
                     /\ \/ key' = NoToken
                        \/ key' = key /\ ttl' = ttl
                        \/ key' = key /\ ttl' = ttl - 1 /\ Tick

THEOREM KeyRunsOut == Spec => [][RunsOut]_vars
<1>1. IInv /\ [Next]_vars => [RunsOut]_vars
  <2> SUFFICES ASSUME IInv, Next, key # NoToken
               PROVE  /\ ttl \in 1..TTL
                      /\ \/ key' = NoToken
                         \/ key' = key /\ ttl' = ttl
                         \/ key' = key /\ ttl' = ttl - 1 /\ Tick
    BY DEF RunsOut
  <2>1. ttl \in 1..TTL
    BY LockAssumption DEF IInv, TypeOK, Timing
  <2>2. CASE Tick
    BY <2>1, <2>2, LockAssumption DEF Tick, Elapse
  <2>3. ASSUME NEW w \in Worker, Acquire(w) \/ AcquireUnanswered(w) PROVE FALSE
    BY <2>3 DEF Acquire, AcquireUnanswered, SetNX
  <2>4. ASSUME NEW w \in Worker, Start(w) \/ Skip(w) \/ FinishWork(w) \/ Die(w)
        PROVE  key' = key /\ ttl' = ttl
    BY <2>4 DEF Start, Skip, FinishWork, Die
  <2>5. ASSUME NEW w \in Worker, Release(w)
        PROVE  key' = NoToken \/ (key' = key /\ ttl' = ttl)
    BY <2>5 DEF Release
  <2> QED  BY <2>1, <2>2, <2>3, <2>4, <2>5 DEF Next
<1> QED  BY <1>1, SpecInv, PTL DEF Spec
=============================================================================
