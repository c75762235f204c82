-------------------------- MODULE WorkerPoolProofs --------------------------
(***************************************************************************)
(* Theorems about WorkerPool, for any number of processes, any limits and  *)
(* any time after which a heartbeat is stale.                              *)
(***************************************************************************)
EXTENDS WorkerPool, SourceLockProofs

(* A task that has ended has no age, so that time is a stutter for an idle *)
(* pool; a heartbeat's time is taken while it runs.                        *)
IdleAge == \A w \in Worker : pc[w] \notin Running => age[w] = 0

TimeTaken == \A w \in Worker : beating[w].at <= beating[w].age

(* How long the scheduler may have been silent is carried from the queue   *)
(* to the process, to the time it takes and to the stamp it sets.          *)
Heard ==
    /\ queued > 0 => silent = 0
    /\ \A w \in Worker :
          /\ beating[w].pc # "none" => silent <= beating[w].age
          /\ beating[w].pc = "timed" => silent <= beating[w].at + BeatLimit
    /\ stamp # NoStamp => silent <= stamp.age + BeatLimit

PInv == IInv /\ PoolTypeOK /\ IdleAge /\ TimeTaken /\ Heard

-----------------------------------------------------------------------------
(* The pool as the lock sees it *)

LEMMA PoolInitInv == PoolInit => PInv
<1> SUFFICES ASSUME PoolInit PROVE PInv
  OBVIOUS
<1>1. IInv
  BY InitInv DEF PoolInit
<1>2. PoolTypeOK
  <2>1. NotBeating \in Beating
    BY PoolAssumption DEF Beating, NotBeating
  <2>2. \A w \in Worker : beating[w].pc = "none"
    BY DEF PoolInit, NotBeating
  <2>3. beating \in [Worker -> Beating]
    BY <2>1 DEF PoolInit
  <2>4. beatUp \in BOOLEAN
    BY DEF PoolInit
  <2>5. silent \in 0..MaxSilence /\ calm \in 0..MaxSilence /\ queued \in Nat
    BY PoolAssumption DEF PoolInit
  <2> QED  BY <2>2, <2>3, <2>4, <2>5 DEF PoolInit, PoolTypeOK
<1>3. IdleAge
  BY DEF PoolInit, Init, IdleAge
<1>4. TimeTaken /\ Heard
  BY PoolAssumption DEF PoolInit, TimeTaken, Heard, NotBeating
<1> QED  BY <1>1, <1>2, <1>3, <1>4 DEF PInv

(* A step of the pool is one of the lock or leaves it alone. *)
LEMMA StepOfLock == PInv /\ [PoolNext]_allVars => [Next]_vars
<1> SUFFICES ASSUME PInv, [PoolNext]_allVars PROVE [Next]_vars
  OBVIOUS
<1>1. CASE PoolTick
  <2>1. CASE ttl > 0 \/ \E w \in Worker : pc[w] \in Running
    BY <1>1, <2>1 DEF PoolTick, Tick, Next
  <2>2. CASE ~(ttl > 0 \/ \E w \in Worker : pc[w] \in Running)
    <3>1. ttl = 0
      BY <2>2, LockAssumption DEF PInv, IInv, TypeOK
    <3>2. age \in [Worker -> Nat] /\ \A w \in Worker : pc[w] \notin Running /\ age[w] = 0
      BY <2>2 DEF PInv, IInv, TypeOK, IdleAge
    <3>3. age' = [w \in Worker |-> 0]
      BY <1>1, <3>2 DEF PoolTick, Elapse
    <3>4. age' = age
      BY <3>2, <3>3
    <3> QED  BY <1>1, <3>1, <3>4 DEF PoolTick, Elapse, vars
  <2> QED  BY <2>1, <2>2
<1>2. CASE \E w \in Worker : OtherTask(w)
  BY <1>2 DEF OtherTask, Next
<1>3. CASE UNCHANGED vars
  BY <1>3
<1> QED
  BY <1>1, <1>2, <1>3
     DEF PoolNext, allVars, StartBeat, StopBeat, Take, TakeTime, SetStamp, Fail, LoseProcess

LEMMA LockInv == PInv /\ [PoolNext]_allVars => IInv'
  BY StepOfLock, NextInv DEF PInv

(* No task keeps an age when it ends. *)
LEMMA IdleAgeKept == PInv /\ [PoolNext]_allVars => IdleAge'
<1> SUFFICES ASSUME PInv, [Next]_vars PROVE IdleAge'
  BY StepOfLock
<1>1. age \in [Worker -> Nat] /\ pc \in [Worker -> Running \cup {"idle"}]
  BY DEF PInv, IInv, TypeOK
<1>2. CASE Tick
  BY <1>1, <1>2 DEF Tick, Elapse, IdleAge
<1>3. ASSUME NEW w \in Worker, Exit(w) PROVE IdleAge'
  BY <1>1, <1>3 DEF Exit, PInv, IdleAge, Running
<1>4. ASSUME NEW w \in Worker, pc[w] \in Running \/ pc'[w] \in Running,
             UNCHANGED age, \A v \in Worker : v # w => pc'[v] = pc[v],
             pc'[w] \in Running
      PROVE  IdleAge'
  BY <1>1, <1>4 DEF PInv, IdleAge
<1>5. ASSUME NEW w \in Worker, Start(w) \/ Acquire(w) \/ FinishWork(w) PROVE IdleAge'
  BY <1>1, <1>4, <1>5 DEF Start, Acquire, FinishWork, Running
<1>6. ASSUME NEW w \in Worker,
             AcquireUnanswered(w) \/ Skip(w) \/ Release(w) \/ Die(w)
      PROVE  IdleAge'
  BY <1>3, <1>6 DEF AcquireUnanswered, Skip, Release, Die
<1>7. CASE UNCHANGED vars
  BY <1>7 DEF vars, PInv, IdleAge
<1> QED  BY <1>2, <1>5, <1>6, <1>7 DEF Next

-----------------------------------------------------------------------------
(* Heartbeats *)

(* 30 s pass. *)
LEMMA PoolTickInv == PInv /\ PoolTick => (PoolTypeOK /\ TimeTaken /\ Heard)'
<1> SUFFICES ASSUME PInv, PoolTick PROVE (PoolTypeOK /\ TimeTaken /\ Heard)'
  OBVIOUS
<1>1. silent \in 0..MaxSilence /\ silent' \in 0..MaxSilence /\ silent' <= silent + 1
  BY PoolAssumption DEF PInv, PoolTypeOK, PoolTick, Counted
<1>2. calm' \in 0..MaxSilence
  BY PoolAssumption DEF PInv, PoolTypeOK, PoolTick, Counted
<1>3. queued' \in Nat /\ (queued' > 0 => silent' = 0)
  BY DEF PoolTick, Unexpired
<1>4. ASSUME NEW w \in Worker
      PROVE  /\ beating'[w] \in Beating
             /\ beating'[w].pc = beating[w].pc
             /\ beating'[w].at <= beating'[w].age
             /\ beating[w].pc # "none" => beating'[w].age = beating[w].age + 1
             /\ beating[w].pc = "timed" => beating'[w].at = beating[w].at + 1
  <2>1. beating[w] \in Beating /\ beating[w].at <= beating[w].age
    BY DEF PInv, PoolTypeOK, TimeTaken
  <2>2. beating'[w] = Older(beating[w])
    BY DEF PoolTick
  <2>3. beating[w].pc # "none" => beating[w].age < BeatLimit
    BY DEF PoolTick
  <2>4. beating[w].pc \in {"none", "called", "timed"}
        /\ beating[w].age \in 0..BeatLimit /\ beating[w].at \in 0..BeatLimit
    BY <2>1 DEF Beating
  <2>5. beating'[w].age \in 0..BeatLimit /\ beating'[w].at <= beating'[w].age
    BY <2>1, <2>2, <2>3, <2>4, PoolAssumption DEF Older
  <2>6. beating'[w].at \in 0..BeatLimit
    BY <2>2, <2>4, <2>5, PoolAssumption DEF Older
  <2>7. beating'[w] \in Beating
    BY <2>2, <2>4, <2>5, <2>6 DEF Older, Beating
  <2> QED  BY <2>2, <2>4, <2>5, <2>7 DEF Older
<1>5. beating' \in [Worker -> Beating]
  BY <1>4 DEF PoolTick
<1>6. ASSUME NEW w \in Worker, beating'[w].pc # "none" PROVE pc'[w] = "idle"
  BY <1>4, <1>6 DEF PInv, PoolTypeOK, PoolTick, Elapse
<1>7. stamp' \in Stamp \cup {NoStamp}
  BY PoolAssumption DEF PInv, PoolTypeOK, PoolTick, Stamp
<1>8. PoolTypeOK'
  BY <1>1, <1>2, <1>3, <1>5, <1>6, <1>7 DEF PInv, PoolTypeOK, PoolTick
<1>9. ASSUME NEW w \in Worker
      PROVE  /\ beating'[w].pc # "none" => silent' <= beating'[w].age
             /\ beating'[w].pc = "timed" => silent' <= beating'[w].at + BeatLimit
  <2>1. /\ beating[w].pc # "none" => silent <= beating[w].age
        /\ beating[w].pc = "timed" => silent <= beating[w].at + BeatLimit
    BY DEF PInv, Heard
  <2>2. beating[w].age \in Nat /\ beating[w].at \in Nat /\ BeatLimit \in Nat
    BY PoolAssumption DEF PInv, PoolTypeOK, Beating
  <2> QED  BY <1>1, <1>4, <2>1, <2>2
<1>10. ASSUME stamp' # NoStamp PROVE silent' <= stamp'.age + BeatLimit
  <2>1. stamp # NoStamp /\ stamp' = [age |-> stamp.age + 1, ttl |-> stamp.ttl - 1]
    BY <1>10 DEF PoolTick
  <2>2. stamp.age \in Nat /\ silent <= stamp.age + BeatLimit
    BY <2>1 DEF PInv, PoolTypeOK, Heard, Stamp
  <2> QED  BY <1>1, <2>1, <2>2, PoolAssumption
<1> QED  BY <1>3, <1>4, <1>8, <1>9, <1>10 DEF TimeTaken, Heard

(* Every step preserves the invariant. *)
LEMMA PoolNextInv == PInv /\ [PoolNext]_allVars => PInv'
<1> SUFFICES ASSUME PInv, [PoolNext]_allVars PROVE (PoolTypeOK /\ TimeTaken /\ Heard)'
  BY LockInv, IdleAgeKept DEF PInv
<1> USE PoolAssumption
<1>1. CASE PoolTick
  BY <1>1, PoolTickInv
<1>2. CASE StartBeat \/ StopBeat
  BY <1>2 DEF StartBeat, StopBeat, vars, PInv, PoolTypeOK, TimeTaken, Heard
<1>3. ASSUME NEW w \in Worker, OtherTask(w) PROVE (PoolTypeOK /\ TimeTaken /\ Heard)'
  <2>1. \A v \in Worker : v # w => pc'[v] = pc[v]
    BY <1>3 DEF OtherTask, Start, Acquire, AcquireUnanswered, Skip, FinishWork,
                Release, Die, Exit, PInv, IInv, TypeOK
  <2> QED  BY <1>3, <2>1 DEF OtherTask, poolVars, PInv, PoolTypeOK, TimeTaken, Heard
<1>4. ASSUME NEW w \in Worker, Take(w) PROVE (PoolTypeOK /\ TimeTaken /\ Heard)'
  <2>1. beating[w] \in Beating /\ beating'[w] = [beating[w] EXCEPT !.pc = "called"]
    BY <1>4 DEF Take, PInv, PoolTypeOK
  <2>2. silent = 0
    BY <1>4 DEF Take, PInv, Heard
  <2>3. PoolTypeOK'
    BY <1>4, <2>1 DEF Take, vars, PInv, PoolTypeOK, Beating
  <2>4. TimeTaken' /\ Heard'
    BY <1>4, <2>1, <2>2 DEF Take, PInv, PoolTypeOK, TimeTaken, Heard, Beating, Stamp
  <2> QED  BY <2>3, <2>4
<1>5. ASSUME NEW w \in Worker, TakeTime(w) PROVE (PoolTypeOK /\ TimeTaken /\ Heard)'
  <2>1. beating[w] \in Beating /\ beating'[w] = [beating[w] EXCEPT !.pc = "timed"]
    BY <1>5 DEF TakeTime, PInv, PoolTypeOK
  <2>2. silent <= beating[w].age /\ beating[w].age <= BeatLimit
    BY <1>5 DEF TakeTime, PInv, PoolTypeOK, Heard, Beating
  <2>3. PoolTypeOK'
    BY <1>5, <2>1 DEF TakeTime, vars, PInv, PoolTypeOK, Beating
  <2>4. TimeTaken' /\ Heard'
    BY <1>5, <2>1, <2>2 DEF TakeTime, PInv, PoolTypeOK, TimeTaken, Heard, Beating
  <2> QED  BY <2>3, <2>4
<1>6. ASSUME NEW w \in Worker, beating' = [beating EXCEPT ![w] = NotBeating],
             UNCHANGED <<vars, beatUp, silent>>, calm' \in {calm, 0}
      PROVE  TimeTaken' /\ (PoolTypeOK' <=> queued' \in Nat /\ stamp' \in Stamp \cup {NoStamp})
  BY <1>6 DEF vars, PInv, PoolTypeOK, TimeTaken, NotBeating, Beating
<1>7. ASSUME NEW w \in Worker, beating' = [beating EXCEPT ![w] = NotBeating],
             UNCHANGED silent, stamp' # NoStamp => silent <= stamp'.age + BeatLimit,
             queued' > 0 => silent = 0
      PROVE  Heard'
  BY <1>7 DEF PInv, PoolTypeOK, Heard, NotBeating
<1>8. ASSUME NEW w \in Worker, SetStamp(w) PROVE (PoolTypeOK /\ TimeTaken /\ Heard)'
  <2>1. beating[w].at \in Nat /\ silent <= beating[w].at + BeatLimit
    BY <1>8 DEF SetStamp, PInv, PoolTypeOK, Heard, Beating
  <2>2. stamp' \in Stamp
    BY <1>8, <2>1 DEF SetStamp, Stamp
  <2>3. stamp'.age = beating[w].at
    BY <1>8 DEF SetStamp
  <2>4. Heard'
    BY <1>7, <1>8, <2>1, <2>3 DEF SetStamp, PInv, Heard
  <2> QED  BY <1>6, <1>8, <2>2, <2>4 DEF SetStamp, PInv, PoolTypeOK
<1>9. ASSUME NEW w \in Worker, Fail(w) PROVE (PoolTypeOK /\ TimeTaken /\ Heard)'
  BY <1>6, <1>7, <1>9 DEF Fail, PInv, PoolTypeOK, Heard
<1>10. ASSUME NEW w \in Worker, LoseProcess(w) PROVE (PoolTypeOK /\ TimeTaken /\ Heard)'
  <2>1. silent = 0
    BY <1>10 DEF LoseProcess, PInv, PoolTypeOK, Heard
  <2>2. queued' \in Nat
    BY <1>10 DEF LoseProcess, PInv, PoolTypeOK
  <2>3. Heard'
    BY <1>7, <1>10, <2>1 DEF LoseProcess, PInv, Heard
  <2> QED  BY <1>6, <1>10, <2>2, <2>3 DEF LoseProcess, PInv, PoolTypeOK
<1>11. CASE UNCHANGED allVars
  BY <1>11 DEF allVars, vars, poolVars, PInv, PoolTypeOK, TimeTaken, Heard
<1> QED
  BY <1>1, <1>2, <1>3, <1>4, <1>5, <1>8, <1>9, <1>10, <1>11 DEF PoolNext

(* The invariant holds of every behaviour. *)
LEMMA PoolSpecInv == PoolSpec => []PInv
  BY PoolInitInv, PoolNextInv, PTL DEF PoolSpec

-----------------------------------------------------------------------------
(* The pool's variables keep their types, and a process runs one task at a *)
(* time.                                                                   *)
THEOREM PoolTypeCorrect == PoolSpec => []PoolTypeOK
<1>1. PInv => PoolTypeOK
  BY DEF PInv
<1> QED  BY <1>1, PoolSpecInv, PTL

(* Tasks that share their processes with heartbeats use the lock as        *)
(* SourceLock says: the pool implements it, so that all that holds of it   *)
(* holds in the pool.                                                      *)
THEOREM PoolImplementsLock == PoolSpec => Spec
<1>1. PoolInit => Init
  BY DEF PoolInit
<1> QED  BY <1>1, StepOfLock, PoolSpecInv, PTL DEF PoolSpec, Spec

(* Nothing but a limit holds time up: when a unit cannot pass, the parent  *)
(* process can end the task or the heartbeat that has reached its limit.   *)
(* With KeyRunsOut, all that FreedAgain needs of the model beside the      *)
(* clock's own fairness.                                                   *)
UnitCanPass ==
    /\ WithinLimits
    /\ \A w \in Worker : beating[w].pc # "none" => beating[w].age < BeatLimit

TaskIsOver(w) == beating[w].pc = "none" /\ pc[w] \in Running /\ age[w] = HardLimit[w]

BeatIsOver(w) == beating[w].pc # "none" /\ beating[w].age = BeatLimit

OnlyLimitsHoldTime == UnitCanPass \/ \E w \in Worker : TaskIsOver(w) \/ BeatIsOver(w)

THEOREM LimitsLetTimePass == PoolSpec => []OnlyLimitsHoldTime
<1>1. PInv => OnlyLimitsHoldTime
  <2> SUFFICES ASSUME PInv, NEW w \in Worker,
                      \/ pc[w] \in Running /\ ~(age[w] < HardLimit[w])
                      \/ beating[w].pc # "none" /\ ~(beating[w].age < BeatLimit)
               PROVE  TaskIsOver(w) \/ BeatIsOver(w)
    BY DEF OnlyLimitsHoldTime, UnitCanPass, WithinLimits
  <2>1. beating[w] \in Beating /\ (beating[w].pc # "none" => pc[w] \notin Running)
    BY DEF PInv, PoolTypeOK, Running
  <2>2. age[w] \in Nat /\ age[w] <= HardLimit[w] /\ HardLimit[w] \in Nat
    BY LockAssumption DEF PInv, IInv, TypeOK
  <2>3. beating[w].age \in Nat /\ beating[w].age <= BeatLimit /\ BeatLimit \in Nat
    BY <2>1, PoolAssumption DEF Beating
  <2> QED  BY <2>1, <2>2, <2>3 DEF TaskIsOver, BeatIsOver
<1> QED  BY <1>1, PoolSpecInv, PTL

(* A stalled scheduler shows in /ready once StaleAfter and the time limit  *)
(* of a heartbeat have passed, whatever the processes are busy with,       *)
(* because a heartbeat that nobody takes in time expires.                  *)
THEOREM SchedulerStallShows == PoolSpec => []StallShows
<1>1. PInv => StallShows
  <2> SUFFICES ASSUME PInv, silent > StaleAfter + BeatLimit, stamp # NoStamp
               PROVE  stamp.age > StaleAfter
    BY DEF StallShows, Fresh, IsStale
  <2>1. stamp.age \in Nat /\ silent \in Nat /\ silent <= stamp.age + BeatLimit
    BY PoolAssumption DEF PInv, PoolTypeOK, Heard, Stamp
  <2> QED  BY <2>1, PoolAssumption
<1> QED  BY <1>1, PoolSpecInv, PTL
-----------------------------------------------------------------------------
(* No false alarm.  A heartbeat sent j units ago, since when none was      *)
(* lost, is queued, runs, or has set a stamp that is at most j old.        *)

(* Two heartbeats may take their limits one after the other before an      *)
(* answer is stale, and a stamp lives until the next one is set.  In units *)
(* of 30 s the code has BeatLimit 1, StaleAfter 3 and StampTTL 10.         *)
BeatFits == StaleAfter >= 2 * BeatLimit + 1 /\ StampTTL > BeatLimit + 1

SetAgo == StampTTL - stamp.ttl

Underway(j) ==
    \/ j = 0 /\ queued > 0
    \/ \E w \in Worker : beating[w].pc # "none" /\ beating[w].age = j
    \/ stamp # NoStamp /\ SetAgo <= j

AtRest == \A w \in Worker : beating[w].pc = "none" => beating[w] = NotBeating

StampKeepsTime == stamp # NoStamp => stamp.age <= BeatLimit + SetAgo

AllUnderway == \A j \in 0..BeatLimit + 1 : j < calm => Underway(j)

CalmInv == AtRest /\ StampKeepsTime /\ AllUnderway

(* 30 s pass. *)
LEMMA CalmTick == BeatFits /\ PInv /\ CalmInv /\ PoolTick => CalmInv'
<1> SUFFICES ASSUME BeatFits, PInv, CalmInv, PoolTick PROVE CalmInv'
  OBVIOUS
<1> USE PoolAssumption
<1>1. AtRest'
  BY DEF PoolTick, Older, CalmInv, AtRest, NotBeating
<1>2. stamp # NoStamp => stamp.ttl \in 1..StampTTL /\ stamp.age \in Nat
  BY DEF PInv, PoolTypeOK, Stamp
<1>3. ASSUME stamp # NoStamp, stamp.ttl # 1
      PROVE  stamp' = [age |-> stamp.age + 1, ttl |-> stamp.ttl - 1]
  BY <1>3 DEF PoolTick
<1>4. stamp' # NoStamp => stamp # NoStamp /\ stamp.ttl # 1
  BY DEF PoolTick
<1>5. StampKeepsTime'
  <2> SUFFICES ASSUME stamp' # NoStamp PROVE stamp'.age <= BeatLimit + SetAgo'
    BY DEF StampKeepsTime
  <2>1. stamp.age <= BeatLimit + (StampTTL - stamp.ttl)
    BY <1>4 DEF CalmInv, StampKeepsTime, SetAgo
  <2>2. SetAgo' = StampTTL - (stamp.ttl - 1) /\ stamp'.age = stamp.age + 1
    BY <1>3, <1>4 DEF SetAgo
  <2> QED  BY <1>2, <1>4, <2>1, <2>2
<1>6. ASSUME NEW j \in 0..BeatLimit + 1, j < calm' PROVE Underway(j)'
  <2>1. calm \in Nat /\ beatUp
    BY <1>6 DEF PoolTick, PInv, PoolTypeOK
  <2>2. CASE j = 0
    BY <2>1, <2>2 DEF PoolTick, Unexpired, Underway
  <2>3. CASE j > 0
    <3> DEFINE i == j - 1
    <3>1. i \in 0..BeatLimit /\ i < calm /\ queued = 0
      BY <1>6, <2>1, <2>3 DEF PoolTick, Counted
    <3>2. Underway(i)
      BY <3>1 DEF CalmInv, AllUnderway
    <3>3. ASSUME NEW w \in Worker, beating[w].pc # "none", beating[w].age = i
          PROVE  Underway(j)'
      <4>1. beating'[w].pc # "none" /\ beating'[w].age = i + 1
        BY <3>3 DEF PoolTick, Older
      <4> QED  BY <4>1, <2>3 DEF Underway
    <3>4. ASSUME stamp # NoStamp, SetAgo <= i PROVE Underway(j)'
      <4>1. stamp.ttl # 1
        BY <1>2, <3>1, <3>4 DEF SetAgo, BeatFits
      <4>2. stamp' = [age |-> stamp.age + 1, ttl |-> stamp.ttl - 1]
        BY <1>3, <3>4, <4>1
      <4>3. stamp' \in Stamp
        BY <1>2, <3>4, <4>1, <4>2 DEF Stamp
      <4>4. stamp' # NoStamp
        BY <4>3, NoStampAssumption
      <4>5. SetAgo' <= j
        BY <1>2, <3>4, <4>2 DEF SetAgo
      <4> QED  BY <4>4, <4>5 DEF Underway
    <3> QED  BY <3>1, <3>2, <3>3, <3>4 DEF Underway
  <2> QED  BY <2>2, <2>3
<1> QED  BY <1>1, <1>5, <1>6 DEF CalmInv, AllUnderway

(* A heartbeat that fails or is lost starts the count again. *)
LEMMA CalmBroken ==
  ASSUME PInv, CalmInv, NEW w \in Worker, UNCHANGED stamp,
         beating' = [beating EXCEPT ![w] = NotBeating], calm' = 0
  PROVE  CalmInv'
<1>1. AtRest' /\ StampKeepsTime'
  BY DEF PInv, PoolTypeOK, CalmInv, AtRest, StampKeepsTime, SetAgo
<1>2. AllUnderway'
  BY PoolAssumption DEF AllUnderway
<1> QED  BY <1>1, <1>2 DEF CalmInv

(* A heartbeat that is taken, or takes the time. *)
LEMMA CalmBeats ==
  ASSUME PInv, CalmInv, NEW w \in Worker, Take(w) \/ TakeTime(w)
  PROVE  CalmInv'
<1>1. /\ beating[w] \in Beating /\ UNCHANGED <<stamp, calm>>
      /\ \A v \in Worker : v # w => beating'[v] = beating[v]
      /\ beating'[w].age = beating[w].age /\ beating'[w].pc # "none"
  BY DEF PInv, PoolTypeOK, Take, TakeTime, Beating
<1>2. AtRest' /\ StampKeepsTime'
  BY <1>1 DEF CalmInv, AtRest, StampKeepsTime, SetAgo
<1>3. ASSUME NEW j \in 0..BeatLimit + 1, j < calm' PROVE Underway(j)'
  <2>1. Underway(j)
    BY <1>1, <1>3 DEF CalmInv, AllUnderway
  <2>2. CASE j = 0 /\ queued > 0
    <3>1. CASE Take(w)
      <4>1. beating[w].age = 0
        BY <3>1 DEF Take, CalmInv, AtRest, NotBeating
      <4> QED  BY <1>1, <2>2, <4>1 DEF Underway
    <3>2. CASE TakeTime(w)
      BY <2>2, <3>2 DEF TakeTime, Underway
    <3> QED  BY <3>1, <3>2
  <2>3. CASE \E v \in Worker : beating[v].pc # "none" /\ beating[v].age = j
    BY <1>1, <2>3 DEF Underway
  <2>4. CASE stamp # NoStamp /\ SetAgo <= j
    BY <1>1, <2>4 DEF Underway, SetAgo
  <2> QED  BY <2>1, <2>2, <2>3, <2>4 DEF Underway
<1> QED  BY <1>2, <1>3 DEF CalmInv, AllUnderway

(* Whichever heartbeat's SET arrives, the stamp is of now. *)
LEMMA CalmSet ==
  ASSUME PInv, CalmInv, NEW w \in Worker, SetStamp(w) PROVE CalmInv'
<1>1. /\ beating[w].at \in 0..BeatLimit
      /\ stamp' = [age |-> beating[w].at, ttl |-> StampTTL]
  BY DEF PInv, PoolTypeOK, SetStamp, Beating
<1>2. SetAgo' = 0 /\ stamp'.age <= BeatLimit
  BY <1>1, PoolAssumption DEF SetAgo
<1>3. stamp' # NoStamp
  <2>1. stamp' \in Stamp
    BY <1>1, PoolAssumption DEF Stamp
  <2> QED  BY <2>1, NoStampAssumption
<1>4. AtRest' /\ StampKeepsTime'
  BY <1>2, PoolAssumption
     DEF PInv, PoolTypeOK, SetStamp, CalmInv, AtRest, StampKeepsTime
<1>5. \A j \in 0..BeatLimit + 1 : Underway(j)'
  BY <1>2, <1>3, PoolAssumption DEF Underway
<1> QED  BY <1>4, <1>5 DEF CalmInv, AllUnderway

(* Every step preserves the invariant. *)
LEMMA CalmNext == BeatFits /\ PInv /\ CalmInv /\ [PoolNext]_allVars => CalmInv'
<1> SUFFICES ASSUME BeatFits, PInv, CalmInv, [PoolNext]_allVars PROVE CalmInv'
  OBVIOUS
<1>1. CASE UNCHANGED <<queued, beating, stamp, calm>>
  <2>1. SetAgo' = SetAgo
    BY <1>1 DEF SetAgo
  <2>2. \A j : Underway(j)' <=> Underway(j)
    BY <1>1, <2>1 DEF Underway
  <2> QED  BY <1>1, <2>1, <2>2 DEF CalmInv, AtRest, StampKeepsTime, AllUnderway
<1>2. ASSUME NEW w \in Worker, Fail(w) \/ LoseProcess(w) PROVE CalmInv'
  BY <1>2, CalmBroken DEF Fail, LoseProcess
<1> QED
  BY <1>1, <1>2, CalmTick, CalmBeats, CalmSet
     DEF PoolNext, allVars, poolVars, StartBeat, StopBeat, OtherTask

(* While every heartbeat is sent, taken in time and does not fail, /ready  *)
(* never calls the worker stale: neither runs that take all their time nor *)
(* SETs that overtake each other raise an alarm.                           *)
THEOREM SteadyBeatIsFresh == ASSUME BeatFits PROVE PoolSpec => []NoFalseAlarm
<1> USE PoolAssumption
<1>1. PoolInit => CalmInv
  BY DEF PoolInit, CalmInv, AtRest, StampKeepsTime, AllUnderway
<1>2. PInv /\ CalmInv /\ [PoolNext]_allVars => CalmInv'
  BY CalmNext
<1>3. PInv /\ CalmInv => NoFalseAlarm
  <2> SUFFICES ASSUME PInv, CalmInv, calm >= BeatLimit + 2 PROVE Fresh
    BY DEF NoFalseAlarm
  <2> DEFINE last == BeatLimit + 1
  <2>1. last \in 0..BeatLimit + 1 /\ last < calm
    BY DEF PInv, PoolTypeOK
  <2>2. Underway(last)
    BY <2>1 DEF CalmInv, AllUnderway
  <2>3. \A w \in Worker : beating[w].age # last
    BY DEF PInv, PoolTypeOK, Beating
  <2>4. stamp # NoStamp /\ SetAgo <= last
    BY <2>2, <2>3 DEF Underway
  <2>5. stamp.age <= BeatLimit + SetAgo
    BY <2>4 DEF CalmInv, StampKeepsTime
  <2>6. stamp.age \in Nat /\ SetAgo \in Nat
    BY <2>4 DEF PInv, PoolTypeOK, Stamp, SetAgo
  <2>7. ~IsStale(stamp)
    BY <2>4, <2>5, <2>6 DEF BeatFits, IsStale
  <2> QED  BY <2>4, <2>7 DEF Fresh
<1> QED  BY <1>1, <1>2, <1>3, PoolSpecInv, PTL DEF PoolSpec
=============================================================================
