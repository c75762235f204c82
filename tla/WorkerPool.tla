----------------------------- MODULE WorkerPool -----------------------------
(***************************************************************************)
(* The processes that serve the collect queue (tasks/celery_app.py) and    *)
(* the heartbeat that is to show that they do (tasks/system.py): the beat  *)
(* sends one every 30 s, which expires after 25 s; a process that is idle  *)
(* runs it and stamps Redis; /ready (api/v1/health.py) judges the stamp.   *)
(*                                                                         *)
(* A process runs one task at a time.  Its other tasks are those of        *)
(* SourceLock, with the same clock; one unit of it is the 30 s between     *)
(* two heartbeats, so that at most one heartbeat has not expired.          *)
(*                                                                         *)
(* What the stamp says besides its time is only displayed and left out,    *)
(* and so is the database ping, whose result is part of it.                *)
(***************************************************************************)
EXTENDS SourceLock

CONSTANTS
    BeatLimit,  \* time_limit of heartbeat
    StaleAfter, \* HEARTBEAT_STALE_AFTER_SECONDS
    StampTTL,   \* HEARTBEAT_TTL_SECONDS
    MaxSilence, \* bound: what silent and calm count up to
    NoStamp

ASSUME PoolAssumption ==
    /\ BeatLimit \in Nat /\ StaleAfter \in Nat /\ StampTTL \in Nat \ {0}
    /\ MaxSilence \in Nat /\ MaxSilence > StaleAfter + BeatLimit

VARIABLES
    beatUp,     \* whether the scheduler is running
    queued,     \* heartbeats in the collect queue
    beating,    \* the heartbeat each process runs
    stamp,      \* HEARTBEAT_KEY: the age of its "at", the time to live it has
    silent,     \* history: units since the scheduler sent a heartbeat
    calm        \* history: units since the last one in which one was not
                \* sent, expired or failed

poolVars == <<beatUp, queued, beating, stamp, silent, calm>>

allVars == <<vars, poolVars>>

NotBeating == [pc |-> "none", age |-> 0, at |-> 0]

(* age: how long the task has been running, at: the age of utcnow().       *)
Beating == [pc : {"none", "called", "timed"}, age : 0..BeatLimit, at : 0..BeatLimit]

Stamp == [age : Nat, ttl : 1..StampTTL]

ASSUME NoStampAssumption == NoStamp \notin Stamp

PoolTypeOK ==
    /\ beatUp \in BOOLEAN
    /\ queued \in Nat
    /\ beating \in [Worker -> Beating]
    /\ \A w \in Worker : beating[w].pc # "none" => pc[w] = "idle"
    /\ stamp \in Stamp \cup {NoStamp}
    /\ silent \in 0..MaxSilence
    /\ calm \in 0..MaxSilence

PoolInit ==
    /\ Init
    /\ beatUp = FALSE
    /\ queued = 0
    /\ beating = [w \in Worker |-> NotBeating]
    /\ stamp = NoStamp
    /\ silent = MaxSilence
    /\ calm = 0

-----------------------------------------------------------------------------
(* The tasks of SourceLock, on a process that runs no heartbeat. *)
OtherTask(w) ==
    /\ beating[w].pc = "none"
    /\ \/ Start(w)
       \/ Acquire(w)
       \/ AcquireUnanswered(w)
       \/ Skip(w)
       \/ FinishWork(w)
       \/ Release(w)
       \/ Die(w)
    /\ UNCHANGED poolVars

-----------------------------------------------------------------------------
(* heartbeat *)

(* A process that does not wait for its other task to end. *)
TakeAtOnce(w) ==
    /\ beating[w].pc = "none"
    /\ queued > 0
    /\ queued' = queued - 1
    /\ beating' = [beating EXCEPT ![w].pc = "called"]
    /\ UNCHANGED <<vars, beatUp, stamp, silent, calm>>

Take(w) ==
    /\ pc[w] = "idle"
    /\ beating[w].pc = "none"
    /\ queued > 0
    /\ queued' = queued - 1
    /\ beating' = [beating EXCEPT ![w].pc = "called"]
    /\ UNCHANGED <<vars, beatUp, stamp, silent, calm>>

(* The time is taken, before the SET. *)
TakeTime(w) ==
    /\ beating[w].pc = "called"
    /\ beating' = [beating EXCEPT ![w].pc = "timed"]
    /\ UNCHANGED <<vars, beatUp, queued, stamp, silent, calm>>

(* SET HEARTBEAT_KEY EX: the last one to arrive wins, not the latest time. *)
SetStamp(w) ==
    /\ beating[w].pc = "timed"
    /\ stamp' = [age |-> beating[w].at, ttl |-> StampTTL]
    /\ beating' = [beating EXCEPT ![w] = NotBeating]
    /\ UNCHANGED <<vars, beatUp, queued, silent, calm>>

(* It raises or is killed at its limit: no retry, and acknowledged.        *)
Fail(w) ==
    /\ beating[w].pc # "none"
    /\ beating' = [beating EXCEPT ![w] = NotBeating]
    /\ calm' = 0
    /\ UNCHANGED <<vars, beatUp, queued, stamp, silent>>

(* Its process is lost: it goes back to the queue, where it is dropped if  *)
(* it has expired.                                                         *)
LoseProcess(w) ==
    /\ beating[w].pc # "none"
    /\ beating[w].age = 0
    /\ queued' = queued + 1
    /\ beating' = [beating EXCEPT ![w] = NotBeating]
    /\ calm' = 0
    /\ UNCHANGED <<vars, beatUp, stamp, silent>>

-----------------------------------------------------------------------------
(* Time *)

StartBeat == /\ ~beatUp /\ beatUp' = TRUE
             /\ UNCHANGED <<vars, queued, beating, stamp, silent, calm>>

StopBeat == /\ beatUp /\ beatUp' = FALSE
            /\ UNCHANGED <<vars, queued, beating, stamp, silent, calm>>

(* Heartbeats sent without "expires", and what is left of the queue. *)
AllKept == queued

Unexpired == 0

Counted(n) == IF n < MaxSilence THEN n + 1 ELSE n

Older(b) == [pc  |-> b.pc,
             age |-> IF b.pc = "none" THEN 0 ELSE b.age + 1,
             at  |-> IF b.pc = "timed" THEN b.at + 1 ELSE 0]

(* 30 s pass and the scheduler, if it is running, sends a heartbeat.       *)
PoolTick ==
    /\ WithinLimits
    /\ \A w \in Worker : beating[w].pc # "none" => beating[w].age < BeatLimit
    /\ Elapse
    /\ queued' = Unexpired + (IF beatUp THEN 1 ELSE 0)
    /\ beating' = [w \in Worker |-> Older(beating[w])]
    /\ stamp' = IF stamp = NoStamp \/ stamp.ttl = 1 THEN NoStamp
                ELSE [age |-> stamp.age + 1, ttl |-> stamp.ttl - 1]
    /\ silent' = IF beatUp THEN 0 ELSE Counted(silent)
    /\ calm' = IF beatUp /\ queued = 0 THEN Counted(calm) ELSE 0
    /\ UNCHANGED beatUp

PoolNext == \/ PoolTick
            \/ StartBeat
            \/ StopBeat
            \/ \E w \in Worker : \/ OtherTask(w)
                                 \/ Take(w)
                                 \/ TakeTime(w)
                                 \/ SetStamp(w)
                                 \/ Fail(w)
                                 \/ LoseProcess(w)

PoolSpec == PoolInit /\ [][PoolNext]_allVars

(* As FairSpec of SourceLock; the parent also kills heartbeats in time.    *)
PoolFairSpec ==
    /\ PoolSpec
    /\ WF_allVars(PoolTick)
    /\ \A w \in Worker : /\ WF_allVars(OtherTask(w) /\ TimeOut(w))
                         /\ WF_allVars(Fail(w) /\ beating[w].age = BeatLimit)

-----------------------------------------------------------------------------
(* _read_heartbeat *)

(* Stale one unit too early. *)
IsStaleEarly(s) == s.age >= StaleAfter

IsStale(s) == s.age > StaleAfter

Fresh == stamp # NoStamp /\ ~IsStale(stamp)

(* A scheduler that has sent nothing for StaleAfter and the time that its  *)
(* last heartbeat may take shows as stale or missing in /ready: no backlog *)
(* that busy processes work off later hides that "the scheduler has        *)
(* stalled".                                                               *)
StallShows == silent > StaleAfter + BeatLimit => ~Fresh

(* As long as every heartbeat is sent, taken in time and does not fail, it *)
(* never shows as stale, however slow the runs within their limit are and  *)
(* in whatever order their SETs arrive.                                    *)
NoFalseAlarm == calm >= BeatLimit + 2 => Fresh
=============================================================================
