--------------------------- MODULE CollectionRun ---------------------------
(***************************************************************************)
(* The collection pipeline (services/collection.py): a run loads a source, *)
(* fetches its feed with the stored validator, inserts what is new and     *)
(* updates the source, in three commits.                                   *)
(*                                                                         *)
(* Runs of different sources overlap and share the unique index on         *)
(* signal.content_hash; runs of one source overlap unless it is in Locked  *)
(* (the per-source lock is the caller's).  PostgreSQL makes an insert wait *)
(* while an uncommitted row of another run has one of its unique keys.     *)
(* The ORM writes a column only if its value differs from the loaded one.  *)
(*                                                                         *)
(* Texts are compared as compute_content_hash normalises them; etag and    *)
(* last_modified are one validator, the number of the version it names.    *)
(***************************************************************************)
EXTENDS SafeFetch, FiniteSets

CONSTANTS
    Runner,     \* runs that can be in progress at the same time
    Source,
    Feed,       \* Feed[s][v]: the entries of version v of source s
    Format,     \* "feed" (RSS, Atom) or "json"
    Validating, \* sources whose server sends a validator and answers 304
    Rejected,   \* entries the database refuses with another error than
                \* IntegrityError (an id of more than 500 characters)
    Locked,     \* sources whose lock every caller holds
    Reliable,   \* sources whose server answers every request with a feed or 304
    MayCrash,   \* whether a run's process can be lost
    Threshold,  \* FAILING_THRESHOLD
    Interval,   \* source.poll_interval_seconds
    MaxBackoff, \* MAX_BACKOFF_SECONDS
    MaxFailures,\* bound: a source that failed so often is not polled again
    Missing, Blank, Untitled, NoHash, NoSource

ASSUME FeedAssumption ==
    /\ Format \in [Source -> {"feed", "json"}]
    /\ \A s \in Source : DOMAIN Feed[s] \subseteq Nat \ {0}
    /\ \A s \in Source : \A v \in DOMAIN Feed[s] : Len(Feed[s][v]) \in Nat
    /\ Locked \subseteq Source /\ Reliable \subseteq Source /\ MayCrash \in BOOLEAN
    /\ \A s \in Source : 1 \in DOMAIN Feed[s]
    /\ Threshold \in Nat \ {0} /\ MaxFailures \in [Source -> Nat]
    /\ NoSource \notin Source

VARIABLES
    source,     \* table source, committed rows
    signals,    \* table signal, committed rows
    run,        \* what each runner is doing
    upstream,   \* the version each source's server has
    orphaned,   \* sources with a source_run row left "running" for good
    alerts      \* history: circuit warnings since the last success, 2 = several

vars == <<source, signals, run, upstream, orphaned, alerts>>

Versions(s) == DOMAIN Feed[s]

-----------------------------------------------------------------------------
(* What an adapter and the pipeline make of an entry. *)

Title(e) == IF e.title = Missing THEN Untitled ELSE e.title

(* external_url, which only a JSON item has, is a link but names nothing.  *)
Link(e) == IF e.url = Missing THEN e.external ELSE e.url

OwnName(e) == IF e.id = Missing THEN e.url ELSE e.id

ExternalId(s, e, k) ==
    CASE OwnName(e) # Missing -> OwnName(e)
      [] OwnName(e) = Missing /\ Format[s] = "feed" -> <<e.title, k>>
      [] OTHER -> <<"item", k>>

(* The title alone, and compute_content_hash. *)
ContentHashOfTitle(title, url) == IF title \in {Missing, Blank} THEN NoHash
                                  ELSE <<title, Missing>>

ContentHash(title, url) == IF title \in {Missing, Blank} /\ url = Missing
                           THEN NoHash ELSE <<title, url>>

(* The signal row of the k-th entry of version v. *)
SignalRow(s, v, k) ==
    LET e == Feed[s][v][k]
    IN  [source |-> s, entry |-> e, externalId |-> ExternalId(s, e, k),
         contentHash |-> ContentHash(Title(e), Link(e))]

(* uq_signal_source_external and uq_signal_content_hash; NULLs differ. *)
Clash(a, b) == \/ a.source = b.source /\ a.externalId = b.externalId
               \/ a.contentHash = b.contentHash /\ a.contentHash # NoHash

Taken(row, S) == \E x \in S : Clash(row, x)

HealthFor(f) == IF f = 0 THEN "healthy"
                ELSE IF f < Threshold THEN "degraded" ELSE "failing"

AtMost(n, m) == IF n <= m THEN n ELSE m

(* _next_poll_delay_seconds *)
PollDelay(f, failed) ==
    IF failed THEN AtMost(Interval * 2 ^ AtMost(f, 10), MaxBackoff) ELSE Interval

Rows == UNION {UNION {{SignalRow(s, v, k) : k \in 1..Len(Feed[s][v])} :
                      v \in Versions(s)} : s \in Source}

Failures == {0} \cup UNION {0..MaxFailures[s] : s \in Source}

SourceRow == [failures : Failures, health : {"healthy", "degraded", "failing"},
              etag : Nat, delay : {PollDelay(f, f > 0) : f \in Failures}]

NewSource == [failures |-> 0, health |-> "healthy", etag |-> 0, delay |-> Interval]

Phase == {"idle", "fetch", "persist", "update", "commit"}

(* loaded is the source row as the session has it since before the run,    *)
(* version what was fetched (0: nothing), at the entry to insert next.     *)
Run == [pc : Phase, source : Source \cup {NoSource}, loaded : SourceRow,
        version : Nat, at : Nat \ {0}, pending : SUBSET Rows, after : SourceRow]

Idle == [pc |-> "idle", source |-> NoSource, loaded |-> NewSource,
         version |-> 0, at |-> 1, pending |-> {}, after |-> NewSource]

TypeOK ==
    /\ source \in [Source -> SourceRow]
    /\ signals \subseteq Rows
    /\ run \in [Runner -> Run]
    /\ \A s \in Source : upstream[s] \in Versions(s)
    /\ orphaned \subseteq Source
    /\ alerts \in [Source -> 0..2]

Init ==
    /\ source = [s \in Source |-> NewSource]
    /\ signals = {}
    /\ run = [r \in Runner |-> Idle]
    /\ upstream = [s \in Source |-> 1]
    /\ orphaned = {}
    /\ alerts = [s \in Source |-> 0]

(* The server of s publishes another version of its feed. *)
Publish(s) ==
    /\ \E v \in Versions(s) \ {upstream[s]} :
          upstream' = [upstream EXCEPT ![s] = v]
    /\ UNCHANGED <<source, signals, run, orphaned, alerts>>

(* The source is loaded, the source_run row inserted and committed. *)
Start(r, s) ==
    /\ run[r].pc = "idle"
    /\ s \in Locked => \A o \in Runner : run[o].source # s
    /\ source[s].failures < MaxFailures[s]
    /\ run' = [run EXCEPT ![r] = [Idle EXCEPT !.pc = "fetch", !.source = s,
                                               !.loaded = source[s]]]
    /\ UNCHANGED <<source, signals, upstream, orphaned, alerts>>

(* The server answers 304 to the validator it gave for this version. *)
NotModified(r) == /\ run[r].source \in Validating
                  /\ run[r].loaded.etag = upstream[run[r].source]

(* safe_fetch on the way to it: a server that is up, on a public address.  *)
ServerAddress == [version |-> 4, range |-> "public", listed |-> FALSE,
                  embedded |-> "none"]

Reply(r) == [dns |-> {ServerAddress},
             answer |-> [status |-> IF NotModified(r) THEN 304 ELSE 200,
                         location |-> NoLocation, size |-> 0]]

Fetched(r) ==
    Fetch([scheme |-> "https", host |-> run[r].source, path |-> "feed"],
          [k \in 1..(MaxRedirects + 1) |-> Reply(r)])

FetchFeed(r) ==
    /\ run[r].pc = "fetch"
    /\ Fetched(r).outcome = "ok"
    /\ run' = [run EXCEPT ![r].pc = "persist",
                          ![r].version = upstream[run[r].source]]
    /\ UNCHANGED <<source, signals, upstream, orphaned, alerts>>

(* The server is up and safe_fetch raises all the same, for a 304, which   *)
(* is a redirect to it; the run goes on as one that failed.  A result with *)
(* not_modified set never comes out.                                       *)
FetchNotModified(r) ==
    /\ run[r].pc = "fetch"
    /\ Fetched(r).outcome # "ok"
    /\ run' = [run EXCEPT ![r].pc = "update"]
    /\ UNCHANGED <<source, signals, upstream, orphaned, alerts>>

(* No connection, no parsable feed, too large, no adapter. *)
FetchFails(r) ==
    /\ run[r].pc = "fetch"
    /\ run[r].source \notin Reliable
    /\ run' = [run EXCEPT ![r].pc = "update"]
    /\ UNCHANGED <<source, signals, upstream, orphaned, alerts>>

-----------------------------------------------------------------------------
(* _persist_item, each in a savepoint of the same transaction. *)

Entries(r) == Feed[run[r].source][run[r].version]

Inserting(r) == run[r].pc = "persist" /\ run[r].at <= Len(Entries(r))

NextRow(r) == SignalRow(run[r].source, run[r].version, run[r].at)

Waits(r, o) == /\ r # o
               /\ Inserting(r)
               /\ Taken(NextRow(r), run[o].pending)

Persist(r, rows) ==
    /\ run' = [run EXCEPT ![r].at = @ + 1, ![r].pending = @ \cup rows]
    /\ UNCHANGED <<source, signals, upstream, orphaned, alerts>>

InsertNew(r) ==
    /\ Inserting(r)
    /\ NextRow(r).entry \notin Rejected
    /\ ~Taken(NextRow(r), signals \cup run[r].pending)
    /\ \A o \in Runner : ~Waits(r, o)
    /\ Persist(r, {NextRow(r)})

(* A duplicate tried again. *)
InsertKnownRetries(r) ==
    /\ Inserting(r)
    /\ Taken(NextRow(r), signals \cup run[r].pending)
    /\ UNCHANGED vars

(* IntegrityError: the savepoint is rolled back, the loop goes on. *)
InsertKnown(r) ==
    /\ Inserting(r)
    /\ NextRow(r).entry \notin Rejected
    /\ Taken(NextRow(r), signals \cup run[r].pending)
    /\ Persist(r, {})

(* The run ends by an exception outside the try of run_collection, or with *)
(* its process: what was not committed is gone and the source_run row      *)
(* stays "running".                                                        *)
Lose(r) ==
    /\ run' = [run EXCEPT ![r] = Idle]
    /\ orphaned' = orphaned \cup {run[r].source}
    /\ UNCHANGED <<source, signals, upstream, alerts>>

(* Every database error taken for a duplicate. *)
InsertRejectedAsKnown(r) ==
    /\ Inserting(r)
    /\ NextRow(r).entry \in Rejected
    /\ Persist(r, {})

InsertRejected(r) ==
    /\ Inserting(r)
    /\ NextRow(r).entry \in Rejected
    /\ Lose(r)

Crash(r) ==
    /\ MayCrash
    /\ run[r].pc # "idle"
    /\ Lose(r)

(* Runs whose inserts wait for each other in a circle: PostgreSQL ends one *)
(* with an OperationalError, which is no IntegrityError.                   *)
Circle(S) == \A r \in S : /\ \E o \in S : Waits(r, o)
                          /\ \E o \in S : Waits(o, r)

BreakDeadlock(r) ==
    /\ \E S \in SUBSET Runner : r \in S /\ Circle(S)
    /\ Lose(r)

(* One commit after the last entry. *)
CommitItems(r) ==
    /\ run[r].pc = "persist"
    /\ run[r].at > Len(Entries(r))
    /\ signals' = signals \cup run[r].pending
    /\ run' = [run EXCEPT ![r].pc = "update", ![r].pending = {}]
    /\ UNCHANGED <<source, upstream, orphaned, alerts>>

-----------------------------------------------------------------------------
(* The ORM object of the source is updated and the warning logged ... *)
Failed(r) == run[r].version = 0

(* The new health taken from the old count. *)
OutcomeOfOldCount(r) ==
    [failures |-> IF Failed(r) THEN run[r].loaded.failures + 1 ELSE 0,
     health |-> HealthFor(run[r].loaded.failures),
     etag |-> run[r].loaded.etag,
     delay |-> PollDelay(run[r].loaded.failures, Failed(r))]

Outcome(r) ==
    LET s == run[r].source
        before == run[r].loaded
        failures == IF Failed(r) THEN before.failures + 1 ELSE 0
    IN  [failures |-> failures,
         health |-> HealthFor(failures),
         etag |-> IF Failed(r) \/ s \notin Validating
                  THEN before.etag ELSE run[r].version,
         delay |-> PollDelay(failures, Failed(r))]

(* The warning one failure late. *)
WarnsLate(r) == Outcome(r).failures = Threshold + 1

(* source_circuit_open *)
Warns(r) == Outcome(r).failures = Threshold

UpdateSource(r) ==
    /\ run[r].pc = "update"
    /\ run' = [run EXCEPT ![r].pc = "commit", ![r].after = Outcome(r)]
    /\ alerts' = IF Warns(r)
                 THEN [alerts EXCEPT ![run[r].source] = AtMost(@ + 1, 2)]
                 ELSE alerts
    /\ UNCHANGED <<source, signals, upstream, orphaned>>

(* The next poll counted from the one that was due instead of from now.    *)
WrittenFromDue(r) ==
    [run[r].after EXCEPT !.delay = @ + source[run[r].source].delay]

(* ... and committed, changed columns only, with the finished run row;     *)
(* next_poll_at is a new time in every run.                                *)
Written(r) ==
    LET old == run[r].loaded
        new == run[r].after
        now == source[run[r].source]
    IN  [failures |-> IF new.failures = old.failures THEN now.failures ELSE new.failures,
         health |-> IF new.health = old.health THEN now.health ELSE new.health,
         etag |-> IF new.etag = old.etag THEN now.etag ELSE new.etag,
         delay |-> new.delay]

CommitRun(r) ==
    /\ run[r].pc = "commit"
    /\ source' = [source EXCEPT ![run[r].source] = Written(r)]
    /\ alerts' = IF Failed(r) THEN alerts ELSE [alerts EXCEPT ![run[r].source] = 0]
    /\ run' = [run EXCEPT ![r] = Idle]
    /\ UNCHANGED <<signals, upstream, orphaned>>

-----------------------------------------------------------------------------
Advance(r) ==
    \/ FetchFeed(r)
    \/ FetchNotModified(r)
    \/ FetchFails(r)
    \/ InsertNew(r)
    \/ InsertKnown(r)
    \/ InsertRejected(r)
    \/ CommitItems(r)
    \/ UpdateSource(r)
    \/ CommitRun(r)

Next ==
    \/ \E s \in Source : Publish(s)
    \/ \E r \in Runner : \/ \E s \in Source : Start(r, s)
                         \/ Advance(r)
                         \/ BreakDeadlock(r)
                         \/ Crash(r)

Spec == Init /\ [][Next]_vars

(* The fetch has a timeout, the database answers and breaks deadlocks; an  *)
(* insert that waits is woken when the other transaction ends, but may     *)
(* find the key taken anew: strong fairness.                               *)
Fairness == \A r \in Runner : SF_vars(Advance(r)) /\ WF_vars(BreakDeadlock(r))

FairSpec == Spec /\ Fairness

-----------------------------------------------------------------------------
(* Properties *)

(* A validator is stored only after the entries it stands for: whatever    *)
(* overlaps, fails or crashes, no later 304 hides an entry that no stored  *)
(* signal accounts for.                                                    *)
StoredBeforeEtag ==
    \A s \in Source : source[s].etag # 0 =>
        \A k \in 1..Len(Feed[s][source[s].etag]) :
            Taken(SignalRow(s, source[s].etag, k), signals)

(* Every entry of a version whose validator is stored is kept: a signal of *)
(* the same source has its id (or url), or one of any source is a literal  *)
(* republication, the same title and link.  What else the keys merge is    *)
(* exactly this: two entries without title and link, which share the hash  *)
(* of "(untitled)" whatever their ids, and entries named by their position.*)
Bare(e) == Title(e) = Untitled /\ Link(e) = Missing

Republished(e, o) == /\ Title(e) = Title(o) /\ Link(e) = Link(o)
                     /\ ContentHash(Title(e), Link(e)) # NoHash
                     /\ ~Bare(e)

Kept(s, e) == \E x \in signals :
                 \/ x.source = s /\ OwnName(e) = OwnName(x.entry) /\ OwnName(e) # Missing
                 \/ Republished(e, x.entry)

MergedBare(e) == Bare(e) /\ \E x \in signals : Bare(x.entry)

MergedByPosition(s, e, k) ==
    \E x \in signals : /\ x.source = s /\ x.externalId = ExternalId(s, e, k)
                       /\ Missing \in {OwnName(e), OwnName(x.entry)}

EntriesKept ==
    \A s \in Source : source[s].etag # 0 =>
        \A k \in 1..Len(Feed[s][source[s].etag]) :
            LET e == Feed[s][source[s].etag][k]
            IN  Kept(s, e) \/ MergedBare(e) \/ MergedByPosition(s, e, k)

(* While runs of a source exclude each other, its health and backoff are   *)
(* those of its failure count, although only changed columns are written   *)
(* and runs are lost anywhere.                                             *)
SourceRowAgrees ==
    \A s \in Locked :
        /\ source[s].health = HealthFor(source[s].failures)
        /\ source[s].delay = PollDelay(source[s].failures, source[s].failures > 0)

(* An operator has been warned of every locked source that is failing: a   *)
(* crash before the commit repeats the warning and never loses it.  The    *)
(* warning "fires once on the transition into failing": not again until    *)
(* the source has recovered, unless a run was lost with its commit.        *)
FailingReportedOnce ==
    \A s \in Locked : /\ source[s].failures >= Threshold => alerts[s] > 0
                      /\ alerts[s] > 1 => s \in orphaned

(* A source whose server has answered every request is healthy: a 304 is   *)
(* "correct behaviour, not a failure".                                     *)
OnlyOutagesDegrade == \A s \in Reliable : source[s].health = "healthy"

(* A source_run row that says "running" belongs to a run in progress.      *)
RunningIsInProgress == orphaned = {}

(* safe_fetch checks the address it connects to at every hop, whatever the *)
(* resolver and the servers on the way say, and its result is the last     *)
(* answer, within the limits.  It keeps nothing between calls, so that its *)
(* journeys are tried once: when the first run has started.                *)
FirstFetch(r) == /\ run[r].pc = "fetch"
                 /\ \A o \in Runner \ {r} : run[o] = Idle
                 /\ source = [s \in Source |-> NewSource]
                 /\ upstream = [s \in Source |-> 1]
                 /\ signals = {} /\ orphaned = {}

EveryFetchIsSound ==
    (\E r \in Runner : FirstFetch(r)) =>
        \A u \in StartUrl, j \in Journeys : ChecksEveryHop(u, j) /\ FinalAnswer(u, j)

(* Every run ends: inserts that wait for another run's rows included.      *)
RunsEnd == \A r \in Runner : (run[r].pc # "idle") ~> (run[r].pc = "idle")
=============================================================================
