------------------------ MODULE CollectionRunProofs ------------------------
(***************************************************************************)
(* Theorems about CollectionRun, for any feeds, any number of runs and     *)
(* sources, overlapping or not, with losses anywhere.                      *)
(***************************************************************************)
EXTENDS CollectionRun, FiniteSetTheorems, SequenceTheorems, WellFoundedInduction, TLAPS

(* All entries of version v of s are accounted for in S. *)
Stored(s, v, S) ==
    v # 0 => /\ v \in Versions(s)
             /\ \A k \in 1..Len(Feed[s][v]) : Taken(SignalRow(s, v, k), S)

(* What run x has established in its phase, S being the committed signals. *)
Shape(x) ==
    /\ x.pc # "idle" => x.source \in Source /\ x.loaded.failures < MaxFailures[x.source]
    /\ x.pc = "persist" => x.version \in Versions(x.source)
    /\ x.pc = "fetch" => x.version = 0 /\ x.at = 1

Persisted(x, S) ==
    \A k \in 1..Len(Feed[x.source][x.version]) :
        k < x.at => Taken(SignalRow(x.source, x.version, k), S \cup x.pending)

Progress(x, S) ==
    /\ x.pc = "persist" => Persisted(x, S)
    /\ x.pc = "update" => Stored(x.source, x.version, S)
    /\ x.pc # "idle" => Stored(x.source, x.loaded.etag, S)
    /\ x.pc = "commit" => Stored(x.source, x.after.etag, S)

IInv ==
    /\ TypeOK
    /\ \A r \in Runner : Shape(run[r]) /\ Progress(run[r], signals)
    /\ \A s \in Source : Stored(s, source[s].etag, signals)

-----------------------------------------------------------------------------
(* More signals account for no fewer entries. *)
LEMMA TakenGrows ==
  ASSUME NEW row, NEW S, NEW T, S \subseteq T, Taken(row, S)
  PROVE  Taken(row, T)
BY DEF Taken

(* A row accounts for itself. *)
LEMMA TakenBySelf ==
  ASSUME NEW row, NEW S, row \in S
  PROVE  Taken(row, S)
BY DEF Taken, Clash

(* Likewise for a version and for a run. *)
LEMMA StoredGrows ==
  ASSUME NEW s, NEW v, NEW S, NEW T, S \subseteq T, Stored(s, v, S)
  PROVE  Stored(s, v, T)
BY TakenGrows DEF Stored

LEMMA ProgressGrows ==
  ASSUME NEW x, NEW S, NEW T, S \subseteq T, Progress(x, S)
  PROVE  Progress(x, T)
<1>1. S \cup x.pending \subseteq T \cup x.pending
  OBVIOUS
<1>2. Persisted(x, S) => Persisted(x, T)
  BY <1>1, TakenGrows DEF Persisted
<1> QED  BY <1>2, StoredGrows DEF Progress

(* A count below a source's bound may go up by one. *)
LEMMA FailuresGrow ==
  ASSUME NEW s \in Source, NEW n \in Nat, n < MaxFailures[s]
  PROVE  n + 1 \in Failures
<1>1. MaxFailures[s] \in Nat
  BY FeedAssumption
<1>2. n + 1 \in 0..MaxFailures[s]
  BY <1>1
<1> QED  BY <1>2 DEF Failures

(* Failures are numbers. *)
LEMMA FailuresNat == Failures \subseteq Nat /\ 0 \in Failures
BY FeedAssumption DEF Failures

(* A new source is a source row. *)
LEMMA NewSourceType == NewSource \in SourceRow
<1>1. 0 \in Failures /\ ~(0 > 0)
  BY FailuresNat
<1>2. PollDelay(0, 0 > 0) = Interval
  BY <1>1 DEF PollDelay
<1>3. Interval \in {PollDelay(f, f > 0) : f \in Failures}
  BY <1>1, <1>2
<1> QED  BY <1>1, <1>3 DEF NewSource, SourceRow

(* An idle runner has a runner's fields and has established nothing. *)
LEMMA IdleFacts == /\ Idle \in Run
                   /\ Shape(Idle)
                   /\ \A S : Progress(Idle, S)
BY NewSourceType DEF Idle, Run, Phase, Shape, Progress

(* The initial state satisfies the invariant. *)
LEMMA InitInv == Init => IInv
<1> SUFFICES ASSUME Init PROVE IInv
  OBVIOUS
<1>1. TypeOK
  BY NewSourceType, IdleFacts, FeedAssumption DEF Init, TypeOK, Versions
<1>2. \A r \in Runner : Shape(run[r]) /\ Progress(run[r], signals)
  BY IdleFacts DEF Init
<1>3. \A s \in Source : Stored(s, source[s].etag, signals)
  BY DEF Init, Stored, NewSource
<1> QED  BY <1>1, <1>2, <1>3 DEF IInv

(* A step of one run preserves the invariant if its new record x has the   *)
(* shape of its phase and no signal is lost.                               *)
LEMMA StepInv ==
  ASSUME IInv, NEW r \in Runner, NEW x \in Run,
         run' = [run EXCEPT ![r] = x],
         Shape(x), Progress(x, signals'),
         signals \subseteq signals', signals' \subseteq Rows,
         source' \in [Source -> SourceRow], upstream' = upstream,
         orphaned' \subseteq Source,
         alerts' \in [Source -> 0..2],
         \A s \in Source : Stored(s, source'[s].etag, signals')
  PROVE  IInv'
<1>1. TypeOK'
  BY DEF IInv, TypeOK, Versions
<1>2. ASSUME NEW o \in Runner PROVE Shape(run'[o]) /\ Progress(run'[o], signals')
  <2>1. CASE o = r
    BY <2>1 DEF IInv, TypeOK
  <2>2. CASE o # r
    <3>1. run'[o] = run[o]
      BY <2>2 DEF IInv, TypeOK
    <3>2. Shape(run[o]) /\ Progress(run[o], signals)
      BY DEF IInv
    <3>3. Progress(run[o], signals')
      BY <3>2, ProgressGrows
    <3> QED  BY <3>1, <3>2, <3>3
  <2> QED  BY <2>1, <2>2
<1> QED  BY <1>1, <1>2 DEF IInv

(* ... in particular if it touches no table. *)
LEMMA LocalStep ==
  ASSUME IInv, NEW r \in Runner, NEW x \in Run,
         run' = [run EXCEPT ![r] = x],
         Shape(x), Progress(x, signals),
         UNCHANGED <<source, signals, upstream>>,
         orphaned' \subseteq Source,
         alerts' \in [Source -> 0..2]
  PROVE  IInv'
BY StepInv DEF IInv, TypeOK

(* A fetched version's next row is a row of the feeds. *)
LEMMA NextRowType ==
  ASSUME IInv, NEW r \in Runner, Inserting(r)
  PROVE  NextRow(r) \in Rows
<1>1. /\ run[r].source \in Source
      /\ run[r].version \in Versions(run[r].source)
  BY DEF IInv, Shape, Inserting
<1>2. run[r].at \in 1..Len(Feed[run[r].source][run[r].version])
  BY <1>1, FeedAssumption DEF IInv, TypeOK, Inserting, Entries, Run, Versions
<1> QED  BY <1>1, <1>2 DEF NextRow, Rows

(* The server publishes. *)
LEMMA PublishInv == ASSUME IInv, NEW s \in Source, Publish(s) PROVE IInv'
<1>1. TypeOK'
  BY DEF IInv, TypeOK, Publish, Versions
<1> QED  BY <1>1 DEF IInv, Publish

(* A run starts. *)
LEMMA StartInv ==
  ASSUME IInv, NEW r \in Runner, NEW s \in Source, Start(r, s) PROVE IInv'
<1> DEFINE x == [Idle EXCEPT !.pc = "fetch", !.source = s, !.loaded = source[s]]
<1>1. x \in Run
  BY IdleFacts DEF IInv, TypeOK, Run, Phase, Idle
<1>2. Shape(x)
  BY DEF Shape, Idle, Start
<1>3. Progress(x, signals)
  BY DEF Progress, Idle, IInv
<1> QED
  BY <1>1, <1>2, <1>3, LocalStep DEF Start, IInv, TypeOK

(* The fetch, whatever it brings. *)
LEMMA FetchInv ==
  ASSUME IInv, NEW r \in Runner,
         FetchFeed(r) \/ FetchNotModified(r) \/ FetchFails(r)
  PROVE  IInv'
<1>1. run[r] \in Run /\ run[r].pc = "fetch" /\ run[r].source \in Source
  BY DEF IInv, TypeOK, Shape, FetchFeed, FetchNotModified, FetchFails
<1>2. Shape(run[r]) /\ Progress(run[r], signals)
  BY DEF IInv
<1>3. CASE FetchFeed(r)
  <2> DEFINE v == upstream[run[r].source]
             x == [run[r] EXCEPT !.pc = "persist", !.version = v]
  <2>1. v \in Versions(run[r].source) /\ v \in Nat
    BY <1>1, FeedAssumption DEF IInv, TypeOK, Versions
  <2> HIDE DEF v
  <2>2. x \in Run
    BY <1>1, <2>1 DEF Run, Phase
  <2>3. Shape(x)
    BY <1>1, <1>2, <2>1 DEF Shape, Run
  <2>4. Progress(x, signals)
    <3>1. Persisted(x, signals)
      BY <1>1, <1>2, FeedAssumption, <2>1 DEF Persisted, Shape, Run, Versions
    <3> QED  BY <1>1, <1>2, <3>1 DEF Progress, Run
  <2> QED  BY <1>3, <2>2, <2>3, <2>4, LocalStep DEF FetchFeed, IInv, TypeOK, v
<1>4. CASE FetchNotModified(r) \/ FetchFails(r)
  <2> DEFINE x == [run[r] EXCEPT !.pc = "update"]
  <2>1. x \in Run /\ Shape(x)
    BY <1>1, <1>2 DEF Run, Phase, Shape
  <2>2. Progress(x, signals)
    BY <1>1, <1>2 DEF Progress, Shape, Stored, Run
  <2>3. run' = [run EXCEPT ![r] = x]
    BY <1>4 DEF FetchNotModified, FetchFails
  <2> QED
    BY <1>1, <1>4, <2>1, <2>2, <2>3, LocalStep
       DEF FetchNotModified, FetchFails, IInv, TypeOK
<1> QED  BY <1>3, <1>4

(* One entry: inserted or already there, it is accounted for afterwards. *)
LEMMA InsertInv ==
  ASSUME IInv, NEW r \in Runner, InsertNew(r) \/ InsertKnown(r)
  PROVE  IInv'
<1>1. /\ run[r] \in Run /\ run[r].pc = "persist" /\ run[r].source \in Source
      /\ Shape(run[r]) /\ Progress(run[r], signals)
  BY DEF IInv, TypeOK, Shape, InsertNew, InsertKnown, Inserting
<1>2. PICK rows \in {{NextRow(r)}, {}} :
         /\ Persist(r, rows)
         /\ Taken(NextRow(r), signals \cup (run[r].pending \cup rows))
  BY TakenBySelf DEF InsertNew, InsertKnown
<1> DEFINE x == [run[r] EXCEPT !.at = @ + 1, !.pending = @ \cup rows]
<1>3. rows \subseteq Rows
  BY <1>2, NextRowType DEF InsertNew, InsertKnown
<1>4. x \in Run /\ Shape(x)
  <2>1. run[r].at + 1 \in Nat \ {0} /\ run[r].pending \cup rows \in SUBSET Rows
    BY <1>1, <1>3 DEF Run
  <2> QED  BY <1>1, <2>1 DEF Run, Shape
<1>5. Persisted(x, signals)
  <2> SUFFICES ASSUME NEW k \in 1..Len(Feed[x.source][x.version]), k < x.at
               PROVE  Taken(SignalRow(x.source, x.version, k), signals \cup x.pending)
    BY DEF Persisted
  <2>1. /\ x.source = run[r].source /\ x.version = run[r].version
        /\ x.pending = run[r].pending \cup rows /\ x.at = run[r].at + 1
    BY <1>1 DEF Run
  <2>2. CASE k = run[r].at
    BY <1>2, <2>1, <2>2 DEF NextRow
  <2>3. CASE k < run[r].at
    <3>1. Taken(SignalRow(x.source, x.version, k), signals \cup run[r].pending)
      BY <1>1, <2>1, <2>3 DEF Progress, Persisted
    <3> QED  BY <2>1, <3>1, TakenGrows
  <2>4. k \in Int /\ run[r].at \in Int
    BY <1>1 DEF Run
  <2> QED  BY <2>1, <2>2, <2>3, <2>4
<1>6. Progress(x, signals)
  BY <1>1, <1>5 DEF Progress, Run
<1>7. run' = [run EXCEPT ![r] = x]
  BY <1>1, <1>2 DEF Persist
<1> QED
  BY <1>2, <1>4, <1>6, <1>7, LocalStep DEF Persist, IInv, TypeOK

(* The commit of the items. *)
LEMMA CommitItemsInv ==
  ASSUME IInv, NEW r \in Runner, CommitItems(r)
  PROVE  IInv'
<1>1. /\ run[r] \in Run /\ run[r].pc = "persist" /\ run[r].source \in Source
      /\ Shape(run[r]) /\ Progress(run[r], signals)
  BY DEF IInv, TypeOK, Shape, CommitItems
<1> DEFINE x == [run[r] EXCEPT !.pc = "update", !.pending = {}]
<1>2. x \in Run /\ Shape(x)
  BY <1>1 DEF Run, Phase, Shape
<1>3. Stored(x.source, x.version, signals')
  <2>1. /\ x.source = run[r].source /\ x.version = run[r].version
        /\ run[r].at \in Int /\ Len(Entries(r)) \in Int
    BY <1>1, FeedAssumption DEF Run, Entries, Shape, Versions
  <2>2. run[r].version \in Versions(run[r].source)
    BY <1>1 DEF Shape
  <2>3. ASSUME NEW k \in 1..Len(Feed[run[r].source][run[r].version])
        PROVE  Taken(SignalRow(run[r].source, run[r].version, k), signals')
    <3>1. k < run[r].at
      BY <2>1 DEF CommitItems, Entries
    <3>2. signals' = signals \cup run[r].pending
      BY DEF CommitItems
    <3> QED  BY <1>1, <3>1, <3>2 DEF Progress, Persisted
  <2> QED  BY <2>1, <2>2, <2>3 DEF Stored
<1>4. Progress(x, signals')
  <2>1. Stored(x.source, x.loaded.etag, signals')
    BY <1>1, StoredGrows DEF Progress, CommitItems, Run
  <2> QED  BY <1>1, <1>3, <2>1 DEF Progress, Run
<1>5. /\ signals \subseteq signals' /\ signals' \subseteq Rows
      /\ run' = [run EXCEPT ![r] = x]
  BY <1>1 DEF CommitItems, IInv, TypeOK, Run
<1>6. \A s \in Source : Stored(s, source[s].etag, signals')
  BY <1>5, StoredGrows DEF IInv
<1> QED
  BY <1>2, <1>4, <1>5, <1>6, StepInv DEF CommitItems, IInv, TypeOK

(* The outcome is a source row with a validator that is accounted for. *)
LEMMA OutcomeFacts ==
  ASSUME IInv, NEW r \in Runner, run[r].pc = "update"
  PROVE  /\ Outcome(r) \in SourceRow
         /\ Stored(run[r].source, Outcome(r).etag, signals)
<1>1. /\ run[r] \in Run /\ run[r].loaded \in SourceRow
      /\ Shape(run[r]) /\ Progress(run[r], signals)
  BY DEF IInv, TypeOK, Run
<1> DEFINE f == IF Failed(r) THEN run[r].loaded.failures + 1 ELSE 0
<1>2. f \in Failures /\ (Failed(r) <=> f > 0)
  <2>1. run[r].loaded.failures \in Nat /\ run[r].loaded.failures < MaxFailures[run[r].source]
        /\ run[r].source \in Source
    BY <1>1, FailuresNat DEF SourceRow, Shape
  <2> QED  BY <2>1, FailuresGrow, FailuresNat
<1>3. PollDelay(f, Failed(r)) = PollDelay(f, f > 0)
  BY <1>2 DEF PollDelay
<1>4. PollDelay(f, Failed(r)) \in {PollDelay(g, g > 0) : g \in Failures}
  BY <1>2, <1>3
<1>5. HealthFor(f) \in {"healthy", "degraded", "failing"}
  BY DEF HealthFor
<1>6. /\ Outcome(r).etag \in {run[r].loaded.etag, run[r].version}
      /\ Outcome(r).etag \in Nat
  BY <1>1 DEF Outcome, Run, SourceRow
<1> HIDE DEF f
<1>7. Outcome(r) = [failures |-> f, health |-> HealthFor(f),
                    etag |-> Outcome(r).etag, delay |-> PollDelay(f, Failed(r))]
  BY DEF Outcome, f
<1>8. Outcome(r) \in SourceRow
  BY <1>2, <1>4, <1>5, <1>6, <1>7 DEF SourceRow
<1>9. Stored(run[r].source, Outcome(r).etag, signals)
  BY <1>1, <1>6 DEF Progress
<1> QED  BY <1>8, <1>9

(* The update of the loaded source. *)
LEMMA UpdateInv ==
  ASSUME IInv, NEW r \in Runner, UpdateSource(r)
  PROVE  IInv'
<1>1. /\ run[r] \in Run /\ run[r].pc = "update" /\ run[r].source \in Source
      /\ Shape(run[r]) /\ Progress(run[r], signals)
  BY DEF IInv, TypeOK, Shape, UpdateSource
<1> DEFINE x == [run[r] EXCEPT !.pc = "commit", !.after = Outcome(r)]
<1>2. x \in Run /\ Shape(x)
  BY <1>1, OutcomeFacts DEF Run, Phase, Shape
<1>3. Progress(x, signals)
  BY <1>1, OutcomeFacts DEF Progress, Run
<1>4. alerts' \in [Source -> 0..2]
  BY <1>1 DEF UpdateSource, IInv, TypeOK, AtMost
<1> QED
  BY <1>2, <1>3, <1>4, LocalStep DEF UpdateSource, IInv, TypeOK

(* The commit of the source. *)
LEMMA CommitRunInv ==
  ASSUME IInv, NEW r \in Runner, CommitRun(r)
  PROVE  IInv'
<1>1. /\ run[r] \in Run /\ run[r].pc = "commit" /\ run[r].source \in Source
      /\ Shape(run[r]) /\ Progress(run[r], signals)
  BY DEF IInv, TypeOK, Shape, CommitRun
<1>2. Written(r) \in SourceRow
  BY <1>1 DEF Written, SourceRow, IInv, TypeOK, Run
<1>3. Stored(run[r].source, Written(r).etag, signals)
  BY <1>1 DEF Written, Progress, IInv
<1>4. \A s \in Source : Stored(s, source'[s].etag, signals)
  BY <1>1, <1>3 DEF CommitRun, IInv, TypeOK
<1>5. alerts' \in [Source -> 0..2] /\ source' \in [Source -> SourceRow]
  BY <1>1, <1>2 DEF CommitRun, IInv, TypeOK
<1> QED
  BY <1>4, <1>5, IdleFacts, StepInv DEF CommitRun, IInv, TypeOK

(* A run that is lost leaves the tables as they are. *)
LEMMA LoseInv ==
  ASSUME IInv, NEW r \in Runner, run[r].pc # "idle", Lose(r)
  PROVE  IInv'
<1>1. run[r].source \in Source
  BY DEF IInv, Shape
<1> QED
  BY <1>1, IdleFacts, LocalStep DEF Lose, IInv, TypeOK

(* Every step preserves the invariant. *)
LEMMA NextInv == IInv /\ [Next]_vars => IInv'
<1> SUFFICES ASSUME IInv, [Next]_vars PROVE IInv'
  OBVIOUS
<1>1. CASE \E s \in Source : Publish(s)
  BY <1>1, PublishInv
<1>2. ASSUME NEW r \in Runner, NEW s \in Source, Start(r, s) PROVE IInv'
  BY <1>2, StartInv
<1>3. ASSUME NEW r \in Runner, Advance(r) PROVE IInv'
  <2>1. CASE FetchFeed(r) \/ FetchNotModified(r) \/ FetchFails(r)
    BY <2>1, FetchInv
  <2>2. CASE InsertNew(r) \/ InsertKnown(r)
    BY <2>2, InsertInv
  <2>3. CASE InsertRejected(r)
    BY <2>3, LoseInv DEF InsertRejected, Inserting
  <2>4. CASE CommitItems(r)
    BY <2>4, CommitItemsInv
  <2>5. CASE UpdateSource(r)
    BY <2>5, UpdateInv
  <2>6. CASE CommitRun(r)
    BY <2>6, CommitRunInv
  <2> QED  BY <1>3, <2>1, <2>2, <2>3, <2>4, <2>5, <2>6 DEF Advance
<1>4. ASSUME NEW r \in Runner, BreakDeadlock(r) PROVE IInv'
  BY <1>4, LoseInv DEF BreakDeadlock, Circle, Waits, Inserting
<1>5. ASSUME NEW r \in Runner, Crash(r) PROVE IInv'
  BY <1>5, LoseInv DEF Crash
<1>6. CASE UNCHANGED vars
  <2>1. TypeOK'
    BY <1>6 DEF vars, IInv, TypeOK, Versions
  <2> QED  BY <1>6, <2>1 DEF vars, IInv
<1> QED
  BY <1>1, <1>2, <1>3, <1>4, <1>5, <1>6 DEF Next

(* The invariant holds of every behaviour. *)
LEMMA SpecInv == Spec => []IInv
  BY InitInv, NextInv, PTL DEF Spec

(* The tables and the runs keep their types. *)
THEOREM TypeCorrect == Spec => []TypeOK
<1>1. IInv => TypeOK
  BY DEF IInv
<1> QED  BY <1>1, SpecInv, PTL

(* run_collection commits a validator only after the entries it stands     *)
(* for: for any feeds, overlaps, deadlocks, rejected entries and crashes.  *)
THEOREM EtagNeverAhead == Spec => []StoredBeforeEtag
<1>1. IInv => StoredBeforeEtag
  BY DEF IInv, Stored, StoredBeforeEtag
<1> QED  BY <1>1, SpecInv, PTL

(* What a stored signal that clashes with an entry's row says of the two:  *)
(* the same id (or url), the same story, two bare ones, or a position.     *)
LEMMA ClashMeans ==
  ASSUME NEW s \in Source, NEW v \in Versions(s), NEW k \in 1..Len(Feed[s][v]),
         signals \subseteq Rows, NEW y \in signals, Clash(SignalRow(s, v, k), y)
  PROVE  LET e == Feed[s][v][k]
         IN  Kept(s, e) \/ MergedBare(e) \/ MergedByPosition(s, e, k)
<1> DEFINE e == Feed[s][v][k]
<1>1. PICK t \in Source : \E w \in Versions(t) : \E j \in 1..Len(Feed[t][w]) :
         y = SignalRow(t, w, j)
  BY DEF Rows
<1>2. PICK w, j :
      /\ y.source = t /\ y.entry = Feed[t][w][j]
      /\ y.externalId = ExternalId(t, y.entry, j)
      /\ y.contentHash = ContentHash(Title(y.entry), Link(y.entry))
  BY <1>1 DEF SignalRow
<1>3. \/ s = t /\ ExternalId(s, e, k) = y.externalId
      \/ /\ ContentHash(Title(e), Link(e)) = y.contentHash
         /\ y.contentHash # NoHash
  BY <1>2 DEF Clash, SignalRow
<1>4. CASE s = t /\ ExternalId(s, e, k) = y.externalId
  <2>1. CASE Missing \in {OwnName(e), OwnName(y.entry)}
    BY <1>2, <1>4, <2>1 DEF MergedByPosition
  <2>2. CASE Missing \notin {OwnName(e), OwnName(y.entry)}
    <3>1. /\ ExternalId(s, e, k) = OwnName(e)
          /\ ExternalId(t, y.entry, j) = OwnName(y.entry)
      BY <2>2 DEF ExternalId
    <3> QED  BY <1>2, <1>4, <2>2, <3>1 DEF Kept
  <2> QED  BY <2>1, <2>2
<1>5. CASE /\ ContentHash(Title(e), Link(e)) = y.contentHash
           /\ y.contentHash # NoHash
  <2>1. Title(e) = Title(y.entry) /\ Link(e) = Link(y.entry)
    BY <1>2, <1>5 DEF ContentHash
  <2>2. CASE Bare(e)
    BY <2>1, <2>2 DEF MergedBare, Bare
  <2>3. CASE ~Bare(e)
    BY <1>5, <2>1, <2>3 DEF Kept, Republished
  <2> QED  BY <2>2, <2>3
<1> QED  BY <1>3, <1>4, <1>5

(* Whatever the feeds, an entry of a version whose validator is stored is  *)
(* kept, but for the two mergers that EntriesKept names.                   *)
THEOREM DedupeMergesNothingElse == Spec => []EntriesKept
<1>1. IInv => EntriesKept
  <2> SUFFICES ASSUME IInv, NEW s \in Source, source[s].etag # 0,
                      NEW k \in 1..Len(Feed[s][source[s].etag])
               PROVE  LET e == Feed[s][source[s].etag][k]
                      IN  Kept(s, e) \/ MergedBare(e) \/ MergedByPosition(s, e, k)
    BY DEF EntriesKept
  <2>1. /\ source[s].etag \in Versions(s)
        /\ Taken(SignalRow(s, source[s].etag, k), signals)
    BY DEF IInv, Stored
  <2>2. PICK y \in signals : Clash(SignalRow(s, source[s].etag, k), y)
    BY <2>1 DEF Taken
  <2>3. signals \subseteq Rows
    BY DEF IInv, TypeOK
  <2> QED  BY <2>1, <2>2, <2>3, ClashMeans
<1> QED  BY <1>1, SpecInv, PTL

-----------------------------------------------------------------------------
(* Sources whose runs exclude each other.                                  *)

Agrees(row) == /\ row.health = HealthFor(row.failures)
               /\ row.delay = PollDelay(row.failures, row.failures > 0)

(* What a run that is about to commit has made of the source.              *)
Judged(x) == /\ Agrees(x.after)
             /\ x.after.failures > 0 <=> x.version = 0
             /\ x.after.failures \in {0, x.loaded.failures + 1}
             /\ x.after.failures >= Threshold => alerts[x.source] > 0

OneRun == \A r, o \in Runner : run[r].source \in Locked
                                /\ run[o].source = run[r].source => r = o

(* The row a run of a locked source has loaded is still the committed one. *)
FreshRuns == \A r \in Runner : run[r].source \in Locked =>
                /\ run[r].loaded = source[run[r].source]
                /\ run[r].pc = "commit" => Judged(run[r])

(* The warning belongs to a failing row, or to a run about to commit one.  *)
Pending(s) == \E r \in Runner : /\ run[r].source = s
                                 /\ run[r].pc = "commit"
                                 /\ run[r].after.failures >= Threshold

Reported(s) ==
    /\ source[s].failures >= Threshold => alerts[s] > 0
    /\ s \notin orphaned => /\ alerts[s] <= 1
                            /\ alerts[s] = 1 => \/ source[s].failures >= Threshold
                                                \/ Pending(s)

LInv == /\ IInv
        /\ OneRun
        /\ FreshRuns
        /\ \A s \in Locked : Agrees(source[s]) /\ Reported(s)

(* The initial state. *)
LEMMA InitLocked == Init => LInv
<1> SUFFICES ASSUME Init PROVE LInv
  OBVIOUS
<1>1. IInv
  BY InitInv
<1>2. \A r \in Runner : run[r].source \notin Locked
  BY FeedAssumption DEF Init, Idle
<1>3. ASSUME NEW s \in Locked PROVE Agrees(source[s]) /\ Reported(s)
  <2>1. source[s] = NewSource /\ alerts[s] = 0 /\ s \in Source
    BY FeedAssumption DEF Init
  <2> QED  BY <2>1, FeedAssumption DEF Agrees, Reported, NewSource, HealthFor, PollDelay
<1> QED  BY <1>1, <1>2, <1>3 DEF LInv, OneRun, FreshRuns

(* A step inside a run: tables and what the run has loaded stay.           *)
LEMMA InnerStep ==
  ASSUME LInv, IInv', NEW r \in Runner,
         \A o \in Runner \ {r} : run'[o] = run[o],
         run'[r].source = run[r].source, run'[r].loaded = run[r].loaded,
         run[r].pc # "commit", run'[r].pc # "commit",
         source' = source, alerts' = alerts, orphaned' = orphaned
  PROVE  LInv'
<1>1. ASSUME NEW o \in Runner
      PROVE  /\ run'[o].source = run[o].source
             /\ run'[o].loaded = run[o].loaded
             /\ run[o].pc = "commit" <=> run'[o].pc = "commit"
             /\ run[o].pc = "commit" => run'[o] = run[o]
  <2>1. CASE o = r
    BY <2>1
  <2>2. CASE o # r
    BY <2>2
  <2> QED  BY <2>1, <2>2
<1>2. OneRun'
  BY <1>1 DEF LInv, OneRun
<1>3. FreshRuns'
  BY <1>1 DEF LInv, FreshRuns, Judged
<1>4. \A s \in Locked : Pending(s) <=> Pending(s)'
  BY <1>1 DEF Pending
<1> QED  BY <1>2, <1>3, <1>4 DEF LInv, Reported

(* A run starts: no other of a locked source is under way. *)
LEMMA StartLocked ==
  ASSUME LInv, IInv', NEW r \in Runner, NEW s \in Source, Start(r, s) PROVE LInv'
<1>1. /\ run'[r].source = s /\ run'[r].loaded = source[s] /\ run'[r].pc = "fetch"
      /\ \A o \in Runner \ {r} : run'[o] = run[o]
      /\ source' = source /\ alerts' = alerts /\ orphaned' = orphaned
  BY DEF Start, LInv, IInv, TypeOK, Idle
<1>2. OneRun'
  BY <1>1 DEF LInv, OneRun, Start
<1>3. FreshRuns'
  BY <1>1 DEF LInv, FreshRuns, Judged
<1>4. \A t \in Locked : Pending(t) => Pending(t)'
  <2> SUFFICES ASSUME NEW t \in Locked, NEW o \in Runner, run[o].source = t,
                      run[o].pc = "commit", run[o].after.failures >= Threshold
               PROVE  Pending(t)'
    BY DEF Pending
  <2>1. o # r
    BY DEF Start
  <2> QED  BY <1>1, <2>1 DEF Pending
<1> QED  BY <1>1, <1>2, <1>3, <1>4 DEF LInv, Reported

(* The outcome of a run of a locked source follows its count. *)
LEMMA OutcomeAgrees ==
  ASSUME NEW r \in Runner, run[r].loaded.failures \in Nat
  PROVE  /\ Agrees(Outcome(r))
         /\ Outcome(r).failures > 0 <=> run[r].version = 0
         /\ Outcome(r).failures \in {0, run[r].loaded.failures + 1}
BY DEF Agrees, Outcome, PollDelay, Failed

(* The judgement: the warning comes with the count that reaches Threshold. *)
LEMMA UpdateLocked ==
  ASSUME LInv, IInv', NEW r \in Runner, UpdateSource(r) PROVE LInv'
<1> DEFINE s == run[r].source
<1>1. /\ run[r] \in Run /\ s \in Source /\ run[r].pc = "update"
      /\ run[r].loaded.failures \in Nat /\ alerts[s] \in 0..2
      /\ Threshold \in Nat \ {0}
  BY FailuresNat, FeedAssumption DEF LInv, IInv, TypeOK, Shape, UpdateSource, Run, SourceRow
<1>2. /\ run'[r] = [run[r] EXCEPT !.pc = "commit", !.after = Outcome(r)]
      /\ \A o \in Runner \ {r} : run'[o] = run[o]
      /\ source' = source /\ orphaned' = orphaned
  BY DEF UpdateSource, LInv, IInv, TypeOK
<1>3. /\ run'[r].source = s /\ run'[r].loaded = run[r].loaded
      /\ run'[r].version = run[r].version
      /\ run'[r].pc = "commit" /\ run'[r].after = Outcome(r)
  BY <1>1, <1>2 DEF Run
<1>4. /\ \A t \in Source \ {s} : alerts'[t] = alerts[t]
      /\ Warns(r) => alerts'[s] = AtMost(alerts[s] + 1, 2)
      /\ ~Warns(r) => alerts'[s] = alerts[s]
      /\ \A t \in Source : alerts[t] > 0 => alerts'[t] > 0
  <2>1. alerts \in [Source -> 0..2]
    BY DEF LInv, IInv, TypeOK
  <2> QED  BY <1>1, <2>1 DEF UpdateSource, AtMost
<1>5. OneRun'
  BY <1>2, <1>3 DEF LInv, OneRun
<1>6. ASSUME s \in Locked
      PROVE  /\ run[r].loaded = source[s]
             /\ Outcome(r).failures >= Threshold => alerts'[s] > 0
  <2>1. run[r].loaded = source[s] /\ Reported(s)
    BY <1>6 DEF LInv, FreshRuns
  <2>2. CASE Warns(r)
    BY <1>1, <1>4, <2>1, <2>2 DEF AtMost
  <2>3. CASE ~Warns(r)
    BY <1>1, <1>4, <2>1, <2>3, OutcomeAgrees DEF Warns, Reported
  <2> QED  BY <2>1, <2>2, <2>3
<1>7. FreshRuns'
  <2> SUFFICES ASSUME NEW o \in Runner, run'[o].source \in Locked
               PROVE  /\ run'[o].loaded = source'[run'[o].source]
                      /\ run'[o].pc = "commit" => Judged(run[o])'
    BY DEF FreshRuns
  <2>1. CASE o = r
    <3>1. /\ Agrees(Outcome(r)) /\ (Outcome(r).failures > 0 <=> run[r].version = 0)
          /\ Outcome(r).failures \in {0, run[r].loaded.failures + 1}
      BY <1>1, OutcomeAgrees
    <3> QED  BY <1>2, <1>3, <1>6, <2>1, <3>1 DEF Judged
  <2>2. CASE o # r
    <3>1. run'[o] = run[o] /\ run[o].source \in Source
      BY <1>2, <2>2, FeedAssumption
    <3> QED  BY <1>2, <1>4, <3>1 DEF LInv, FreshRuns, Judged
  <2> QED  BY <2>1, <2>2
<1>8. ASSUME NEW t \in Locked PROVE Agrees(source'[t]) /\ Reported(t)'
  <2>1. Agrees(source[t]) /\ Reported(t) /\ t \in Source
    BY FeedAssumption DEF LInv
  <2>2. source[t].failures >= Threshold => alerts'[t] > 0
    BY <1>4, <2>1 DEF Reported
  <2>3. Pending(t) => Pending(t)'
    <3>1. \A o \in Runner : run[o].pc = "commit" => run'[o] = run[o]
      BY <1>1, <1>2
    <3> QED  BY <3>1 DEF Pending
  <2>4. CASE t = s /\ Warns(r)
    <3>1. run[r].loaded = source[s] /\ OneRun
      BY <1>6, <2>4 DEF LInv
    <3>2. source[s].failures < Threshold /\ Outcome(r).failures = Threshold
      BY <1>1, <2>4, <3>1, OutcomeAgrees DEF Warns
    <3>3. ~Pending(s)
      BY <1>1, <2>4, <3>1 DEF Pending, OneRun
    <3>4. Pending(t)'
      BY <1>1, <1>3, <2>4, <3>2 DEF Pending
    <3>5. t \notin orphaned => alerts[t] = 0
      <4>1. source[t].failures \in Nat /\ alerts[t] \in 0..2
        BY <1>1, <2>4, <3>1
      <4> QED  BY <1>1, <2>1, <2>4, <3>2, <3>3, <4>1 DEF Reported
    <3>6. t \notin orphaned => alerts'[t] = 1
      BY <1>4, <2>4, <3>5 DEF AtMost
    <3> QED  BY <1>2, <2>1, <2>2, <3>4, <3>6 DEF Reported
  <2>5. CASE t # s \/ ~Warns(r)
    <3>1. alerts'[t] = alerts[t]
      BY <1>4, <2>1, <2>5
    <3> QED  BY <1>2, <2>1, <2>2, <2>3, <3>1 DEF Reported
  <2> QED  BY <2>4, <2>5
<1> QED  BY <1>5, <1>7, <1>8 DEF LInv

(* The commit writes the row as judged: no other run has changed it. *)
LEMMA CommitRunLocked ==
  ASSUME LInv, IInv', NEW r \in Runner, CommitRun(r) PROVE LInv'
<1> DEFINE s == run[r].source
<1>1. /\ run[r] \in Run /\ s \in Source /\ run[r].pc = "commit"
      /\ run[r].after \in SourceRow /\ run[r].after.failures \in Nat
      /\ Threshold \in Nat \ {0}
  BY FailuresNat, FeedAssumption DEF LInv, IInv, TypeOK, Shape, CommitRun, Run, SourceRow
<1>2. /\ run'[r] = Idle
      /\ \A o \in Runner \ {r} : run'[o] = run[o]
      /\ source'[s] = Written(r)
      /\ \A t \in Source \ {s} : source'[t] = source[t] /\ alerts'[t] = alerts[t]
      /\ orphaned' = orphaned
      /\ Failed(r) => alerts'[s] = alerts[s]
      /\ ~Failed(r) => alerts'[s] = 0
  BY <1>1 DEF CommitRun, LInv, IInv, TypeOK
<1>3. Idle.source \notin Locked
  BY FeedAssumption DEF Idle
<1>4. OneRun'
  BY <1>2, <1>3 DEF LInv, OneRun
<1>5. ASSUME NEW o \in Runner, run'[o].source \in Locked
      PROVE  o # r /\ run'[o] = run[o] /\ run[o].source \in Source \ {s}
  BY <1>2, <1>3, <1>5, FeedAssumption DEF LInv, OneRun
<1>6. FreshRuns'
  BY <1>2, <1>5 DEF LInv, FreshRuns, Judged
<1>7. ASSUME NEW t \in Locked PROVE Agrees(source'[t]) /\ Reported(t)'
  <2>1. Agrees(source[t]) /\ Reported(t) /\ t \in Source
    BY FeedAssumption DEF LInv
  <2>2. CASE t = s
    <3>1. run[r].loaded = source[s] /\ Judged(run[r])
      BY <1>1, <2>2 DEF LInv, FreshRuns
    <3>2. /\ source'[s].failures = run[r].after.failures
          /\ source'[s].health = run[r].after.health
          /\ source'[s].delay = run[r].after.delay
      BY <1>2, <3>1 DEF Written
    <3>3. Agrees(source'[t])
      BY <2>2, <3>1, <3>2 DEF Agrees, Judged
    <3>4. CASE Failed(r)
      <4>1. alerts'[t] = alerts[t]
        BY <1>2, <2>2, <3>4
      <4>2. \A o \in Runner : run[o].source = s => o = r
        BY <2>2 DEF LInv, OneRun
      <4>3. Pending(t) => run[r].after.failures >= Threshold
        BY <2>2, <4>2 DEF Pending
      <4>4. /\ source[t].failures >= Threshold => source'[t].failures >= Threshold
            /\ Pending(t) => source'[t].failures >= Threshold
        <5>1. run[r].after.failures = run[r].loaded.failures + 1
          BY <3>1, <3>4 DEF Judged, Failed
        <5>2. source[t].failures \in Nat /\ run[r].loaded = source[t]
          BY <2>1, <2>2, <3>1, FailuresNat DEF LInv, IInv, TypeOK, SourceRow
        <5> QED  BY <1>1, <2>2, <3>2, <4>3, <5>1, <5>2
      <4> QED  BY <1>2, <2>1, <2>2, <3>1, <3>2, <3>3, <4>1, <4>4 DEF Reported, Judged
    <3>5. CASE ~Failed(r)
      <4>1. ~(run[r].after.failures >= Threshold)
        BY <1>1, <3>1, <3>5 DEF Judged, Failed
      <4> QED  BY <1>2, <2>2, <3>2, <3>3, <3>5, <4>1 DEF Reported
    <3> QED  BY <3>4, <3>5
  <2>3. CASE t # s
    <3>1. Pending(t) => Pending(t)'
      <4> SUFFICES ASSUME NEW o \in Runner, run[o].source = t, run[o].pc = "commit",
                          run[o].after.failures >= Threshold
                   PROVE  Pending(t)'
        BY DEF Pending
      <4>1. o # r
        BY <2>3
      <4> QED  BY <1>2, <4>1 DEF Pending
    <3>2. source'[t] = source[t] /\ alerts'[t] = alerts[t]
      BY <1>2, <2>1, <2>3
    <3> QED  BY <1>2, <2>1, <3>1, <3>2 DEF Reported
  <2> QED  BY <2>2, <2>3
<1> QED  BY <1>4, <1>6, <1>7 DEF LInv

(* A run that is lost leaves a trace, and the row as it was. *)
LEMMA LoseLocked ==
  ASSUME LInv, IInv', NEW r \in Runner, run[r].pc # "idle", Lose(r) PROVE LInv'
<1>1. /\ run'[r] = Idle
      /\ \A o \in Runner \ {r} : run'[o] = run[o]
      /\ source' = source /\ alerts' = alerts
      /\ orphaned' = orphaned \cup {run[r].source}
  BY DEF Lose, LInv, IInv, TypeOK
<1>2. Idle.source \notin Locked
  BY FeedAssumption DEF Idle
<1>3. OneRun'
  BY <1>1, <1>2 DEF LInv, OneRun
<1>4. FreshRuns'
  BY <1>1, <1>2 DEF LInv, FreshRuns, Judged
<1>5. ASSUME NEW t \in Locked, t \notin orphaned' PROVE Pending(t) => Pending(t)'
  <2> SUFFICES ASSUME NEW o \in Runner, run[o].source = t, run[o].pc = "commit",
                      run[o].after.failures >= Threshold
               PROVE  Pending(t)'
    BY DEF Pending
  <2>1. o # r
    BY <1>1, <1>5
  <2> QED  BY <1>1, <2>1 DEF Pending
<1>6. ASSUME NEW t \in Locked PROVE Agrees(source'[t]) /\ Reported(t)'
  BY <1>1, <1>5 DEF LInv, Reported
<1> QED  BY <1>3, <1>4, <1>6 DEF LInv

(* Every step preserves the invariant. *)
LEMMA NextLocked == LInv /\ [Next]_vars => LInv'
<1> SUFFICES ASSUME LInv, [Next]_vars PROVE LInv'
  OBVIOUS
<1>1. IInv'
  BY NextInv DEF LInv
<1>2. run \in [Runner -> Run]
  BY DEF LInv, IInv, TypeOK
<1>3. CASE UNCHANGED <<source, run, orphaned, alerts>>
  BY <1>1, <1>3 DEF LInv, OneRun, FreshRuns, Judged, Reported, Pending
<1>4. ASSUME NEW r \in Runner, NEW s \in Source, Start(r, s) PROVE LInv'
  BY <1>1, <1>4, StartLocked
<1>5. ASSUME NEW r \in Runner, Advance(r) PROVE LInv'
  <2>1. CASE FetchFeed(r)
    BY <1>1, <1>2, <2>1, InnerStep DEF FetchFeed, Run
  <2>2. CASE FetchNotModified(r) \/ FetchFails(r)
    BY <1>1, <1>2, <2>2, InnerStep DEF FetchNotModified, FetchFails, Run
  <2>3. CASE InsertNew(r) \/ InsertKnown(r)
    <3>1. PICK rows \in {{NextRow(r)}, {}} : Persist(r, rows) /\ run[r].pc = "persist"
      BY <2>3 DEF InsertNew, InsertKnown, Inserting
    <3> QED  BY <1>1, <1>2, <3>1, InnerStep DEF Persist, Run
  <2>4. CASE CommitItems(r)
    BY <1>1, <1>2, <2>4, InnerStep DEF CommitItems, Run
  <2>5. CASE InsertRejected(r)
    BY <1>1, <2>5, LoseLocked DEF InsertRejected, Inserting
  <2>6. CASE UpdateSource(r)
    BY <1>1, <2>6, UpdateLocked
  <2>7. CASE CommitRun(r)
    BY <1>1, <2>7, CommitRunLocked
  <2> QED  BY <1>5, <2>1, <2>2, <2>3, <2>4, <2>5, <2>6, <2>7 DEF Advance
<1>6. ASSUME NEW r \in Runner, BreakDeadlock(r) PROVE LInv'
  BY <1>1, <1>6, LoseLocked DEF BreakDeadlock, Circle, Waits, Inserting
<1>7. ASSUME NEW r \in Runner, Crash(r) PROVE LInv'
  BY <1>1, <1>7, LoseLocked DEF Crash
<1>8. CASE \E s \in Source : Publish(s)
  BY <1>3, <1>8 DEF Publish
<1>9. CASE UNCHANGED vars
  BY <1>3, <1>9 DEF vars
<1> QED
  BY <1>4, <1>5, <1>6, <1>7, <1>8, <1>9 DEF Next

(* The invariant holds of every behaviour. *)
LEMMA SpecLocked == Spec => []LInv
  BY InitLocked, NextLocked, PTL DEF Spec

(* run_collection: health and backoff of a source whose runs exclude each  *)
(* other are those of its failure count.                                   *)
THEOREM RowFollowsCount == Spec => []SourceRowAgrees
<1>1. LInv => SourceRowAgrees
  BY DEF LInv, Agrees, SourceRowAgrees
<1> QED  BY <1>1, SpecLocked, PTL

(* No such source is failing without the circuit warning having been       *)
(* Every locked source that is failing has been reported since it last     *)
(* succeeded, and twice only if a run was lost.                            *)
THEOREM FailingIsReported == Spec => []FailingReportedOnce
<1>1. LInv => FailingReportedOnce
  <2> SUFFICES ASSUME LInv, NEW s \in Locked
               PROVE  /\ source[s].failures >= Threshold => alerts[s] > 0
                      /\ alerts[s] > 1 => s \in orphaned
    BY DEF FailingReportedOnce
  <2>1. alerts[s] \in 0..2 /\ Reported(s)
    BY FeedAssumption DEF LInv, IInv, TypeOK
  <2> QED  BY <2>1 DEF Reported
<1> QED  BY <1>1, SpecLocked, PTL
-----------------------------------------------------------------------------
(* Fetches.  The URL of a request is defined by recursion over the ones    *)
(* before it; what is said of all of them takes the least counterexample.  *)
LEMMA LeastOf ==
  ASSUME NEW S \in SUBSET Nat, S # {}
  PROVE  \E m \in S : \A i \in S : m <= i
<1>1. PICK m \in S : \A i \in S : <<i, m>> \notin OpToRel(<, Nat)
  BY WFMin, NatLessThanWellFounded
<1>2. \A i \in S : ~(i < m)
  BY <1>1 DEF OpToRel
<1> QED  BY <1>2

(* f gives the URLs of the first k requests. *)
NamesUrls(f, url, journey, k) ==
    f = [j \in 1..k |->
            IF j = 1 THEN url ELSE Join(f[j - 1], journey[j - 1].answer.location)]

LEMMA UrlsDefined ==
  ASSUME NEW url, NEW journey, NEW k \in Nat \ {0}
  PROVE  \E f : NamesUrls(f, url, journey, k)
<1> DEFINE Bad == {n \in Nat \ {0} : ~\E f : NamesUrls(f, url, journey, n)}
<1>1. ASSUME NEW n \in Bad, \A m \in Bad : n <= m PROVE FALSE
  <2>1. n \in Nat \ {0} /\ ~\E f : NamesUrls(f, url, journey, n)
    OBVIOUS
  <2>2. CASE n = 1
    <3> DEFINE f == [j \in 1..1 |-> url]
    <3>1. NamesUrls(f, url, journey, n)
      BY <2>2 DEF NamesUrls
    <3> QED  BY <2>1, <3>1
  <2>3. CASE n > 1
    <3>1. n - 1 \in Nat \ {0} /\ n - 1 \notin Bad
      BY <1>1, <2>1, <2>3
    <3>2. PICK f : NamesUrls(f, url, journey, n - 1)
      BY <3>1
    <3> DEFINE g == [j \in 1..n |->
                        IF j = n THEN Join(f[n - 1], journey[n - 1].answer.location)
                        ELSE f[j]]
    <3>3. ASSUME NEW j \in 1..n
          PROVE  g[j] = IF j = 1 THEN url
                        ELSE Join(g[j - 1], journey[j - 1].answer.location)
      <4>1. CASE j = n
        BY <2>1, <2>3, <4>1
      <4>2. CASE j # n
        <5>1. j \in 1..(n - 1) /\ g[j] = f[j] /\ (j # 1 => g[j - 1] = f[j - 1])
          BY <2>1, <4>2
        <5>2. f[j] = IF j = 1 THEN url
                     ELSE Join(f[j - 1], journey[j - 1].answer.location)
          BY <3>2, <5>1 DEF NamesUrls
        <5> QED  BY <5>1, <5>2
      <4> QED  BY <4>1, <4>2
    <3> HIDE DEF g
    <3>4. g = [j \in 1..n |-> g[j]]
      BY DEF g
    <3>5. NamesUrls(g, url, journey, n)
      BY <3>3, <3>4 DEF NamesUrls
    <3> QED  BY <2>1, <3>5
  <2> QED  BY <2>1, <2>2, <2>3
<1>2. Bad \in SUBSET Nat
  OBVIOUS
<1>3. Bad = {}
  <2> HIDE DEF Bad
  <2> QED  BY <1>1, <1>2, LeastOf
<1> QED  BY <1>3

LEMMA UrlsUnique ==
  ASSUME NEW url, NEW journey, NEW k \in Nat \ {0}, NEW f, NEW g,
         NamesUrls(f, url, journey, k), NamesUrls(g, url, journey, k)
  PROVE  \A j \in 1..k : f[j] = g[j]
<1> DEFINE Bad == {j \in 1..k : f[j] # g[j]}
<1>1. ASSUME NEW n \in Bad, \A m \in Bad : n <= m PROVE FALSE
  <2>1. n \in 1..k /\ f[n] # g[n]
    OBVIOUS
  <2>2. /\ f[n] = IF n = 1 THEN url ELSE Join(f[n - 1], journey[n - 1].answer.location)
        /\ g[n] = IF n = 1 THEN url ELSE Join(g[n - 1], journey[n - 1].answer.location)
    BY <2>1 DEF NamesUrls
  <2>3. n # 1
    BY <2>1, <2>2
  <2>4. n - 1 \in 1..k /\ n - 1 \notin Bad
    BY <1>1, <2>1, <2>3
  <2> QED  BY <2>1, <2>2, <2>3, <2>4
<1>2. Bad \in SUBSET Nat
  OBVIOUS
<1>3. Bad = {}
  <2> HIDE DEF Bad
  <2> QED  BY <1>1, <1>2, LeastOf
<1> QED  BY <1>3

LEMMA UrlOfNamed ==
  ASSUME NEW url, NEW journey, NEW k \in Nat \ {0}, NEW f,
         NamesUrls(f, url, journey, k)
  PROVE  UrlOf(url, journey, k) = f[k]
<1> DEFINE at == CHOOSE g : NamesUrls(g, url, journey, k)
<1>1. NamesUrls(at, url, journey, k)
  BY UrlsDefined
<1>2. UrlOf(url, journey, k) = at[k]
  BY DEF UrlOf, NamesUrls
<1> HIDE DEF at
<1>3. at[k] = f[k]
  BY <1>1, UrlsUnique
<1> QED  BY <1>2, <1>3

(* The first request is for the caller's URL, each later one for what the  *)
(* answer before it says.                                                  *)
LEMMA UrlOfFirst ==
  ASSUME NEW url, NEW journey
  PROVE  UrlOf(url, journey, 1) = url
<1>1. PICK f : NamesUrls(f, url, journey, 1)
  BY UrlsDefined
<1>2. f[1] = url
  BY <1>1 DEF NamesUrls
<1> QED  BY <1>1, <1>2, UrlOfNamed

LEMMA UrlOfNext ==
  ASSUME NEW url, NEW journey, NEW k \in Nat \ {0}
  PROVE  UrlOf(url, journey, k + 1)
         = Join(UrlOf(url, journey, k), journey[k].answer.location)
<1>1. PICK f : NamesUrls(f, url, journey, k + 1)
  BY UrlsDefined
<1>2. \A j \in 1..(k + 1) :
         f[j] = IF j = 1 THEN url ELSE Join(f[j - 1], journey[j - 1].answer.location)
  BY <1>1 DEF NamesUrls
<1> DEFINE g == [j \in 1..k |-> f[j]]
<1>3. ASSUME NEW j \in 1..k
      PROVE  g[j] = IF j = 1 THEN url ELSE Join(g[j - 1], journey[j - 1].answer.location)
  <2>1. j \in 1..(k + 1) /\ (j # 1 => j - 1 \in 1..k)
    OBVIOUS
  <2> QED  BY <1>2, <2>1
<1>4. g = [j \in 1..k |-> g[j]] /\ g[k] = f[k]
  OBVIOUS
<1> HIDE DEF g
<1>5. NamesUrls(g, url, journey, k)
  BY <1>3, <1>4 DEF NamesUrls
<1>6. UrlOf(url, journey, k) = f[k] /\ UrlOf(url, journey, k + 1) = f[k + 1]
  BY <1>1, <1>4, <1>5, UrlOfNamed
<1>7. f[k + 1] = Join(f[k], journey[k].answer.location)
  BY <1>2
<1> QED  BY <1>6, <1>7

IsJourney(j) == \A k \in 1..(MaxRedirects + 1) : IsHop(j[k])

(* The loop ends with the first request whose answer is not followed: the  *)
(* one after the last permitted redirect is not, at the latest.            *)
LEMMA LastHopIs ==
  ASSUME NEW url, NEW journey
  PROVE  LET last == LastHop(url, journey)
         IN  /\ last \in 1..(MaxRedirects + 1)
             /\ ~Followed(url, journey, last)
             /\ \A j \in 1..(last - 1) : Followed(url, journey, j)
<1> DEFINE Ends == {k \in 1..(MaxRedirects + 1) : ~Followed(url, journey, k)}
<1>1. MaxRedirects + 1 \in Ends
  BY FetchAssumption DEF Followed
<1>2. Ends \in SUBSET Nat
  OBVIOUS
<1>3. PICK k \in Ends : \A i \in Ends : k <= i
  BY <1>1, <1>2, LeastOf
<1>4. k \in 1..(MaxRedirects + 1) /\ ~Followed(url, journey, k)
  OBVIOUS
<1>5. ASSUME NEW j \in 1..(k - 1) PROVE Followed(url, journey, j)
  <2>1. j \in 1..(MaxRedirects + 1) /\ ~(k <= j)
    BY <1>4, FetchAssumption
  <2>2. j \notin Ends
    BY <1>3, <2>1
  <2> QED  BY <2>1, <2>2
<1> QED  BY <1>4, <1>5 DEF LastHop

LEMMA PreferredIs ==
  ASSUME NEW S, S # {}, \A a \in S : a.version \in {4, 6}
  PROVE  Preferred(S) \in S
<1>1. \E a \in S : \A b \in S : a.version <= b.version
  <2>1. CASE \E a \in S : a.version = 4
    BY <2>1
  <2>2. CASE \A a \in S : a.version = 6
    BY <2>2
  <2> QED  BY <2>1, <2>2
<1> QED  BY <1>1 DEF Preferred

(* What a permitted request has been checked for. *)
LEMMA PermittedIs ==
  ASSUME NEW url, NEW journey, IsJourney(journey),
         NEW k \in 1..(MaxRedirects + 1), Permitted(url, journey, k)
  PROVE  /\ AddressOf(url, journey, k) \in journey[k].dns
         /\ \A a \in journey[k].dns : a.range = "public" /\ ~a.listed
         /\ UrlOf(url, journey, k).host \notin Localhost
         /\ UrlOf(url, journey, k).scheme \in AllowedSchemes
<1> DEFINE host == UrlOf(url, journey, k).host
           dns == journey[k].dns
<1>1. AddressOf(url, journey, k) # NoAddress
      /\ UrlOf(url, journey, k).scheme \in AllowedSchemes
  BY DEF Permitted
<1>2. /\ host \notin Localhost /\ dns # {} /\ \A a \in dns : IsPublicAddress(a)
      /\ AddressOf(url, journey, k) = Preferred(dns)
  BY <1>1 DEF AddressOf, ResolvePublicAddress
<1>3. \A a \in dns : a.version \in {4, 6}
  BY DEF IsJourney, IsHop
<1>4. Preferred(dns) \in dns
  BY <1>2, <1>3, PreferredIs
<1> QED  BY <1>1, <1>2, <1>4 DEF IsPublicAddress

(* A redirect leads to a host that it names or that was named before.      *)
LEMMA HostIsNamed ==
  ASSUME NEW url, IsUrl(url), NEW journey, IsJourney(journey),
         NEW k \in 1..(MaxRedirects + 1),
         \A j \in 1..(k - 1) : Followed(url, journey, j)
  PROVE  UrlOf(url, journey, k).host \in NamedHosts(url, journey, k)
<1> USE FetchAssumption
<1> DEFINE Good(n) == /\ IsUrl(UrlOf(url, journey, n))
                      /\ UrlOf(url, journey, n).host \in NamedHosts(url, journey, n)
           Bad == {n \in 1..k : ~Good(n)}
<1>1. ASSUME NEW n \in Bad, \A m \in Bad : n <= m PROVE FALSE
  <2>1. n \in 1..k /\ ~Good(n)
    OBVIOUS
  <2>2. CASE n = 1
    <3>1. UrlOf(url, journey, n) = url
      BY <2>2, UrlOfFirst
    <3> QED  BY <2>1, <3>1 DEF NamedHosts
  <2>3. CASE n # 1
    <3> DEFINE i == n - 1
               before == UrlOf(url, journey, i)
               location == journey[i].answer.location
    <3>1. i \in 1..(k - 1) /\ i \in Nat \ {0} /\ n = i + 1 /\ i \in 1..(MaxRedirects + 1)
      BY <2>1, <2>3
    <3>2. IsUrl(before) /\ before.host \in NamedHosts(url, journey, i)
      BY <1>1, <3>1
    <3>3. IsUrl(location) /\ location # NoLocation
      BY <3>1 DEF Followed, IsJourney, IsHop
    <3>4. UrlOf(url, journey, n) = Join(before, location)
      BY <3>1, UrlOfNext
    <3>5. /\ NamedHosts(url, journey, i) \subseteq NamedHosts(url, journey, n)
          /\ location.host \in NamedHosts(url, journey, n)
      <4>1. 1..(i - 1) \subseteq 1..(n - 1) /\ i \in 1..(n - 1)
        BY <3>1
      <4> QED  BY <3>3, <4>1 DEF NamedHosts
    <3> HIDE DEF i, before, location
    <3>6. /\ IsUrl(Join(before, location))
          /\ Join(before, location).host \in {before.host, location.host}
      BY <3>2, <3>3 DEF Join, IsUrl
    <3> QED  BY <2>1, <3>2, <3>4, <3>5, <3>6
  <2> QED  BY <2>2, <2>3
<1>2. Bad = {}
  <2>1. Bad \in SUBSET Nat
    OBVIOUS
  <2> HIDE DEF Bad
  <2> QED  BY <1>1, <2>1, LeastOf
<1> QED  BY <1>2

(* What is connected to: every request up to the last, and that one if it  *)
(* is permitted.                                                           *)
LEMMA ConnectionsMade ==
  ASSUME NEW url, NEW journey
  PROVE  LET made == Fetch(url, journey).connections
             last == LastHop(url, journey)
             sent == IF Permitted(url, journey, last) THEN last ELSE last - 1
         IN  /\ sent \in Nat /\ sent <= MaxRedirects + 1
             /\ DOMAIN made = 1..sent /\ Len(made) = sent
             /\ \A k \in 1..sent :
                   /\ made[k].address = AddressOf(url, journey, k)
                   /\ made[k].url = UrlOf(url, journey, k)
                   /\ Permitted(url, journey, k)
                   /\ \A j \in 1..(k - 1) : Followed(url, journey, j)
<1> DEFINE last == LastHop(url, journey)
           sent == IF Permitted(url, journey, last) THEN last ELSE last - 1
           e(k) == [address |-> AddressOf(url, journey, k), url |-> UrlOf(url, journey, k)]
           made == [k \in 1..sent |-> e(k)]
<1>1. /\ last \in 1..(MaxRedirects + 1)
      /\ \A j \in 1..(last - 1) : Followed(url, journey, j)
  BY LastHopIs
<1>2. Fetch(url, journey).connections = made
  BY DEF Fetch
<1> HIDE DEF last
<1>3. sent \in Nat /\ sent <= MaxRedirects + 1 /\ sent <= last
  BY <1>1, FetchAssumption
<1>4. ASSUME NEW k \in 1..sent
      PROVE  /\ Permitted(url, journey, k)
             /\ \A j \in 1..(k - 1) : Followed(url, journey, j)
  <2>1. \A j \in 1..(k - 1) : j \in 1..(last - 1)
    BY <1>1, <1>3
  <2>2. CASE k = last
    BY <1>1, <1>3, <2>2
  <2>3. CASE k # last
    <3>1. k \in 1..(last - 1)
      BY <1>1, <1>3, <2>3
    <3>2. Followed(url, journey, k)
      BY <1>1, <3>1
    <3> QED  BY <1>1, <2>1, <3>2 DEF Followed
  <2> QED  BY <1>1, <2>1, <2>2, <2>3
<1>5. DOMAIN made = 1..sent /\ Len(made) = sent
  <2> DEFINE S == {e(k) : k \in 1..sent}
  <2>1. \A k \in 1..sent : e(k) \in S
    OBVIOUS
  <2> HIDE DEF e, S, sent
  <2>2. made \in [1..sent -> S]
    BY <2>1
  <2>3. made \in Seq(S)
    BY <1>3, <2>2
  <2>4. DOMAIN made = 1..sent /\ DOMAIN made = 1..Len(made) /\ Len(made) \in Nat
    BY <2>2, <2>3, LenProperties
  <2> QED  BY <1>3, <2>4
<1>6. \A k \in 1..sent : /\ made[k].address = AddressOf(url, journey, k)
                         /\ made[k].url = UrlOf(url, journey, k)
  OBVIOUS
<1> HIDE DEF made
<1> QED  BY <1>2, <1>3, <1>4, <1>5, <1>6 DEF last

(* Every connection is checked and for a named host, ...                   *)
LEMMA HopsChecked ==
  ASSUME NEW url, IsUrl(url), NEW journey, IsJourney(journey)
  PROVE  ChecksEveryHop(url, journey)
<1> DEFINE made == Fetch(url, journey).connections
<1>1. ASSUME NEW k \in DOMAIN made
      PROVE  /\ k \in 1..(MaxRedirects + 1)
             /\ made[k].address = AddressOf(url, journey, k)
             /\ made[k].url = UrlOf(url, journey, k)
             /\ Permitted(url, journey, k)
             /\ \A j \in 1..(k - 1) : Followed(url, journey, j)
  BY ConnectionsMade, FetchAssumption
<1>2. ASSUME NEW k \in DOMAIN made
      PROVE  /\ made[k].address \in journey[k].dns
             /\ \A a \in journey[k].dns : a.range = "public" /\ ~a.listed
             /\ made[k].url.host \in NamedHosts(url, journey, k) \ Localhost
             /\ made[k].url.scheme \in AllowedSchemes
  <2>1. /\ AddressOf(url, journey, k) \in journey[k].dns
        /\ \A a \in journey[k].dns : a.range = "public" /\ ~a.listed
        /\ UrlOf(url, journey, k).host \notin Localhost
        /\ UrlOf(url, journey, k).scheme \in AllowedSchemes
    BY <1>1, PermittedIs
  <2>2. UrlOf(url, journey, k).host \in NamedHosts(url, journey, k)
    BY <1>1, HostIsNamed
  <2> QED  BY <1>1, <2>1, <2>2
<1> QED  BY <1>2 DEF ChecksEveryHop

(* ... and the result is the answer of the last one.                       *)
LEMMA AnswerIsFinal ==
  ASSUME NEW url, NEW journey, IsJourney(journey)
  PROVE  FinalAnswer(url, journey)
<1> DEFINE result == Fetch(url, journey)
           last == LastHop(url, journey)
           n == Len(result.connections)
<1>1. /\ n \in Nat /\ n <= MaxRedirects + 1
      /\ n = IF Permitted(url, journey, last) THEN last ELSE last - 1
      /\ \A k \in 1..n : result.connections[k].url = UrlOf(url, journey, k)
  BY ConnectionsMade
<1>2. /\ last \in 1..(MaxRedirects + 1)
      /\ \A j \in 1..(last - 1) : Followed(url, journey, j)
  BY LastHopIs
<1>3. /\ result.outcome = OutcomeAt(url, journey, last)
      /\ result.answer = journey[last].answer
      /\ result.finalUrl = UrlOf(url, journey, last)
  BY DEF Fetch
<1> HIDE DEF result, last, n
<1>4. ASSUME result.outcome = "ok"
      PROVE  /\ n > 0
             /\ result.answer = journey[n].answer
             /\ result.finalUrl = result.connections[n].url
             /\ ~IsRedirect(result.answer)
             /\ result.answer.size <= MaxBody
             /\ \A k \in 1..(n - 1) : IsRedirect(journey[k].answer)
  <2>1. /\ Permitted(url, journey, last) /\ ~IsRedirect(journey[last].answer)
        /\ ~(journey[last].answer.size > MaxBody)
    BY <1>3, <1>4 DEF OutcomeAt
  <2>2. n = last /\ n \in 1..n
    BY <1>1, <1>2, <2>1, FetchAssumption
  <2>3. journey[last].answer.size \in Nat
    BY <1>2 DEF IsJourney, IsHop
  <2>4. journey[last].answer.size <= MaxBody
    BY <2>1, <2>3, FetchAssumption
  <2>5. \A k \in 1..(n - 1) : IsRedirect(journey[k].answer)
    BY <1>2, <2>2 DEF Followed
  <2> QED  BY <1>1, <1>2, <1>3, <2>1, <2>2, <2>4, <2>5
<1> QED  BY <1>1, <1>4 DEF FinalAnswer, n, result

(* Whatever URL a caller gives, and whatever resolvers and servers answer  *)
(* on the way, safe_fetch connects only to addresses it has just checked,  *)
(* for hosts that were named, and returns the last answer or none.         *)
THEOREM FetchIsSound ==
  ASSUME NEW url, IsUrl(url), NEW journey, IsJourney(journey)
  PROVE  ChecksEveryHop(url, journey) /\ FinalAnswer(url, journey)
BY HopsChecked, AnswerIsFinal

(* So the fetches of a run are sound.                                      *)
THEOREM RunsFetchSoundly == Spec => []EveryFetchIsSound
<1>1. \A u \in StartUrl, j \in Journeys : ChecksEveryHop(u, j) /\ FinalAnswer(u, j)
  <2> SUFFICES ASSUME NEW u \in StartUrl, NEW j \in Journeys
               PROVE  IsUrl(u) /\ IsJourney(j)
    BY FetchIsSound
  <2> QED  BY NetworkAssumption DEF Journeys, IsJourney
<1>2. EveryFetchIsSound
  BY <1>1 DEF EveryFetchIsSound
<1> QED  BY <1>2, PTL
-----------------------------------------------------------------------------
(* No group of runs can wait for good: the safety half of RunsEnd.  A run  *)
(* can advance if the guard of one of its steps holds ...                  *)
CanAdvance(r) ==
    \/ run[r].pc \in {"fetch", "update", "commit"}
    \/ run[r].pc = "persist" /\ ~Inserting(r)
    \/ /\ Inserting(r)
       /\ \/ NextRow(r).entry \in Rejected
          \/ Taken(NextRow(r), signals \cup run[r].pending)
          \/ \A o \in Runner : ~Waits(r, o)

(* ... and the deadlock detector ends one that waits in a circle.          *)
InCircle(r) == \E C \in SUBSET Runner : r \in C /\ Circle(C)

NoGroupIsStuck ==
    \A S \in SUBSET Runner :
        /\ \E r \in S : run[r].pc # "idle"
        /\ \A r \in S : \A o \in Runner : Waits(r, o) => o \in S
        => \E r \in S : CanAdvance(r) \/ InCircle(r)

(* Every one of S waits for one of S. *)
AllWait(S) == \A r \in S : \E o \in S : Waits(r, o)

(* A smallest such group is a circle: one that nobody in it waits for      *)
(* could be left out.                                                      *)
LEMMA SmallestIsCircle ==
  ASSUME NEW S, IsFiniteSet(S), AllWait(S),
         \A T \in SUBSET S : AllWait(T) /\ T # {} => Cardinality(S) <= Cardinality(T)
  PROVE  Circle(S)
  <1> SUFFICES ASSUME NEW r \in S, \A o \in S : ~Waits(o, r)
               PROVE  FALSE
    BY DEF Circle, AllWait
  <1> DEFINE T == S \ {r}
  <1>1. PICK o \in S : Waits(r, o)
    BY DEF AllWait
  <1>2. o \in T
    BY <1>1 DEF Waits
  <1>3. AllWait(T)
    BY DEF AllWait
  <1>4. Cardinality(T) = Cardinality(S) - 1 /\ Cardinality(S) \in Nat
    BY FS_RemoveElement, FS_CardinalityType
  <1> QED  BY <1>2, <1>3, <1>4

LEMMA CircleExists ==
  ASSUME NEW S, IsFiniteSet(S), S # {}, AllWait(S)
  PROVE  \E C \in SUBSET S : C # {} /\ Circle(C)
  <1> DEFINE Groups == {T \in SUBSET S : T # {} /\ AllWait(T)}
             Sizes == {Cardinality(T) : T \in Groups}
  <1>1. \A T \in SUBSET S : IsFiniteSet(T) /\ Cardinality(T) \in Nat
    BY FS_Subset, FS_CardinalityType
  <1>2. Sizes \in SUBSET Nat /\ Sizes # {}
    BY <1>1
  <1>3. PICK m \in Sizes : \A i \in Sizes : m <= i
    <2> HIDE DEF Sizes
    <2> QED  BY <1>2, LeastOf
  <1>4. PICK T \in Groups : Cardinality(T) = m
    OBVIOUS
  <1>5. \A U \in SUBSET T : AllWait(U) /\ U # {} => Cardinality(T) <= Cardinality(U)
    BY <1>3, <1>4
  <1>6. Circle(T)
    BY <1>1, <1>4, <1>5, SmallestIsCircle
  <1> QED  BY <1>4, <1>6

(* A run is waited for only while its rows are pending, so that it is in   *)
(* the middle of its inserts.                                              *)
PendingInv == \A r \in Runner : run[r].pc # "persist" => run[r].pending = {}

LEMMA PendingStep == ASSUME IInv, PendingInv, [Next]_vars PROVE PendingInv'
  <1>1. \A r \in Runner : run[r].pc \in Phase
    BY DEF IInv, TypeOK, Run
  <1>2. run \in [Runner -> Run]
    BY DEF IInv, TypeOK
  <1>3. Idle.pc = "idle" /\ Idle.pending = {}
    BY DEF Idle
  <1>4. ASSUME NEW r \in Runner, NEW x, run' = [run EXCEPT ![r] = x],
               x.pc # "persist" => x.pending = {}
        PROVE  PendingInv'
    BY <1>2, <1>4 DEF PendingInv
  <1>5. ASSUME NEW r \in Runner, NEW s \in Source, Start(r, s) PROVE PendingInv'
    <2>1. [Idle EXCEPT !.pc = "fetch", !.source = s, !.loaded = source[s]].pending = {}
      BY DEF Idle
    <2> QED  BY <2>1, <1>4, <1>5 DEF Start
  <1>6. ASSUME NEW r \in Runner, Lose(r) PROVE PendingInv'
    BY <1>3, <1>4, <1>6 DEF Lose
  <1>7. ASSUME NEW r \in Runner, Advance(r) PROVE PendingInv'
    <2>1. CASE FetchFeed(r) \/ FetchNotModified(r) \/ FetchFails(r)
      BY <2>1, <1>2 DEF FetchFeed, FetchNotModified, FetchFails, PendingInv, Run
    <2>2. CASE InsertNew(r) \/ InsertKnown(r)
      BY <2>2, <1>2 DEF InsertNew, InsertKnown, Persist, Inserting, PendingInv, Run
    <2>3. CASE InsertRejected(r)
      BY <2>3, <1>6 DEF InsertRejected
    <2>4. CASE CommitItems(r)
      BY <2>4, <1>2 DEF CommitItems, PendingInv, Run
    <2>5. CASE UpdateSource(r)
      BY <2>5, <1>2 DEF UpdateSource, PendingInv, Run
    <2>6. CASE CommitRun(r)
      BY <2>6, <1>3, <1>4 DEF CommitRun
    <2> QED  BY <1>7, <2>1, <2>2, <2>3, <2>4, <2>5, <2>6 DEF Advance
  <1>8. CASE UNCHANGED run
    BY <1>8 DEF PendingInv
  <1>9. \A r \in Runner : BreakDeadlock(r) \/ Crash(r) => Lose(r)
    BY DEF BreakDeadlock, Crash
  <1>10. (\E s \in Source : Publish(s)) \/ UNCHANGED vars => UNCHANGED run
    BY DEF Publish, vars
  <1> QED  BY <1>5, <1>6, <1>7, <1>8, <1>9, <1>10 DEF Next

LEMMA PendingInit == Init => PendingInv
  BY DEF Init, PendingInv, Idle

LEMMA SomebodyMoves ==
  ASSUME IsFiniteSet(Runner), TypeOK, PendingInv
  PROVE  NoGroupIsStuck
  <1> SUFFICES ASSUME NEW S \in SUBSET Runner, NEW q \in S, run[q].pc # "idle",
                      \A r \in S : \A o \in Runner : Waits(r, o) => o \in S,
                      \A r \in S : ~CanAdvance(r)
               PROVE  \E r \in S : InCircle(r)
    BY DEF NoGroupIsStuck
  <1> DEFINE T == {r \in S : run[r].pc # "idle"}
  <1>1. ASSUME NEW r \in T PROVE \E o \in T : Waits(r, o)
    <2>1. run[r].pc \in Phase
      BY DEF TypeOK, Run
    <2>2. PICK o \in Runner : Waits(r, o)
      BY <2>1 DEF CanAdvance, Phase
    <2>3. run[o].pending # {}
      BY <2>2 DEF Waits, Taken
    <2>4. run[o].pc # "idle"
      BY <2>3 DEF PendingInv
    <2> QED  BY <2>2, <2>4
  <1>2. AllWait(T)
    BY <1>1 DEF AllWait
  <1>3. IsFiniteSet(T) /\ T # {}
    BY FS_Subset
  <1>4. PICK C \in SUBSET T : C # {} /\ Circle(C)
    <2> HIDE DEF T
    <2> QED  BY <1>2, <1>3, CircleExists
  <1> QED  BY <1>4 DEF InCircle

(* Whatever runs wait for each other's rows, and however long the chains,  *)
(* following them always leads to a run that can go on or to one that      *)
(* PostgreSQL ends: an insert never waits for nothing.                     *)
THEOREM InsertsNeverHang == ASSUME IsFiniteSet(Runner) PROVE Spec => []NoGroupIsStuck
<1>1. Spec => [](IInv /\ PendingInv)
  <2>1. Spec => []PendingInv
    BY PendingInit, PendingStep, SpecInv, PTL DEF Spec
  <2> QED  BY <2>1, SpecInv, PTL
<1>2. IInv /\ PendingInv => NoGroupIsStuck
  BY SomebodyMoves DEF IInv
<1> QED  BY <1>1, <1>2, PTL

(* A run goes forward in finitely many steps: from phase to phase, and in  *)
(* the inserts from entry to entry.                                        *)
StepsLeft == [p \in Phase |-> CASE p = "idle" -> 0
                                [] p = "commit" -> 1
                                [] p = "update" -> 2
                                [] p = "persist" -> 3
                                [] p = "fetch" -> 4]

EntriesLeft(x) == Len(Feed[x.source][x.version]) + 1 - x.at

Nearer(y, x) ==
    \/ StepsLeft[y.pc] < StepsLeft[x.pc]
    \/ /\ x.pc = "persist" /\ y.pc = "persist"
       /\ EntriesLeft(y) \in Nat /\ EntriesLeft(y) < EntriesLeft(x)

(* Every step of a run brings it nearer to its end, and no other step      *)
(* moves it, except to the end.                                            *)
OnlyForward ==
    \A r \in Runner :
        /\ Advance(r) => Nearer(run'[r], run[r])
        /\ run[r].pc # "idle" => \/ run'[r] = run[r]
                                 \/ run'[r].pc = "idle"
                                 \/ Advance(r)

LEMMA AdvanceIsForward ==
  ASSUME IInv, NEW r \in Runner, Advance(r)
  PROVE  Nearer(run'[r], run[r])
  <1>1. run \in [Runner -> Run] /\ run[r] \in Run /\ Shape(run[r])
    BY DEF IInv, TypeOK
  <1>2. CASE FetchFeed(r) \/ FetchNotModified(r) \/ FetchFails(r)
    BY <1>1, <1>2 DEF FetchFeed, FetchNotModified, FetchFails,
                       Nearer, StepsLeft, Phase, Run
  <1>3. CASE (InsertNew(r) \/ InsertKnown(r))
    <2>1. /\ run[r].pc = "persist" /\ run[r].at <= Len(Feed[run[r].source][run[r].version])
          /\ \E W : run' = [run EXCEPT ![r].at = @ + 1, ![r].pending = @ \cup W]
      BY <1>3 DEF InsertNew, InsertKnown, Inserting, Persist, Entries
    <2>2. /\ run'[r].pc = "persist" /\ run'[r].source = run[r].source
          /\ run'[r].version = run[r].version /\ run'[r].at = run[r].at + 1
      BY <1>1, <2>1 DEF Run
    <2>3. Len(Feed[run[r].source][run[r].version]) \in Nat /\ run[r].at \in Nat
      BY <1>1, <2>1, FeedAssumption DEF Shape, Run, Versions
    <2>4. /\ EntriesLeft(run[r]) = Len(Feed[run[r].source][run[r].version]) + 1 - run[r].at
          /\ EntriesLeft(run'[r]) = Len(Feed[run[r].source][run[r].version]) - run[r].at
      BY <2>2, <2>3 DEF EntriesLeft
    <2>5. EntriesLeft(run'[r]) \in Nat /\ EntriesLeft(run'[r]) < EntriesLeft(run[r])
      <3>1. \A n, a \in Nat : a <= n => n - a \in Nat /\ n - a < n + 1 - a
        OBVIOUS
      <3> QED  BY <2>1, <2>3, <2>4, <3>1
    <2> QED  BY <2>1, <2>2, <2>5 DEF Nearer
  <1>4. CASE InsertRejected(r)
    BY <1>1, <1>4 DEF InsertRejected, Lose, Inserting, Idle, Nearer, StepsLeft, Phase
  <1>5. CASE CommitItems(r)
    BY <1>1, <1>5 DEF CommitItems, Nearer, StepsLeft, Phase
  <1>6. CASE UpdateSource(r)
    BY <1>1, <1>6 DEF UpdateSource, Nearer, StepsLeft, Phase
  <1>7. CASE CommitRun(r)
    BY <1>1, <1>7 DEF CommitRun, Idle, Nearer, StepsLeft, Phase
  <1> QED  BY <1>2, <1>3, <1>4, <1>5, <1>6, <1>7 DEF Advance

LEMMA OthersStay ==
  ASSUME IInv, [Next]_vars, NEW r \in Runner, run[r].pc # "idle", ~Advance(r)
  PROVE  run'[r] = run[r] \/ run'[r].pc = "idle"
  <1>1. run \in [Runner -> Run]
    BY DEF IInv, TypeOK
  <1>2. CASE UNCHANGED run
    BY <1>2
  <1>3. ASSUME NEW o \in Runner, NEW x, run' = [run EXCEPT ![o] = x], o # r
        PROVE  run'[r] = run[r]
    BY <1>1, <1>3
  <1>4. ASSUME NEW o \in Runner, Advance(o) PROVE run'[r] = run[r]
    <2>1. o # r
      BY <1>4
    <2>2. \E x : run' = [run EXCEPT ![o] = x]
      BY <1>4, <1>1 DEF Advance, FetchFeed, FetchNotModified, FetchFails, InsertNew,
         InsertKnown, InsertRejected, CommitItems, UpdateSource, CommitRun, Persist, Lose
    <2> QED  BY <1>3, <2>1, <2>2
  <1>5. ASSUME NEW o \in Runner, NEW s \in Source, Start(o, s) PROVE run'[r] = run[r]
    BY <1>5, <1>3 DEF Start
  <1>6. ASSUME NEW o \in Runner, BreakDeadlock(o) \/ Crash(o)
        PROVE  run'[r] = run[r] \/ run'[r].pc = "idle"
    BY <1>6, <1>1 DEF BreakDeadlock, Crash, Lose, Idle
  <1> QED  BY <1>2, <1>4, <1>5, <1>6 DEF Next, Publish, vars

(* Runs go forward whatever else happens: with InsertsNeverHang, all that  *)
(* RunsEnd needs of the model beside fairness.                             *)
THEOREM RunsGoForward == Spec => [][OnlyForward]_vars
<1>1. IInv /\ [Next]_vars => [OnlyForward]_vars
  BY AdvanceIsForward, OthersStay DEF OnlyForward
<1> QED  BY <1>1, SpecInv, PTL DEF Spec
=============================================================================
