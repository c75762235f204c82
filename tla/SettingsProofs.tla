--------------------------- MODULE SettingsProofs ---------------------------
(***************************************************************************)
(* Theorems about Settings, for any number of administrators, any payloads *)
(* and images, and any bounds.                                             *)
(***************************************************************************)
EXTENDS Settings, FiniteSetTheorems, SequenceTheorems, TLAPS

Busy == {"flush", "record", "commit"}

-----------------------------------------------------------------------------
(* What the steps leave of a request *)

Fields == {"pc", "loaded", "new", "given", "id", "file", "stale"}

Shape == /\ DOMAIN request = Request
         /\ \A r \in Request : DOMAIN request[r] = Fields

(* r goes from one phase to another, with its file and its id.             *)
Moves(r, from, to) ==
    /\ request[r].pc = from /\ request'[r].pc = to
    /\ request'[r].loaded = request[r].loaded
    /\ request'[r].new = request[r].new
    /\ request'[r].given = request[r].given
    /\ request'[r].stale = request[r].stale

OthersStay(r) == \A o \in Request \ {r} : request'[o] = request[o]

LEMMA UploadStep ==
  ASSUME Shape, NEW r \in Request, NEW i \in Image, Upload(r, i)
  PROVE  /\ Shape' /\ OthersStay(r) /\ Moves(r, "idle", "write")
         /\ request'[r].file = NewFile(i) /\ request'[r].id = request[r].id
  BY DEF Shape, Fields, Upload, OthersStay, Moves

LEMMA FinishUploadStep ==
  ASSUME Shape, NEW r \in Request, FinishUpload(r)
  PROVE  /\ Shape' /\ OthersStay(r) /\ Moves(r, "write", "named")
         /\ request'[r].file = request[r].file /\ request'[r].id = request[r].id
  BY DEF Shape, Fields, FinishUpload, OthersStay, Moves

LEMMA FlushStep ==
  ASSUME Shape, NEW r \in Request, Flush(r)
  PROVE  /\ Shape' /\ OthersStay(r) /\ Moves(r, "flush", "record")
         /\ request'[r].file = request[r].file /\ request'[r].id = request[r].id
  BY DEF Shape, Fields, Flush, OthersStay, Moves

LEMMA StampStep ==
  ASSUME Shape, NEW r \in Request, Stamp(r)
  PROVE  /\ Shape' /\ OthersStay(r) /\ Moves(r, "record", "commit")
         /\ request'[r].file = request[r].file /\ request'[r].id = nextId
  BY DEF Shape, Fields, Stamp, OthersStay, Moves

(* A PATCH begins, for a payload or for a logo. *)
LEMMA BeginStep ==
  ASSUME Shape, NEW r \in Request, NEW p, request' = [request EXCEPT ![r] = Begun(p)]
  PROVE  /\ Shape' /\ OthersStay(r)
         /\ request'[r].pc = "flush" /\ request'[r].loaded = row
         /\ request'[r].new = Assigned(row, p) /\ request'[r].given = p
         /\ request'[r].id = 0 /\ request'[r].file = NoLogo /\ request'[r].stale = {}
  BY DEF Shape, Fields, Begun, OthersStay

LEMMA AbortStep ==
  ASSUME Shape, NEW r \in Request, Abort(r)
  PROVE  Shape' /\ OthersStay(r) /\ request'[r] = Idle
  BY DEF Shape, Fields, Abort, Idle, OthersStay

(* Nothing but what is stale changes for the others. *)
LEMMA CommitStep ==
  ASSUME Shape, NEW r \in Request, Commit(r)
  PROVE  /\ Shape' /\ request'[r] = Idle
         /\ \A o \in Request \ {r} :
               /\ request'[o].pc = request[o].pc
               /\ request'[o].loaded = request[o].loaded
               /\ request'[o].new = request[o].new
               /\ request'[o].given = request[o].given
               /\ request'[o].id = request[o].id
               /\ request'[o].file = request[o].file
               /\ request'[o].stale = IF request[o].pc \in Busy
                                      THEN request[o].stale \cup Outdated(r)
                                      ELSE request[o].stale
  BY DEF Shape, Fields, Commit, Idle, Busy

LEMMA IdleFields ==
  /\ DOMAIN Idle = Fields
  /\ Idle.pc = "idle" /\ Idle.loaded = FirstRow /\ Idle.new = FirstRow
  /\ Idle.id = 0 /\ Idle.file = NoLogo /\ Idle.stale = {}
  BY DEF Idle, Fields

-----------------------------------------------------------------------------
(* Types *)

RequestTyped(r) ==
    /\ request[r].pc \in Phase
    /\ IsRow(request[r].loaded) /\ IsRow(request[r].new)
    /\ request[r].id \in 0..MaxRows
    /\ request[r].file \in Logos
    /\ request[r].stale \subseteq {"name", "prefs"}
    /\ request[r].pc \in {"write", "named"} => request[r].file \in File
    /\ request[r].pc = "commit" => request[r].id \in 1..MaxRows

TInv == /\ Shape
        /\ IsRow(row)
        /\ audit \subseteq Entry
        /\ nextId \in 1..(MaxRows + 1)
        /\ files \subseteq [file : File, complete : BOOLEAN]
        /\ IsFiniteSet(files)
        /\ \A r \in Request : RequestTyped(r)
        /\ raced \subseteq {"name", "prefs"}

LEMMA FirstIsRow == IsRow(FirstRow)
  BY SettingsAssumption DEF IsRow, Column, Names, Colors, Logos

(* The columns assigned from a payload, or from the name of a file, are    *)
(* columns of a row.                                                       *)
LEMMA AssignedIsRow ==
  ASSUME NEW old, NEW p, IsRow(old),
         p.name = NotGiven \/ \E q \in Payload : p.name = q.name,
         p.color = NotGiven \/ \E q \in Payload : p.color = q.color,
         p.logo = NotGiven \/ p.logo \in Logos
  PROVE  IsRow(Assigned(old, p))
<1> DEFINE new == Assigned(old, p)
<1>1. DOMAIN new = Column
  BY DEF Assigned, Column
<1>2. new.name \in Names
  <2>1. CASE p.name = NotGiven
    BY <2>1 DEF Assigned, IsRow
  <2>2. CASE p.name # NotGiven
    BY <2>2, SettingsAssumption DEF Assigned, Cleaned, Names
  <2> QED  BY <2>1, <2>2
<1>3. new.color \in Colors
  BY DEF Assigned, IsRow, Colors
<1>4. new.logo \in Logos
  BY DEF Assigned, IsRow
<1> QED  BY <1>1, <1>2, <1>3, <1>4 DEF IsRow

LEMMA WrittenIsRow ==
  ASSUME NEW r \in Request, IsRow(row), IsRow(request[r].new)
  PROVE  IsRow(Written(r))
  BY DEF IsRow, Written, Column

(* The file a step stores has a number of its own. *)
LEMMA NewFileType ==
  ASSUME NEW i \in Image, IsFiniteSet(files), Cardinality(files) < MaxFiles
  PROVE  NewFile(i) \in File
<1>1. Cardinality(files) \in Nat
  BY FS_CardinalityType
<1> QED  BY <1>1, SettingsAssumption DEF NewFile, File, Suffix

LEMMA TInit == Init => TInv
<1> SUFFICES ASSUME Init PROVE TInv
  OBVIOUS
<1>1. Shape
  BY DEF Init, Shape, Idle, Fields
<1>2. \A r \in Request : RequestTyped(r)
  BY FirstIsRow, IdleFields, SettingsAssumption DEF Init, RequestTyped, Phase, Logos
<1>3. IsFiniteSet(files)
  BY FS_EmptySet DEF Init
<1> QED  BY <1>1, <1>2, <1>3, FirstIsRow, SettingsAssumption DEF Init, TInv

(* A request that is left alone, or only becomes stale, keeps its types.   *)
LEMMA OthersTyped ==
  ASSUME TInv, NEW r \in Request, OthersStay(r), RequestTyped(r)'
  PROVE  \A o \in Request : RequestTyped(o)'
  BY DEF TInv, OthersStay, RequestTyped

LEMMA IdleTyped ==
  ASSUME NEW r \in Request, request'[r] = Idle
  PROVE  RequestTyped(r)'
  BY FirstIsRow, IdleFields, SettingsAssumption DEF RequestTyped, Phase, Logos

LEMMA BegunTyped ==
  ASSUME TInv, NEW r \in Request, NEW p, IsRow(Assigned(row, p)),
         request' = [request EXCEPT ![r] = Begun(p)]
  PROVE  RequestTyped(r)'
<1>1. Shape /\ IsRow(row)
  BY DEF TInv
<1>2. /\ request'[r].pc = "flush" /\ request'[r].loaded = row
      /\ request'[r].new = Assigned(row, p)
      /\ request'[r].id = 0 /\ request'[r].file = NoLogo /\ request'[r].stale = {}
  BY <1>1, BeginStep
<1>3. 0 \in 0..MaxRows /\ NoLogo \in Logos /\ "flush" \in Phase
  BY SettingsAssumption DEF Logos, Phase
<1>4. IsRow(request'[r].loaded) /\ IsRow(request'[r].new)
  BY <1>1, <1>2
<1> QED  BY <1>2, <1>3, <1>4 DEF RequestTyped

LEMMA TNext == TInv /\ [Next]_vars => TInv'
<1> SUFFICES ASSUME TInv, [Next]_vars PROVE TInv'
  OBVIOUS
<1> USE SettingsAssumption
<1>1. ASSUME NEW r \in Request, NEW i \in Image, Upload(r, i) PROVE TInv'
  <2>1. NewFile(i) \in File
    BY <1>1, NewFileType DEF Upload, TInv
  <2>2. RequestTyped(r)' /\ OthersStay(r) /\ Shape'
    BY <1>1, <2>1, UploadStep DEF TInv, RequestTyped, Moves, Phase, Logos
  <2>3. \A o \in Request : RequestTyped(o)'
    BY <2>2, OthersTyped
  <2>4. IsFiniteSet(files')
    BY <1>1, FS_AddElement DEF Upload, TInv
  <2>5. files' \subseteq [file : File, complete : BOOLEAN]
    <3>1. [file |-> NewFile(i), complete |-> FALSE] \in [file : File, complete : BOOLEAN]
      BY <2>1
    <3> QED  BY <1>1, <3>1 DEF Upload, TInv
  <2> QED  BY <1>1, <2>2, <2>3, <2>4, <2>5 DEF Upload, TInv
<1>2. ASSUME NEW r \in Request, FinishUpload(r) PROVE TInv'
  <2>1. RequestTyped(r)' /\ OthersStay(r) /\ Shape' /\ request[r].file \in File
    BY <1>2, FinishUploadStep DEF TInv, RequestTyped, Moves, Phase, Logos
  <2>2. \A o \in Request : RequestTyped(o)'
    BY <2>1, OthersTyped
  <2>3. IsFiniteSet(files')
    <3>1. IsFiniteSet(files \ {[file |-> request[r].file, complete |-> FALSE]})
      BY FS_RemoveElement DEF TInv
    <3> QED  BY <1>2, <3>1, FS_AddElement DEF FinishUpload
  <2>4. files' \subseteq [file : File, complete : BOOLEAN]
    <3>1. [file |-> request[r].file, complete |-> TRUE] \in [file : File, complete : BOOLEAN]
      BY <2>1
    <3> QED  BY <1>2, <3>1 DEF FinishUpload, TInv
  <2> QED  BY <1>2, <2>1, <2>2, <2>3, <2>4 DEF FinishUpload, TInv
<1>3. ASSUME NEW r \in Request, NEW p \in Payload, Begin(r, p) PROVE TInv'
  <2>1. IsRow(Assigned(row, p))
    BY AssignedIsRow DEF TInv, Logos
  <2>2. RequestTyped(r)' /\ OthersStay(r) /\ Shape'
    BY <1>3, <2>1, BegunTyped, BeginStep DEF Begin, TInv
  <2>3. \A o \in Request : RequestTyped(o)'
    BY <2>2, OthersTyped
  <2> QED  BY <1>3, <2>2, <2>3 DEF Begin, TInv
<1>4. ASSUME NEW r \in Request, BeginLogo(r) PROVE TInv'
  <2> DEFINE p == LogoPayload(request[r].file)
  <2>1. request[r].file \in Logos
    BY DEF TInv, RequestTyped
  <2>2. p.name = NotGiven /\ p.color = NotGiven /\ p.logo = request[r].file
    BY DEF LogoPayload
  <2> HIDE DEF p
  <2>3. IsRow(Assigned(row, p))
    BY <2>1, <2>2, AssignedIsRow DEF TInv
  <2>4. request' = [request EXCEPT ![r] = Begun(p)]
    BY <1>4 DEF BeginLogo, p
  <2>5. RequestTyped(r)' /\ OthersStay(r) /\ Shape'
    BY <2>3, <2>4, BegunTyped, BeginStep DEF TInv
  <2>6. \A o \in Request : RequestTyped(o)'
    BY <2>5, OthersTyped
  <2> QED  BY <1>4, <2>5, <2>6 DEF BeginLogo, TInv
<1>5. ASSUME NEW r \in Request, Flush(r) PROVE TInv'
  <2>1. RequestTyped(r)' /\ OthersStay(r) /\ Shape'
    BY <1>5, FlushStep DEF TInv, RequestTyped, Moves, Phase
  <2>2. \A o \in Request : RequestTyped(o)'
    BY <2>1, OthersTyped
  <2> QED  BY <1>5, <2>1, <2>2 DEF Flush, TInv
<1>6. ASSUME NEW r \in Request, Stamp(r) PROVE TInv'
  <2>1. nextId \in 1..MaxRows /\ nextId' = nextId + 1
    BY <1>6 DEF Stamp, TInv
  <2>2. RequestTyped(r)' /\ OthersStay(r) /\ Shape'
    BY <1>6, <2>1, StampStep DEF TInv, RequestTyped, Moves, Phase
  <2>3. \A o \in Request : RequestTyped(o)'
    BY <2>2, OthersTyped
  <2> QED  BY <1>6, <2>1, <2>2, <2>3 DEF Stamp, TInv
<1>7. ASSUME NEW r \in Request, Commit(r) PROVE TInv'
  <2>1. IsRow(row')
    BY <1>7, WrittenIsRow DEF Commit, TInv, RequestTyped
  <2>2. request[r].id \in 1..MaxRows /\ IsRow(request[r].loaded) /\ IsRow(request[r].new)
    BY <1>7 DEF Commit, TInv, RequestTyped
  <2>3. Recorded(r) \in Entry
    BY <2>2 DEF Recorded, Entry, Shown, IsRow
  <2>4. Outdated(r) \subseteq {"name", "prefs"}
    BY DEF Outdated
  <2>5. ASSUME NEW o \in Request \ {r} PROVE RequestTyped(o)'
    <3>1. RequestTyped(o) /\ Shape
      BY DEF TInv
    <3>2. /\ request'[o].pc = request[o].pc /\ request'[o].loaded = request[o].loaded
          /\ request'[o].new = request[o].new /\ request'[o].id = request[o].id
          /\ request'[o].file = request[o].file
          /\ request'[o].stale \subseteq request[o].stale \cup Outdated(r)
      BY <1>7, <3>1, CommitStep
    <3>3. request'[o].stale \subseteq {"name", "prefs"}
      BY <2>4, <3>1, <3>2 DEF RequestTyped
    <3>4. IsRow(request'[o].loaded) /\ IsRow(request'[o].new)
      BY <3>1, <3>2 DEF RequestTyped
    <3> QED  BY <3>1, <3>2, <3>3, <3>4 DEF RequestTyped
  <2>6. RequestTyped(r)' /\ Shape'
    BY <1>7, CommitStep, IdleTyped DEF TInv
  <2>7. raced' \subseteq {"name", "prefs"}
    BY <1>7 DEF Commit, TInv
  <2> QED  BY <1>7, <2>1, <2>3, <2>5, <2>6, <2>7 DEF Commit, TInv
<1>8. ASSUME NEW r \in Request, Abort(r) PROVE TInv'
  <2>1. RequestTyped(r)' /\ OthersStay(r) /\ Shape'
    BY <1>8, AbortStep, IdleTyped DEF TInv
  <2>2. \A o \in Request : RequestTyped(o)'
    BY <2>1, OthersTyped
  <2> QED  BY <1>8, <2>1, <2>2 DEF Abort, TInv
<1>9. CASE ReadPage \/ UNCHANGED vars
  BY <1>9 DEF ReadPage, vars, TInv, Shape, RequestTyped
<1> QED
  BY <1>1, <1>2, <1>3, <1>4, <1>5, <1>6, <1>7, <1>8, <1>9 DEF Next

LEMMA SpecTInv == Spec => []TInv
  BY TInit, TNext, PTL DEF Spec

(* Rows, audit entries, files and requests have their types, for any       *)
(* payloads and images: no blank name is stored.                           *)
THEOREM TypeCorrect == Spec => []TypeOK
<1>1. TInv => TypeOK
  BY DEF TInv, TypeOK, RequestTyped
<1> QED  BY <1>1, SpecTInv, PTL

-----------------------------------------------------------------------------
(* Name and preferences: what a request may not have noticed *)

Began(r, p) ==
    /\ request'[r].loaded = row /\ request'[r].new = Assigned(row, p)
    /\ request'[r].given = p /\ request'[r].stale = {}

Continues(r) ==
    /\ request[r].pc \in Busy
    /\ request'[r].loaded = request[r].loaded /\ request'[r].new = request[r].new
    /\ request'[r].given = request[r].given /\ request'[r].stale = request[r].stale

(* Only a commit changes the row and what others have to know of it.       *)
LEMMA QuietStep ==
  ASSUME TInv, [Next]_vars, ~\E r \in Request : Commit(r)
  PROVE  /\ UNCHANGED <<row, audit, wish, raced>>
         /\ \A r \in Request : \/ request'[r].pc \notin Busy
                               \/ Continues(r)
                               \/ \E p : Began(r, p)
<1> DEFINE Quiet(r) == \/ request'[r].pc \notin Busy
                       \/ Continues(r)
                       \/ \E p : Began(r, p)
<1>0. Shape
  BY DEF TInv
<1>1. ASSUME NEW r \in Request, OthersStay(r), Quiet(r) PROVE \A o \in Request : Quiet(o)
  BY <1>1 DEF OthersStay, Continues
<1>2. ASSUME NEW r \in Request, NEW i \in Image, Upload(r, i) PROVE OthersStay(r) /\ Quiet(r)
  BY <1>0, <1>2, UploadStep DEF Moves, Busy
<1>3. ASSUME NEW r \in Request, FinishUpload(r) PROVE OthersStay(r) /\ Quiet(r)
  BY <1>0, <1>3, FinishUploadStep DEF Moves, Busy
<1>4. ASSUME NEW r \in Request, NEW p, request' = [request EXCEPT ![r] = Begun(p)]
      PROVE  OthersStay(r) /\ Quiet(r)
  <2>1. OthersStay(r) /\ Began(r, p)
    BY <1>0, <1>4, BeginStep DEF Began
  <2> QED  BY <2>1
<1>5. ASSUME NEW r \in Request, Flush(r) \/ Stamp(r) PROVE OthersStay(r) /\ Quiet(r)
  BY <1>0, <1>5, FlushStep, StampStep DEF Moves, Continues, Busy
<1>6. ASSUME NEW r \in Request, Abort(r) PROVE OthersStay(r) /\ Quiet(r)
  BY <1>0, <1>6, AbortStep, IdleFields DEF Busy
<1>7. CASE ReadPage \/ UNCHANGED vars
  BY <1>7 DEF ReadPage, vars, Continues
<1>8. UNCHANGED <<row, audit, wish, raced>>
  BY DEF Next, vars, Upload, FinishUpload, Begin, BeginLogo, Flush, Stamp, Abort, ReadPage
<1>9. \A r \in Request : Quiet(r)
  <2>1. ASSUME NEW r \in Request, NEW p \in Payload, Begin(r, p)
        PROVE  OthersStay(r) /\ Quiet(r)
    BY <1>4, <2>1 DEF Begin
  <2>2. ASSUME NEW r \in Request, BeginLogo(r) PROVE OthersStay(r) /\ Quiet(r)
    BY <1>4, <2>2 DEF BeginLogo
  <2> HIDE DEF Quiet
  <2>3. CASE \E r \in Request : OthersStay(r) /\ Quiet(r)
    BY <1>1, <2>3
  <2>4. CASE Next /\ ~ReadPage
    BY <1>2, <1>3, <1>5, <1>6, <2>1, <2>2, <2>3, <2>4 DEF Next
  <2>5. CASE ReadPage \/ UNCHANGED vars
    BY <1>7, <2>5 DEF Quiet
  <2> QED  BY <2>4, <2>5
<1> QED  BY <1>8, <1>9

(* A request that is not stale has loaded the name the row has, and what   *)
(* it is to write agrees with what it was given.                           *)
KnowsName(r) ==
    request[r].pc \in Busy =>
        /\ "name" \notin request[r].stale =>
              /\ request[r].loaded.name = row.name
              /\ request[r].loaded.initials = row.initials
        /\ request[r].given.name = NotGiven =>
              /\ request[r].new.name = request[r].loaded.name
              /\ request[r].new.initials = request[r].loaded.initials
        /\ request[r].given.name # NotGiven =>
              request[r].new.initials = InitialsOf(request[r].new.name)

KnowsPrefs(r) ==
    request[r].pc \in Busy =>
        /\ "prefs" \notin request[r].stale => request[r].loaded.prefs = row.prefs
        /\ request[r].new.prefs = Preferences(request[r].loaded.prefs, request[r].given.prefs)

KInv == /\ TInv /\ MonogramAgrees /\ PreferencesKept
        /\ \A r \in Request : KnowsName(r) /\ KnowsPrefs(r)

LEMMA KInit == Init => KInv
<1> SUFFICES ASSUME Init PROVE KInv
  OBVIOUS
<1>1. TInv
  BY TInit
<1>2. MonogramAgrees /\ PreferencesKept
  BY FirstRowAgrees DEF Init, MonogramAgrees, PreferencesKept
<1>3. \A r \in Request : KnowsName(r) /\ KnowsPrefs(r)
  BY IdleFields DEF Init, KnowsName, KnowsPrefs, Busy
<1> QED  BY <1>1, <1>2, <1>3 DEF KInv

(* Without a commit: the requests that begin know the row, the others know *)
(* what they have known.                                                   *)
LEMMA KQuiet ==
  ASSUME KInv, [Next]_vars, ~\E r \in Request : Commit(r)
  PROVE  KInv'
<1>1. TInv /\ TInv'
  BY TNext DEF KInv
<1>2. MonogramAgrees' /\ PreferencesKept'
  BY <1>1, QuietStep DEF KInv, MonogramAgrees, PreferencesKept
<1>3. ASSUME NEW r \in Request, Continues(r) PROVE KnowsName(r)' /\ KnowsPrefs(r)'
  <2>1. row' = row
    BY <1>1, QuietStep
  <2> QED  BY <1>3, <2>1 DEF KInv, Continues, KnowsName, KnowsPrefs
<1>4. ASSUME NEW r \in Request, NEW p, Began(r, p) PROVE KnowsName(r)' /\ KnowsPrefs(r)'
  <2>1. row' = row
    BY <1>1, QuietStep
  <2>2. /\ Assigned(row, p).prefs = Preferences(row.prefs, p.prefs)
        /\ p.name = NotGiven => /\ Assigned(row, p).name = row.name
                                /\ Assigned(row, p).initials = row.initials
        /\ p.name # NotGiven => Assigned(row, p).initials = InitialsOf(Assigned(row, p).name)
    BY DEF Assigned
  <2> QED  BY <1>4, <2>1, <2>2 DEF Began, KnowsName, KnowsPrefs
<1>5. ASSUME NEW r \in Request, request'[r].pc \notin Busy
      PROVE  KnowsName(r)' /\ KnowsPrefs(r)'
  BY <1>5 DEF KnowsName, KnowsPrefs
<1> QED  BY <1>1, <1>2, <1>3, <1>4, <1>5, QuietStep DEF KInv

(* A commit of what it knows of the name keeps name and initials together, *)
(* one of what it does not is a race.                                      *)
LEMMA CommitNames ==
  ASSUME KInv, NEW r \in Request, Commit(r)
  PROVE  MonogramAgrees' /\ PreferencesKept'
<1> DEFINE q == request[r]
<1>1. /\ q.pc \in Busy /\ row' = Written(r)
      /\ raced' = raced \cup {g \in q.stale : \/ g = "name" /\ q.given.name # NotGiven
                                              \/ g = "prefs" /\ q.given.prefs # NotGiven}
      /\ wish' = IF q.given.prefs = NotGiven THEN wish ELSE Merged(wish, q.given.prefs)
  BY DEF Commit, Busy
<1>2. /\ row'.name = IF q.new.name # q.loaded.name THEN q.new.name ELSE row.name
      /\ row'.initials = IF q.new.initials # q.loaded.initials
                         THEN q.new.initials ELSE row.initials
      /\ row'.prefs = IF q.new.prefs # q.loaded.prefs THEN q.new.prefs ELSE row.prefs
  BY <1>1 DEF Written, Changes, Column
<1>3. KnowsName(r) /\ KnowsPrefs(r) /\ MonogramAgrees /\ PreferencesKept
  BY DEF KInv
<1>4. MonogramAgrees'
  <2> SUFFICES ASSUME "name" \notin raced' PROVE row'.initials = InitialsOf(row'.name)
    BY DEF MonogramAgrees
  <2>1. CASE q.given.name = NotGiven
    BY <1>1, <1>2, <1>3, <2>1 DEF KnowsName, MonogramAgrees
  <2>2. CASE q.given.name # NotGiven
    <3>1. "name" \notin q.stale
      BY <1>1, <2>2
    <3>2. row'.name = q.new.name /\ row'.initials = q.new.initials
      BY <1>1, <1>2, <1>3, <3>1 DEF KnowsName
    <3> QED  BY <1>1, <1>3, <2>2, <3>2 DEF KnowsName
  <2> QED  BY <2>1, <2>2
<1>5. PreferencesKept'
  <2> SUFFICES ASSUME "prefs" \notin raced' PROVE row'.prefs = wish'
    BY DEF PreferencesKept
  <2>1. CASE q.given.prefs = NotGiven
    BY <1>1, <1>2, <1>3, <2>1 DEF KnowsPrefs, PreferencesKept, Preferences
  <2>2. CASE q.given.prefs # NotGiven
    <3>1. "prefs" \notin q.stale
      BY <1>1, <2>2
    <3>2. q.loaded.prefs = row.prefs /\ q.new.prefs = Merged(row.prefs, q.given.prefs)
      BY <1>1, <1>3, <2>2, <3>1 DEF KnowsPrefs, Preferences
    <3>3. row.prefs = wish
      BY <1>1, <1>3 DEF PreferencesKept
    <3> QED  BY <1>1, <1>2, <2>2, <3>2, <3>3
  <2> QED  BY <2>1, <2>2
<1> QED  BY <1>4, <1>5

(* The others learn from "stale" what a commit has changed.                *)
LEMMA KCommit ==
  ASSUME KInv, NEW r \in Request, Commit(r)
  PROVE  KInv'
<1>1. TInv' /\ Shape
  BY TNext DEF KInv, TInv, Next
<1>2. MonogramAgrees' /\ PreferencesKept'
  BY CommitNames
<1>3. row' = Written(r)
  BY DEF Commit
<1>4. "name" \notin Outdated(r) => row'.name = row.name /\ row'.initials = row.initials
  BY <1>3 DEF Outdated, Written, Column
<1>5. "prefs" \notin Outdated(r) => row'.prefs = row.prefs
  BY <1>3 DEF Outdated, Written, Column
<1>6. ASSUME NEW o \in Request PROVE KnowsName(o)' /\ KnowsPrefs(o)'
  <2>1. CASE o = r
    BY <1>1, <2>1, CommitStep, IdleFields DEF KnowsName, KnowsPrefs, Busy
  <2>2. CASE o # r
    <3>1. KnowsName(o) /\ KnowsPrefs(o)
      BY DEF KInv
    <3>2. /\ request'[o].pc = request[o].pc /\ request'[o].loaded = request[o].loaded
          /\ request'[o].new = request[o].new /\ request'[o].given = request[o].given
          /\ request[o].pc \in Busy => request'[o].stale = request[o].stale \cup Outdated(r)
      BY <1>1, <2>2, CommitStep
    <3>3. KnowsName(o)'
      BY <1>4, <3>1, <3>2 DEF KnowsName
    <3>4. KnowsPrefs(o)'
      BY <1>5, <3>1, <3>2 DEF KnowsPrefs
    <3> QED  BY <3>3, <3>4
  <2> QED  BY <2>1, <2>2
<1> QED  BY <1>1, <1>2, <1>6 DEF KInv

LEMMA SpecKInv == Spec => []KInv
<1>1. KInv /\ [Next]_vars => KInv'
  BY KQuiet, KCommit
<1> QED  BY <1>1, KInit, PTL DEF Spec

(* Renames that do not overlap never leave a monogram of another name.     *)
THEOREM MonogramFollowsName == Spec => []MonogramAgrees
<1>1. KInv => MonogramAgrees
  BY DEF KInv
<1> QED  BY <1>1, SpecKInv, PTL

(* PATCHes of preferences that do not overlap never lose one another's.    *)
THEOREM PreferencesMerge == Spec => []PreferencesKept
<1>1. KInv => PreferencesKept
  BY DEF KInv
<1> QED  BY <1>1, SpecKInv, PTL

-----------------------------------------------------------------------------
(* Logos *)

(* A name that is handed out, or is to be written, is that of a whole file. *)
NamesFile(r) ==
    /\ request[r].pc = "named" => Served(request[r].file)
    /\ request[r].pc \in Busy /\ request[r].new.logo # NoLogo => Served(request[r].new.logo)

LInv == TInv /\ LogoServed /\ \A r \in Request : NamesFile(r)

LEMMA LInit == Init => LInv
<1> SUFFICES ASSUME Init PROVE LInv
  OBVIOUS
<1>1. LogoServed
  BY SettingsAssumption DEF Init, LogoServed
<1>2. \A r \in Request : NamesFile(r)
  BY IdleFields DEF Init, NamesFile, Busy
<1> QED  BY <1>1, <1>2, TInit DEF LInv

(* Files that are whole stay so. *)
LEMMA ServedStays ==
  ASSUME [Next]_vars, NEW f, Served(f)
  PROVE  Served(f)'
<1>1. CASE UNCHANGED files
  BY <1>1 DEF Served
<1>2. ASSUME NEW r \in Request, NEW i \in Image, Upload(r, i) PROVE Served(f)'
  BY <1>2 DEF Upload, Served
<1>3. ASSUME NEW r \in Request, FinishUpload(r) PROVE Served(f)'
  <2>1. [file |-> f, complete |-> TRUE] # [file |-> request[r].file, complete |-> FALSE]
    OBVIOUS
  <2> QED  BY <1>3, <2>1 DEF FinishUpload, Served
<1> QED
  BY <1>1, <1>2, <1>3 DEF Next, vars, Begin, BeginLogo, Flush, Stamp, Commit, Abort, ReadPage

LEMMA LNext == LInv /\ [Next]_vars => LInv'
<1> SUFFICES ASSUME LInv, [Next]_vars PROVE LInv'
  OBVIOUS
<1>0. TInv' /\ TInv /\ Shape
  BY TNext DEF LInv, TInv
<1>1. ASSUME NEW o \in Request, request'[o].file = request[o].file,
             request'[o].pc = request[o].pc, request'[o].new = request[o].new
      PROVE  NamesFile(o)'
  <2>1. NamesFile(o)
    BY DEF LInv
  <2> QED  BY <1>1, <2>1, ServedStays DEF NamesFile
<1>2. ASSUME row' = row PROVE LogoServed'
  BY <1>2, ServedStays DEF LInv, LogoServed
<1>3. ASSUME NEW r \in Request, OthersStay(r), NamesFile(r)', row' = row PROVE LInv'
  BY <1>0, <1>1, <1>2, <1>3 DEF LInv, OthersStay
<1>4. ASSUME NEW r \in Request, NEW i \in Image, Upload(r, i) PROVE LInv'
  BY <1>0, <1>3, <1>4, UploadStep DEF Upload, Moves, NamesFile, Busy
<1>5. ASSUME NEW r \in Request, FinishUpload(r) PROVE LInv'
  <2>1. request[r].file \in File
    BY <1>0, <1>5 DEF FinishUpload, TInv, RequestTyped
  <2>2. Served(request[r].file)'
    BY <1>5, <2>1 DEF FinishUpload, Served
  <2> QED  BY <1>0, <1>3, <1>5, <2>2, FinishUploadStep, ServedStays
            DEF FinishUpload, Moves, NamesFile, Busy, Served
<1>6. ASSUME NEW r \in Request, NEW p \in Payload, Begin(r, p) PROVE LInv'
  <2>1. Assigned(row, p).logo \in {row.logo, NoLogo}
    BY SettingsAssumption DEF Assigned
  <2>2. request'[r].pc = "flush" /\ request'[r].new = Assigned(row, p) /\ OthersStay(r)
    BY <1>0, <1>6, BeginStep DEF Begin
  <2>3. PICK l : l = Assigned(row, p).logo
    OBVIOUS
  <2>4. l # NoLogo => Served(l)
    BY <2>1, <2>3 DEF LInv, LogoServed
  <2>5. l # NoLogo => Served(l)'
    BY <2>4, ServedStays
  <2>6. NamesFile(r)'
    BY <2>2, <2>3, <2>5 DEF NamesFile, Served
  <2> QED  BY <1>3, <1>6, <2>2, <2>6 DEF Begin
<1>7. ASSUME NEW r \in Request, BeginLogo(r) PROVE LInv'
  <2> DEFINE p == LogoPayload(request[r].file)
  <2>1. Assigned(row, p).logo \in {row.logo, request[r].file}
    BY DEF Assigned, LogoPayload
  <2>2. request' = [request EXCEPT ![r] = Begun(p)]
    BY <1>7 DEF BeginLogo
  <2> HIDE DEF p
  <2>3. request'[r].pc = "flush" /\ request'[r].new = Assigned(row, p) /\ OthersStay(r)
    BY <1>0, <2>2, BeginStep
  <2>4. Served(request[r].file)
    BY <1>7 DEF BeginLogo, LInv, NamesFile
  <2>5. PICK l : l = Assigned(row, p).logo
    OBVIOUS
  <2>6. l # NoLogo => Served(l)
    BY <2>1, <2>4, <2>5 DEF LInv, LogoServed
  <2>7. l # NoLogo => Served(l)'
    BY <2>6, ServedStays
  <2>8. NamesFile(r)'
    BY <2>3, <2>5, <2>7 DEF NamesFile, Served
  <2> QED  BY <1>3, <1>7, <2>3, <2>8 DEF BeginLogo
<1>8. ASSUME NEW r \in Request, Flush(r) \/ Stamp(r) PROVE LInv'
  <2>1. /\ OthersStay(r) /\ request'[r].new = request[r].new
        /\ request[r].pc \in Busy /\ request'[r].pc \in Busy
    BY <1>0, <1>8, FlushStep, StampStep DEF Moves, Busy
  <2>2. NamesFile(r)'
    BY <2>1, ServedStays DEF LInv, NamesFile, Busy, Served
  <2> QED  BY <1>3, <1>8, <2>1, <2>2 DEF Flush, Stamp
<1>9. ASSUME NEW r \in Request, Commit(r) PROVE LInv'
  <2>1. \A o \in Request \ {r} : NamesFile(o)'
    BY <1>0, <1>1, <1>9, CommitStep
  <2>2. NamesFile(r)'
    BY <1>0, <1>9, CommitStep, IdleFields DEF NamesFile, Busy
  <2>3. row'.logo \in {row.logo, request[r].new.logo}
    BY <1>9 DEF Commit, Written, Column
  <2>4. request[r].new.logo # NoLogo => Served(request[r].new.logo)
    BY <1>9 DEF Commit, LInv, NamesFile, Busy
  <2>5. LogoServed'
    BY <2>3, <2>4, ServedStays DEF LInv, LogoServed
  <2> QED  BY <1>0, <2>1, <2>2, <2>5 DEF LInv
<1>10. ASSUME NEW r \in Request, Abort(r) PROVE LInv'
  BY <1>0, <1>3, <1>10, AbortStep, IdleFields DEF Abort, NamesFile, Busy
<1>11. CASE ReadPage \/ UNCHANGED vars
  BY <1>0, <1>1, <1>2, <1>11 DEF ReadPage, vars, LInv
<1> QED
  BY <1>4, <1>5, <1>6, <1>7, <1>8, <1>9, <1>10, <1>11 DEF Next

(* The logo that the settings name is served, whole, wherever uploads and  *)
(* PATCHes fail.                                                           *)
THEOREM LogoIsServed == Spec => []LogoServed
<1>1. LInv => LogoServed
  BY DEF LInv
<1> QED  BY <1>1, LInit, LNext, PTL DEF Spec

-----------------------------------------------------------------------------
(* The audit log *)

TellsChange(e) == \E c \in Shown : ChangesIn(e, c)

(* Ids are used once, only one request holds the row, and the id of one    *)
(* that has changed it is the latest of all that tell of a change.         *)
AInv ==
    /\ TInv /\ AuditReplays
    /\ \A e \in audit : e.id < nextId
    /\ \A r, o \in Request : HoldsRow(r) /\ HoldsRow(o) => r = o
    /\ \A r \in Request : request[r].pc = "commit" =>
          /\ request[r].id < nextId
          /\ HoldsRow(r) => \A e \in audit : TellsChange(e) => e.id < request[r].id

LEMMA AInit == Init => AInv
<1> SUFFICES ASSUME Init PROVE AInv
  OBVIOUS
<1>1. AuditReplays
  BY DEF Init, AuditReplays
<1>2. \A r \in Request : request[r].pc = "idle"
  BY IdleFields DEF Init
<1> QED  BY <1>1, <1>2, TInit DEF Init, AInv, HoldsRow

(* A step that commits nothing and stamps nothing. *)
LEMMA APlain ==
  ASSUME AInv, TInv', UNCHANGED <<row, audit, nextId>>,
         NEW r \in Request, OthersStay(r), request'[r].pc # "commit",
         HoldsRow(r)' => \A o \in Request \ {r} : ~HoldsRow(o)
  PROVE  AInv'
<1>1. AuditReplays'
  BY DEF AInv, AuditReplays
<1>2. \A o \in Request \ {r} : HoldsRow(o)' <=> HoldsRow(o)
  BY DEF OthersStay, HoldsRow, Changes
<1>3. \A q, o \in Request : HoldsRow(q)' /\ HoldsRow(o)' => q = o
  BY <1>2 DEF AInv
<1>4. \A o \in Request : request'[o].pc = "commit" =>
          /\ request'[o].id < nextId'
          /\ HoldsRow(o)' => \A e \in audit' : TellsChange(e) => e.id < request'[o].id
  BY <1>2 DEF AInv, OthersStay
<1> QED  BY <1>1, <1>3, <1>4 DEF AInv

LEMMA AStamp ==
  ASSUME AInv, TInv', NEW r \in Request, Stamp(r)
  PROVE  AInv'
<1>0. Shape /\ nextId \in Nat /\ \A e \in audit : e.id \in Nat
  BY DEF AInv, TInv, Entry
<1>1. /\ OthersStay(r) /\ Moves(r, "record", "commit") /\ request'[r].id = nextId
      /\ UNCHANGED <<row, audit>> /\ nextId' = nextId + 1
  BY <1>0, StampStep DEF Stamp
<1>2. \A o \in Request : HoldsRow(o)' <=> HoldsRow(o)
  BY <1>1 DEF OthersStay, Moves, HoldsRow, Changes
<1>3. AuditReplays'
  BY <1>1 DEF AInv, AuditReplays
<1>4. \A e \in audit' : e.id < nextId'
  BY <1>0, <1>1 DEF AInv
<1>5. ASSUME NEW o \in Request, request'[o].pc = "commit"
      PROVE  /\ request'[o].id < nextId'
             /\ HoldsRow(o)' => \A e \in audit' : TellsChange(e) => e.id < request'[o].id
  <2>1. CASE o = r
    BY <1>0, <1>1, <2>1 DEF AInv
  <2>2. CASE o # r
    <3>1. request'[o] = request[o] /\ request[o].id \in Nat
      BY <1>1, <2>2 DEF OthersStay, AInv, TInv, RequestTyped
    <3> QED  BY <1>0, <1>1, <1>2, <1>5, <3>1 DEF AInv
  <2> QED  BY <2>1, <2>2
<1> QED  BY <1>1, <1>2, <1>3, <1>4, <1>5 DEF AInv

(* What a commit records of a column is what it does to it.                *)
LEMMA CommitReplays ==
  ASSUME AInv, NEW r \in Request, Commit(r)
  PROVE  AuditReplays'
<1> DEFINE x == Recorded(r)
<1>1. /\ audit' = audit \cup {x} /\ row' = Written(r) /\ request[r].pc = "commit"
      /\ x.id = request[r].id /\ x.id \in Nat /\ \A e \in audit : e.id \in Nat
  BY DEF Commit, Recorded, AInv, TInv, RequestTyped, Entry
<1> SUFFICES ASSUME NEW c \in Shown
             PROVE  LET told == {e \in audit' : ChangesIn(e, c)}
                    IN  /\ told = {} => row'[c] = FirstRow[c]
                        /\ \A e \in told : (\A d \in told : d.id <= e.id) => row'[c] = e.after[c]
  BY DEF AuditReplays
<1>2. /\ x.before[c] = request[r].loaded[c] /\ x.after[c] = request[r].new[c]
      /\ row'[c] = IF request[r].new[c] # request[r].loaded[c] THEN request[r].new[c] ELSE row[c]
  BY <1>1 DEF Recorded, Written, Changes, Shown, Column
<1> HIDE DEF x
<1> DEFINE old == {e \in audit : ChangesIn(e, c)}
           new == {e \in audit' : ChangesIn(e, c)}
<1>3. /\ old = {} => row[c] = FirstRow[c]
      /\ \A e \in old : (\A d \in old : d.id <= e.id) => row[c] = e.after[c]
  BY DEF AInv, AuditReplays
<1>4. CASE ~ChangesIn(x, c)
  <2>1. new = old
    BY <1>1, <1>4
  <2>2. row'[c] = row[c]
    BY <1>2, <1>4 DEF ChangesIn
  <2> QED  BY <1>3, <2>1, <2>2
<1>5. CASE ChangesIn(x, c)
  <2>1. x \in new /\ row'[c] = x.after[c]
    BY <1>1, <1>2, <1>5 DEF ChangesIn
  <2>2. HoldsRow(r)
    <3>1. c \in Changes(r)
      BY <1>2, <1>5 DEF ChangesIn, Changes, Shown, Column
    <3> QED  BY <1>1, <3>1 DEF HoldsRow
  <2>3. \A e \in old : e.id < x.id
    BY <1>1, <2>2 DEF AInv, TellsChange
  <2>4. ASSUME NEW e \in new, \A d \in new : d.id <= e.id PROVE row'[c] = e.after[c]
    <3>1. e = x \/ e \in old
      BY <1>1
    <3>2. CASE e \in old
      BY <1>1, <2>1, <2>3, <2>4, <3>2
    <3> QED  BY <2>1, <3>1, <3>2
  <2> QED  BY <2>1, <2>4
<1> QED  BY <1>4, <1>5

LEMMA ACommit ==
  ASSUME AInv, TInv', NEW r \in Request, Commit(r)
  PROVE  AInv'
<1>1. AuditReplays'
  BY CommitReplays
<1>2. /\ request'[r] = Idle
      /\ \A o \in Request \ {r} : /\ request'[o].pc = request[o].pc
                                  /\ request'[o].loaded = request[o].loaded
                                  /\ request'[o].new = request[o].new
                                  /\ request'[o].id = request[o].id
  BY CommitStep DEF AInv, TInv
<1>3. ~HoldsRow(r)' /\ \A o \in Request \ {r} : HoldsRow(o)' <=> HoldsRow(o)
  BY <1>2, IdleFields DEF HoldsRow, Changes
<1>4. /\ audit' = audit \cup {Recorded(r)} /\ nextId' = nextId
      /\ Recorded(r).id = request[r].id /\ request[r].pc = "commit"
  BY DEF Commit, Recorded
<1>5. \A e \in audit' : e.id < nextId'
  BY <1>4 DEF AInv
<1>6. TellsChange(Recorded(r)) => HoldsRow(r)
  <2>1. ASSUME NEW c \in Shown, ChangesIn(Recorded(r), c) PROVE c \in Changes(r)
    BY <2>1 DEF ChangesIn, Recorded, Changes, Shown, Column
  <2> QED  BY <1>4, <2>1 DEF TellsChange, HoldsRow
<1>7. ASSUME NEW o \in Request, request'[o].pc = "commit"
      PROVE  /\ request'[o].id < nextId'
             /\ HoldsRow(o)' => \A e \in audit' : TellsChange(e) => e.id < request'[o].id
  <2>1. o # r
    BY <1>2, <1>7, IdleFields
  <2>2. request[o].pc = "commit" /\ request'[o].id = request[o].id
    BY <1>2, <1>7, <2>1
  <2>3. HoldsRow(o)' => ~TellsChange(Recorded(r))
    BY <1>3, <1>6, <2>1 DEF AInv
  <2> QED  BY <1>3, <1>4, <2>1, <2>2, <2>3 DEF AInv
<1> QED  BY <1>1, <1>3, <1>5, <1>7 DEF AInv

LEMMA ANext == AInv /\ [Next]_vars => AInv'
<1> SUFFICES ASSUME AInv, [Next]_vars PROVE AInv'
  OBVIOUS
<1>0. TInv' /\ TInv /\ Shape
  BY TNext DEF AInv, TInv
<1>1. ASSUME NEW r \in Request, NEW i \in Image, Upload(r, i) PROVE AInv'
  BY <1>0, <1>1, UploadStep, APlain DEF Upload, Moves, HoldsRow
<1>2. ASSUME NEW r \in Request, FinishUpload(r) PROVE AInv'
  BY <1>0, <1>2, FinishUploadStep, APlain DEF FinishUpload, Moves, HoldsRow
<1>3. ASSUME NEW r \in Request, NEW p, request' = [request EXCEPT ![r] = Begun(p)],
             UNCHANGED <<row, audit, nextId>>
      PROVE  AInv'
  <2>1. request'[r].pc = "flush" /\ OthersStay(r)
    BY <1>0, <1>3, BeginStep
  <2> QED  BY <1>0, <1>3, <2>1, APlain DEF HoldsRow
<1>4. ASSUME NEW r \in Request, Flush(r) PROVE AInv'
  <2>1. OthersStay(r) /\ Moves(r, "flush", "record")
    BY <1>0, <1>4, FlushStep
  <2>2. HoldsRow(r)' => \A o \in Request : ~HoldsRow(o)
    BY <1>4, <2>1 DEF Flush, Moves, HoldsRow, Changes
  <2> QED  BY <1>0, <1>4, <2>1, <2>2, APlain DEF Flush, Moves
<1>5. ASSUME NEW r \in Request, Abort(r) PROVE AInv'
  BY <1>0, <1>5, AbortStep, IdleFields, APlain DEF Abort, HoldsRow
<1>6. CASE ReadPage \/ UNCHANGED vars
  BY <1>0, <1>6 DEF ReadPage, vars, AInv, AuditReplays, HoldsRow, Changes
<1> QED
  BY <1>0, <1>1, <1>2, <1>3, <1>4, <1>5, <1>6, AStamp, ACommit DEF Next, Begin, BeginLogo

(* The audit log replays to the settings, however PATCHes overlap.         *)
THEOREM LogReplays == Spec => []AuditReplays
<1>1. AInv => AuditReplays
  BY DEF AInv
<1> QED  BY <1>1, AInit, ANext, PTL DEF Spec
-----------------------------------------------------------------------------
(* Paging *)

(* Naturals have a least element, and what has a bound a greatest; where   *)
(* a proof is by induction it takes the least counterexample.              *)
LEMMA LeastOf ==
  ASSUME NEW S \in SUBSET Nat, S # {}
  PROVE  \E m \in S : \A i \in S : m <= i
<1>1. PICK m \in S : \A i \in S : <<i, m>> \notin OpToRel(<, Nat)
  BY WFMin, NatLessThanWellFounded
<1>2. \A i \in S : ~(i < m)
  BY <1>1 DEF OpToRel
<1> QED  BY <1>2

LEMMA GreatestOf ==
  ASSUME NEW S \in SUBSET Nat, S # {}, NEW n \in Nat, \A i \in S : i <= n
  PROVE  \E m \in S : \A i \in S : i <= m
<1> DEFINE T == {n - i : i \in S}
<1>1. T \in SUBSET Nat /\ T # {}
  <2>1. \A i \in S : n - i \in Nat
    BY SMT
  <2> QED  BY <2>1
<1>2. PICK d \in T : \A e \in T : d <= e
  BY <1>1, LeastOf
<1>3. PICK m \in S : d = n - m
  OBVIOUS
<1> QED  BY <1>2, <1>3

IsDescending(q) == \A i, j \in DOMAIN q : i < j => q[i] > q[j]

(* A finite set has a descending enumeration: what remains without its     *)
(* least element has one, and that element comes last.                     *)
LEMMA DescendingExists ==
  ASSUME NEW S \in SUBSET Nat, IsFiniteSet(S)
  PROVE  \E q \in [1..Cardinality(S) -> S] : IsDescending(q)
<1> DEFINE Listed(T) == \E q \in [1..Cardinality(T) -> T] : IsDescending(q)
           Bad == {n \in Nat : \E T \in SUBSET Nat : /\ IsFiniteSet(T)
                                                    /\ Cardinality(T) = n
                                                    /\ ~Listed(T)}
<1>1. ASSUME NEW n \in Bad, \A m \in Bad : n <= m PROVE FALSE
  <2>1. PICK T \in SUBSET Nat : IsFiniteSet(T) /\ Cardinality(T) = n /\ ~Listed(T)
    OBVIOUS
  <2>2. T # {}
    <3> SUFFICES ASSUME T = {} PROVE Listed(T)
      BY <2>1
    <3> DEFINE q == [i \in 1..0 |-> i]
    <3>1. Cardinality(T) = 0
      BY FS_EmptySet
    <3>2. q \in [1..Cardinality(T) -> T] /\ IsDescending(q)
      BY <3>1 DEF IsDescending
    <3> QED  BY <3>2
  <2>3. PICK m \in T : \A i \in T : m <= i
    BY <2>2, LeastOf
  <2> DEFINE U == T \ {m}
  <2>4. IsFiniteSet(U) /\ Cardinality(U) = n - 1 /\ n \in Nat \ {0}
    BY <2>1, <2>2, FS_RemoveElement, FS_EmptySet
  <2>5. Listed(U)
    <3>1. n - 1 \notin Bad
      BY <1>1, <2>4
    <3>2. U \in SUBSET Nat /\ n - 1 \in Nat
      BY <2>4
    <3> QED  BY <2>4, <3>1, <3>2
  <2>6. PICK q \in [1..(n - 1) -> U] : IsDescending(q)
    BY <2>4, <2>5
  <2> DEFINE p == [i \in 1..n |-> IF i = n THEN m ELSE q[i]]
  <2>7. p \in [1..n -> T]
    BY <2>4
  <2>8. ASSUME NEW i \in 1..n, NEW j \in 1..n, i < j PROVE p[i] > p[j]
    <3>1. i \in 1..(n - 1) /\ p[i] = q[i] /\ q[i] \in U
      BY <2>4, <2>8
    <3>2. CASE j = n
      <4>1. p[j] = m /\ q[i] # m /\ q[i] \in Nat /\ m \in Nat /\ m <= q[i]
        BY <2>3, <3>1, <3>2
      <4> QED  BY <3>1, <4>1
    <3>3. CASE j # n
      <4>1. j \in 1..(n - 1) /\ p[j] = q[j]
        BY <2>4, <3>3
      <4> QED  BY <2>6, <2>8, <3>1, <4>1 DEF IsDescending
    <3> QED  BY <3>2, <3>3
  <2>9. IsDescending(p)
    BY <2>8 DEF IsDescending
  <2> QED  BY <2>1, <2>7, <2>9
<1>2. Bad = {}
  <2>1. Bad \in SUBSET Nat
    OBVIOUS
  <2> HIDE DEF Bad
  <2> QED  BY <1>1, <2>1, LeastOf
<1>3. Cardinality(S) \in Nat
  BY FS_CardinalityType
<1> QED  BY <1>2, <1>3

(* So what ReadPage appends is a page in descending order, whole.          *)
LEMMA DescendingOf ==
  ASSUME NEW S \in SUBSET Nat, IsFiniteSet(S)
  PROVE  /\ Descending(S) \in Seq(Nat) /\ IsDescending(Descending(S))
         /\ {Descending(S)[i] : i \in DOMAIN Descending(S)} = S
<1> DEFINE n == Cardinality(S)
           q == Descending(S)
<1>0. n \in Nat
  BY FS_CardinalityType
<1>1. q \in [1..n -> S] /\ IsDescending(q)
  BY DescendingExists DEF Descending, IsDescending
<1> HIDE DEF q
<1>2. q \in Seq(Nat) /\ \A i \in 1..n : q[i] \in Nat
  <2>1. q \in [1..n -> Nat]
    BY <1>1
  <2> QED  BY <1>0, <2>1
<1>3. \A i, j \in 1..n : q[i] = q[j] => i = j
  <2> SUFFICES ASSUME NEW i \in 1..n, NEW j \in 1..n, i < j PROVE q[i] # q[j]
    BY <1>0
  <2>1. q[i] > q[j] /\ q[i] \in Nat /\ q[j] \in Nat
    BY <1>1, <1>2 DEF IsDescending
  <2> QED  BY <2>1
<1>4. q \in Injection(1..n, S)
  BY <1>1, <1>3 DEF Injection, IsInjective
<1>5. Cardinality(1..n) = n
  BY <1>0, FS_Interval
<1>6. q \in Surjection(1..n, S)
  BY <1>4, <1>5, FS_Injection
<1>7. {q[i] : i \in DOMAIN q} = S
  BY <1>1, <1>6 DEF Surjection
<1> QED  BY <1>1, <1>2, <1>7 DEF q

(* A page is the newest rows of those it is taken from, and all of them if *)
(* there are no more than it holds.                                        *)
LEMMA NewestOf ==
  ASSUME NEW N \in Nat, NEW S \in SUBSET 1..N, NEW n \in Nat \ {0}
  PROVE  /\ Newest(S, n) \subseteq S
         /\ \A i \in Newest(S, n), j \in S : i <= j => j \in Newest(S, n)
         /\ Cardinality(S) <= n => Newest(S, n) = S
         /\ S # {} => Newest(S, n) # {}
<1> DEFINE Above(i) == {j \in S : j > i}
<1>1. /\ IsFiniteSet(S) /\ Cardinality(S) \in Nat
      /\ S \in SUBSET Nat /\ \A i \in S : i \in Nat /\ i <= N
  <2>1. IsFiniteSet(1..N)
    BY FS_Interval
  <2>2. \A i \in S : i \in 1..N
    OBVIOUS
  <2>3. IsFiniteSet(S)
    BY <2>1, FS_Subset
  <2>4. \A i \in S : i \in Nat /\ i <= N
    BY <2>2
  <2> QED  BY <2>3, <2>4, FS_CardinalityType
<1>2. \A i : IsFiniteSet(Above(i)) /\ Cardinality(Above(i)) \in Nat
  BY <1>1, FS_Subset, FS_CardinalityType
<1>3. ASSUME NEW i \in Newest(S, n), NEW j \in S, i <= j PROVE j \in Newest(S, n)
  <2>1. i \in S /\ Cardinality(Above(i)) < n
    BY DEF Newest
  <2>2. Above(j) \in SUBSET Above(i)
    <3>1. i \in Nat /\ j \in Nat /\ \A k \in S : k \in Nat
      BY <1>1, <2>1
    <3>2. \A k \in S : k > j => k > i
      BY <1>3, <3>1
    <3> QED  BY <3>2, Zenon
  <2>3. Cardinality(Above(j)) <= Cardinality(Above(i))
    BY <1>2, <2>2, FS_Subset
  <2>4. Cardinality(Above(j)) < n
    BY <1>2, <2>1, <2>3
  <2> QED  BY <2>4 DEF Newest
<1>4. ASSUME Cardinality(S) <= n, NEW i \in S PROVE i \in Newest(S, n)
  <2>1. Above(i) \in SUBSET (S \ {i})
    BY <1>1
  <2>2. IsFiniteSet(S \ {i}) /\ Cardinality(S \ {i}) = Cardinality(S) - 1
    BY <1>1, FS_RemoveElement
  <2>3. Cardinality(Above(i)) <= Cardinality(S) - 1
    BY <2>1, <2>2, FS_Subset
  <2>4. Cardinality(Above(i)) < n
    BY <1>1, <1>2, <1>4, <2>3
  <2> QED  BY <2>4 DEF Newest
<1>5. ASSUME S # {} PROVE Newest(S, n) # {}
  <2>1. PICK m \in S : \A i \in S : i <= m
    BY <1>1, <1>5, GreatestOf
  <2>2. Above(m) = {}
    <3>1. \A k \in S : k \in Nat /\ m \in Nat /\ k <= m
      BY <1>1, <2>1
    <3>2. \A k \in S : ~(k > m)
      BY <3>1
    <3> QED  BY <3>2, Zenon
  <2>3. Cardinality(Above(m)) < n
    BY <2>2, FS_EmptySet
  <2> QED  BY <2>3 DEF Newest
<1> QED  BY <1>3, <1>4, <1>5 DEF Newest

Seen == {reader.seen[i] : i \in DOMAIN reader.seen}

(* The rows that were there when the first page was or is read.            *)
ToShow == IF reader.pc = "idle" THEN Ids ELSE reader.known

(* What is at or after the cursor and was there has been shown; what comes *)
(* later is older than everything shown.                                   *)
Reading ==
    /\ ToShow \subseteq Ids
    /\ \A i \in ToShow : i >= reader.cursor => i \in Seen
    /\ \A i \in Seen : i >= reader.cursor

RInv ==
    /\ TInv
    /\ reader.seen \in Seq(Nat) /\ IsDescending(reader.seen) /\ reader.cursor \in Nat
    /\ reader.pc = "idle" => reader.cursor = MaxRows + 1
    /\ reader.pc # "done" => Reading
    /\ reader.pc = "done" => reader.known \subseteq Seen

LEMMA RInit == Init => RInv
<1> SUFFICES ASSUME Init PROVE RInv
  OBVIOUS
<1>1. /\ reader.seen = <<>> /\ reader.cursor = MaxRows + 1 /\ reader.pc = "idle"
      /\ Ids = {}
  BY DEF Init, Ids
<1>2. Reading
  BY <1>1 DEF Reading, ToShow, Seen
<1> QED  BY <1>1, <1>2, TInit, SettingsAssumption DEF RInv, IsDescending

(* Rows are only added. *)
LEMMA IdsStay == [Next]_vars => Ids \subseteq Ids'
<1> SUFFICES ASSUME [Next]_vars PROVE audit \subseteq audit'
  BY DEF Ids
<1> QED  BY DEF Next, vars, Upload, Begin, FinishUpload, BeginLogo, Flush, Stamp,
                Commit, Abort, ReadPage

(* A page goes on where the ones before it end, and misses nothing.        *)
LEMMA RReadPage ==
  ASSUME RInv, TInv', ReadPage
  PROVE  RInv'
<1> USE SettingsAssumption
<1> PICK page : page = Page
  OBVIOUS
<1>1. /\ Ids \in SUBSET (1..MaxRows) /\ Older \in SUBSET (1..MaxRows)
      /\ Older \in SUBSET Ids /\ Older \in SUBSET Nat /\ Ids' = Ids
  BY DEF RInv, TInv, Entry, Ids, Older, ReadPage
<1>2. IsFiniteSet(Older) /\ Cardinality(Older) \in Nat
  <2>1. IsFiniteSet(1..MaxRows)
    BY FS_Interval
  <2> QED  BY <1>1, <2>1, FS_Subset, FS_CardinalityType
<1>3. /\ page \subseteq Older
      /\ \A i \in page, j \in Older : i <= j => j \in page
      /\ ~HasMore => page = Older
      /\ HasMore => page # {}
  <2>1. Older # {} <=> Cardinality(Older) # 0
    BY <1>2, FS_EmptySet
  <2>2. /\ page = Newest(Older, PageLimit)
        /\ HasMore <=> Cardinality(Older) > PageLimit
    BY DEF Page, HasMore
  <2>3. /\ Newest(Older, PageLimit) \subseteq Older
        /\ \A i \in Newest(Older, PageLimit), j \in Older :
              i <= j => j \in Newest(Older, PageLimit)
        /\ Cardinality(Older) <= PageLimit => Newest(Older, PageLimit) = Older
        /\ Older # {} => Newest(Older, PageLimit) # {}
    BY <1>1, NewestOf
  <2> QED  BY <1>2, <2>1, <2>2, <2>3
<1>4. page \in SUBSET Nat /\ IsFiniteSet(page)
  BY <1>1, <1>2, <1>3, FS_Subset
<1> PICK new : new = Descending(page)
  OBVIOUS
<1>5. /\ new \in Seq(Nat) /\ IsDescending(new)
      /\ {new[i] : i \in DOMAIN new} = page
  BY <1>4, DescendingOf
<1>6. /\ reader'.pc = IF HasMore THEN "reading" ELSE "done"
      /\ reader'.cursor = IF HasMore THEN CHOOSE i \in page : \A j \in page : i <= j
                          ELSE reader.cursor
      /\ reader'.seen = reader.seen \o new
      /\ reader'.known = ToShow
  BY DEF ReadPage, ToShow
<1>7. reader.seen \in Seq(Nat) /\ IsDescending(reader.seen) /\ reader.cursor \in Nat
      /\ Reading
  BY DEF RInv, ReadPage
<1>8. \A i \in page, j \in Seen : i < j
  <2>1. \A i \in page : i < reader.cursor /\ i \in Nat
    BY <1>3, <1>4 DEF Older
  <2>2. \A j \in Seen : j \in Nat /\ j >= reader.cursor
    BY <1>7 DEF Seen, Reading
  <2> QED  BY <1>7, <2>1, <2>2
<1>9. /\ reader'.seen \in Seq(Nat) /\ IsDescending(reader.seen)' /\ Seen' = Seen \cup page
  <2> DEFINE old == reader.seen
             n == Len(old)
             both == old \o new
  <2>1. /\ both \in Seq(Nat) /\ Len(both) = n + Len(new)
        /\ n \in Nat /\ Len(new) \in Nat
        /\ DOMAIN old = 1..n /\ DOMAIN new = 1..Len(new) /\ DOMAIN both = 1..Len(both)
    BY <1>5, <1>7, ConcatProperties, LenProperties
  <2>2. /\ \A i \in 1..n : both[i] = old[i]
        /\ \A i \in 1..Len(new) : both[n + i] = new[i]
    BY <1>5, <1>7, <2>1
  <2>3. ASSUME NEW i \in DOMAIN both
        PROVE  \/ i \in 1..n /\ both[i] = old[i]
               \/ \E k \in 1..Len(new) : i = n + k /\ both[i] = new[k]
    <3>1. CASE i <= n
      BY <2>1, <2>2, <3>1
    <3>2. CASE i > n
      <4>1. i - n \in 1..Len(new) /\ i = n + (i - n)
        BY <2>1, <3>2
      <4> QED  BY <2>2, <4>1
    <3> QED  BY <2>1, <3>1, <3>2
  <2>4. \A i \in 1..n : old[i] \in Seen
    BY <2>1 DEF Seen
  <2>5. \A k \in 1..Len(new) : new[k] \in page
    BY <1>5, <2>1
  <2>6. ASSUME NEW i \in DOMAIN both, NEW j \in DOMAIN both, i < j
        PROVE  both[i] > both[j]
    <3>1. CASE j \in 1..n /\ both[j] = old[j]
      BY <1>7, <2>1, <2>2, <2>6, <3>1 DEF IsDescending
    <3>2. ASSUME NEW l \in 1..Len(new), j = n + l, both[j] = new[l]
          PROVE  both[i] > both[j]
      <4>1. CASE i \in 1..n /\ both[i] = old[i]
        <5>1. both[i] \in Seen /\ both[j] \in page
          BY <2>4, <2>5, <3>2, <4>1
        <5>2. both[j] < both[i]
          BY <1>8, <5>1
        <5> QED  BY <5>2
      <4>2. ASSUME NEW k \in 1..Len(new), i = n + k, both[i] = new[k]
            PROVE  both[i] > both[j]
        <5>1. k < l
          BY <2>1, <2>6, <3>2, <4>2
        <5> QED  BY <1>5, <2>1, <3>2, <4>2, <5>1 DEF IsDescending
      <4> QED  BY <2>3, <4>1, <4>2
    <3> QED  BY <2>3, <3>1, <3>2
  <2>7. {both[i] : i \in DOMAIN both} = Seen \cup page
    <3>1. \A i \in DOMAIN both : both[i] \in Seen \cup page
      BY <2>3, <2>4, <2>5
    <3>2. ASSUME NEW x \in Seen PROVE \E i \in DOMAIN both : both[i] = x
      <4>1. PICK i \in 1..n : old[i] = x
        BY <2>1 DEF Seen
      <4>2. i \in DOMAIN both
        BY <2>1
      <4> QED  BY <2>2, <4>1, <4>2
    <3>3. ASSUME NEW x \in page PROVE \E i \in DOMAIN both : both[i] = x
      <4>1. PICK k \in 1..Len(new) : new[k] = x
        BY <1>5, <2>1
      <4>2. n + k \in DOMAIN both
        BY <2>1
      <4> QED  BY <2>2, <4>1, <4>2
    <3> QED  BY <3>1, <3>2, <3>3
  <2>8. Seen' = {both[i] : i \in DOMAIN both}
    BY <1>6 DEF Seen
  <2> QED  BY <1>6, <2>1, <2>6, <2>7, <2>8 DEF IsDescending
<1>10. ToShow \subseteq Ids /\ \A i \in ToShow : i \in Older \/ i \in Seen
  <2>1. \A i \in Ids : i \in Nat
    BY <1>1
  <2> QED  BY <1>7, <2>1 DEF Reading, Older
<1>11. CASE HasMore
  <2>1. PICK m \in page : \A j \in page : m <= j
    BY <1>3, <1>4, <1>11, LeastOf
  <2>2. reader'.cursor \in page /\ \A j \in page : reader'.cursor <= j
    BY <1>6, <1>11, <2>1
  <2>3. reader'.pc = "reading" /\ ToShow' = ToShow
    BY <1>6, <1>11 DEF ToShow
  <2>4. ASSUME NEW i \in ToShow, i >= reader'.cursor PROVE i \in Seen'
    <3>1. i \in Nat /\ reader'.cursor \in Nat
      <4>1. i \in 1..MaxRows /\ \A j \in page : j \in Nat
        BY <1>1, <1>4, <1>10
      <4> QED  BY <2>2, <4>1
    <3>2. i \in Older => i \in page
      BY <1>3, <2>2, <2>4, <3>1
    <3> QED  BY <1>9, <1>10, <3>2
  <2>5. ASSUME NEW i \in Seen' PROVE i >= reader'.cursor
    <3>1. CASE i \in page
      BY <1>4, <2>2, <3>1
    <3>2. CASE i \in Seen
      <4>1. reader'.cursor < i /\ i \in Nat /\ reader'.cursor \in Nat
        <5>1. (\A j \in page : j \in Nat) /\ \A j \in Seen : j \in Nat
          BY <1>4, <1>7 DEF Seen
        <5> QED  BY <1>8, <2>2, <3>2, <5>1
      <4> QED  BY <4>1
    <3> QED  BY <1>9, <2>5, <3>1, <3>2
  <2>6. Reading'
    BY <1>1, <1>10, <2>3, <2>4, <2>5 DEF Reading
  <2> QED  BY <1>4, <1>9, <2>2, <2>3, <2>6 DEF RInv
<1>12. CASE ~HasMore
  <2>1. reader'.pc = "done" /\ reader'.cursor = reader.cursor /\ reader'.known = ToShow
    BY <1>6, <1>12
  <2>2. ToShow \subseteq Seen'
    BY <1>3, <1>9, <1>10, <1>12
  <2> QED  BY <1>7, <1>9, <2>1, <2>2 DEF RInv
<1> QED  BY <1>11, <1>12

LEMMA RNext == RInv /\ [Next]_vars => RInv'
<1> SUFFICES ASSUME RInv, [Next]_vars PROVE RInv'
  OBVIOUS
<1>1. TInv'
  BY TNext DEF RInv
<1>2. CASE ReadPage
  BY <1>1, <1>2, RReadPage
<1>3. CASE UNCHANGED reader
  <2>1. Seen' = Seen /\ (reader.pc # "idle" => ToShow' = ToShow)
    BY <1>3 DEF Seen, ToShow
  <2>2. ASSUME Reading PROVE Reading'
    <3>1. ToShow' \subseteq Ids'
      BY <1>3, <2>1, <2>2, IdsStay DEF Reading, ToShow
    <3>2. CASE reader.pc = "idle"
      <4>1. \A i \in Ids' : i \in Nat /\ ~(i >= MaxRows + 1)
        <5>1. \A i \in Ids' : i \in 1..MaxRows
          BY <1>1 DEF TInv, Ids, Entry
        <5> QED  BY <5>1, SettingsAssumption
      <4> QED  BY <1>3, <2>1, <2>2, <3>1, <3>2, <4>1 DEF RInv, Reading
    <3>3. CASE reader.pc # "idle"
      BY <1>3, <2>1, <2>2, <3>1, <3>3 DEF Reading
    <3> QED  BY <3>2, <3>3
  <2> QED  BY <1>1, <1>3, <2>1, <2>2 DEF RInv
<1> QED
  BY <1>2, <1>3 DEF Next, vars, Upload, Begin, FinishUpload, BeginLogo, Flush,
                    Stamp, Commit, Abort

(* Paging shows every row that was there when it began, newest first and   *)
(* none twice, however many rows are added meanwhile.                      *)
THEOREM PagingIsStable == Spec => []PagesStable
<1>1. RInv => PagesStable
  BY DEF RInv, PagesStable, IsDescending, Seen
<1> QED  BY <1>1, RInit, RNext, PTL DEF Spec
=============================================================================
