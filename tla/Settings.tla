------------------------------ MODULE Settings ------------------------------
(***************************************************************************)
(* Instance settings (api/v1/settings.py), logo files (services/media.py)  *)
(* and the audit log (services/audit.py, api/v1/audit.py).                 *)
(*                                                                         *)
(* A PATCH loads the one row of app_setting, assigns what the payload      *)
(* gives, flushes, adds an audit row and commits both.  The flush writes   *)
(* the columns that differ from the loaded ones, if any, and from then on  *)
(* PostgreSQL makes the flush of another PATCH wait.  The audit row gets   *)
(* its id, a UUIDv7, when the commit flushes it: ids are in the order of   *)
(* those flushes, rows become visible in the order of the commits.         *)
(*                                                                         *)
(* brand_color stands for timezone too; a PATCH with an unknown timezone   *)
(* ends as one that fails.  A PATCH that changes nothing takes no lock and *)
(* stands for every other audited request.                                 *)
(***************************************************************************)
EXTENDS Integers, Sequences, FiniteSets

CONSTANTS
    Request,    \* requests, or administrators, at the same time
    Payload,    \* what callers PATCH, but for logos
    Image,      \* what they upload
    FirstRow,   \* the row as the first-run setup, given a name, has left it
    Hayabusa,   \* the name that stands in for none
    PageLimit,  \* limit of a page of the audit log
    MaxRows,    \* bound: audit rows
    MaxFiles,   \* bound: logo files
    Blank,      \* a name without a word, nothing but spaces
    NotGiven, NoName, NoLogo

ASSUME SettingsAssumption ==
    /\ PageLimit \in Nat \ {0} /\ MaxRows \in Nat /\ MaxFiles \in Nat
    /\ DOMAIN FirstRow = {"name", "initials", "color", "logo", "prefs"}
    /\ FirstRow.name \notin {Blank, NotGiven} /\ FirstRow.color # NotGiven
    /\ FirstRow.logo = NoLogo
    /\ \A p \in Payload : p.logo \in {NotGiven, NoLogo}
    /\ NoName \notin {Blank, NotGiven} /\ NoLogo # NotGiven

VARIABLES
    row,        \* table app_setting, the committed row
    audit,      \* table audit_log, committed rows
    nextId,     \* the next UUIDv7
    files,      \* upload_dir
    request,
    reader,     \* a client that pages through the audit log
    wish,       \* history: the value last committed for each preference
    raced       \* history: "name", "prefs" written from a stale row

vars == <<row, audit, nextId, files, request, reader, wish, raced>>

-----------------------------------------------------------------------------
(* Names are sequences of words, a word has letters and may be noise.      *)

LetterCount(word, n) == IF Len(word.letters) < n THEN Len(word.letters) ELSE n

FirstTwo(word) == SubSeq(word.letters, 1, LetterCount(word, 2))

(* derive_initials *)
Initials(name) ==
    LET words == SelectSeq(name, LAMBDA w : ~w.noise)
        n == IF Len(words) < 3 THEN Len(words) ELSE 3
    IN  CASE name = <<>> -> <<"?">>
          [] name # <<>> /\ words = <<>> -> FirstTwo(name[1])
          [] Len(words) = 1 -> FirstTwo(words[1])
          [] OTHER -> [k \in 1..n |-> words[k].letters[1]]

Column == {"name", "initials", "color", "logo", "prefs"}

InitialsOf(name) == Initials(IF name = NoName THEN Hayabusa ELSE name)

(* complete_setup derives the initials of the name it is given.            *)
ASSUME FirstRowAgrees == FirstRow.initials = InitialsOf(FirstRow.name)

(* payload.org_name.strip(), and with "or None". *)
Stripped(name) == name

Cleaned(name) == IF name = Blank THEN NoName ELSE name

(* {**old, **new} *)
Merged(old, new) == [k \in DOMAIN old \cup DOMAIN new |->
                        IF k \in DOMAIN new THEN new[k] ELSE old[k]]

(* preferences = payload.preferences, and merged. *)
PreferencesReplaced(old, given) == IF given = NotGiven THEN old ELSE given

Preferences(old, given) == IF given = NotGiven THEN old ELSE Merged(old, given)

(* The initials of the name the row had. *)
AssignedLate(old, p) ==
    [name     |-> IF p.name = NotGiven THEN old.name ELSE Cleaned(p.name),
     initials |-> IF p.name = NotGiven THEN old.initials ELSE InitialsOf(old.name),
     color    |-> IF p.color = NotGiven THEN old.color ELSE p.color,
     logo     |-> IF p.logo = NotGiven THEN old.logo ELSE p.logo,
     prefs    |-> Preferences(old.prefs, p.prefs)]

(* What update_settings makes of the loaded row. *)
Assigned(old, p) ==
    [name     |-> IF p.name = NotGiven THEN old.name ELSE Cleaned(p.name),
     initials |-> IF p.name = NotGiven THEN old.initials ELSE InitialsOf(Cleaned(p.name)),
     color    |-> IF p.color = NotGiven THEN old.color ELSE p.color,
     logo     |-> IF p.logo = NotGiven THEN old.logo ELSE p.logo,
     prefs    |-> Preferences(old.prefs, p.prefs)]

(* The form of the settings page: name and color always, no name as null.  *)
FormPayload(name, color) ==
    [name |-> IF name = Blank THEN NotGiven ELSE name,
     color |-> color, logo |-> NotGiven, prefs |-> NotGiven]

LogoPayload(logo) ==
    [name |-> NotGiven, color |-> NotGiven, logo |-> logo, prefs |-> NotGiven]

-----------------------------------------------------------------------------
(* State *)

Names == ({FirstRow.name, NoName} \cup {p.name : p \in Payload}) \ {Blank, NotGiven}

Colors == ({FirstRow.color} \cup {p.color : p \in Payload}) \ {NotGiven}

(* A stored file: its number stands for the random part of its name.       *)
File == [key : 1..MaxFiles, suffix : {"svg", "png"}]

Logos == File \cup {NoLogo}

(* The columns an audit row shows. *)
Shown == {"name", "color"}

Entry == [id : 1..MaxRows, before : [Shown -> Names \cup Colors],
          after : [Shown -> Names \cup Colors]]

IsRow(x) == /\ DOMAIN x = Column
            /\ x.name \in Names /\ x.color \in Colors /\ x.logo \in Logos

Idle == [pc |-> "idle", loaded |-> FirstRow, new |-> FirstRow,
         given |-> LogoPayload(NotGiven), id |-> 0, file |-> NoLogo, stale |-> {}]

Phase == {"idle", "write", "named", "flush", "record", "commit"}

TypeOK ==
    /\ IsRow(row)
    /\ audit \subseteq Entry
    /\ nextId \in 1..(MaxRows + 1)
    /\ files \subseteq [file : File, complete : BOOLEAN]
    /\ \A r \in Request :
          /\ request[r].pc \in Phase
          /\ IsRow(request[r].loaded) /\ IsRow(request[r].new)
          /\ request[r].id \in 0..MaxRows
          /\ request[r].file \in Logos
          /\ request[r].stale \subseteq {"name", "prefs"}
    /\ raced \subseteq {"name", "prefs"}

Init ==
    /\ row = FirstRow
    /\ audit = {}
    /\ nextId = 1
    /\ files = {}
    /\ request = [r \in Request |-> Idle]
    /\ reader = [pc |-> "idle", cursor |-> MaxRows + 1, seen |-> <<>>, known |-> {}]
    /\ wish = FirstRow.prefs
    /\ raced = {}

-----------------------------------------------------------------------------
(* upload_logo, process_logo *)

(* validate_logo_bytes and the decoding.  An image is [size, kind,         *)
(* dangerous, decodes]: size is "none", "fits" or "large".                 *)
Acceptable(i) == /\ i.size = "fits"
                 /\ i.kind \in {"png", "jpeg", "webp", "svg"}
                 /\ i.kind = "svg" => ~i.dangerous
                 /\ i.kind # "svg" => i.decodes

Suffix(i) == IF i.kind = "svg" THEN "svg" ELSE "png"

NewFile(i) == [key |-> Cardinality(files) + 1, suffix |-> Suffix(i)]

(* The name handed out before the file is written. *)
UploadNamed(r, i) ==
    /\ request[r].pc = "idle"
    /\ Acceptable(i)
    /\ Cardinality(files) < MaxFiles
    /\ files' = files \cup {[file |-> NewFile(i), complete |-> FALSE]}
    /\ request' = [request EXCEPT ![r].pc = "named", ![r].file = NewFile(i)]
    /\ UNCHANGED <<row, audit, nextId, reader, wish, raced>>

Upload(r, i) ==
    /\ request[r].pc = "idle"
    /\ Acceptable(i)
    /\ Cardinality(files) < MaxFiles
    /\ files' = files \cup {[file |-> NewFile(i), complete |-> FALSE]}
    /\ request' = [request EXCEPT ![r].pc = "write", ![r].file = NewFile(i)]
    /\ UNCHANGED <<row, audit, nextId, reader, wish, raced>>

(* The file is written and its name is in the answer. *)
FinishUpload(r) ==
    /\ request[r].pc = "write"
    /\ files' = (files \ {[file |-> request[r].file, complete |-> FALSE]})
                \cup {[file |-> request[r].file, complete |-> TRUE]}
    /\ request' = [request EXCEPT ![r].pc = "named"]
    /\ UNCHANGED <<row, audit, nextId, reader, wish, raced>>

(* serve_media: the file of a plain name with one of the two suffixes.     *)
Served(logo) == /\ logo \in File
                /\ [file |-> logo, complete |-> TRUE] \in files

-----------------------------------------------------------------------------
(* update_settings *)

Begun(p) == [pc |-> "flush", loaded |-> row, new |-> Assigned(row, p),
             given |-> p, id |-> 0, file |-> NoLogo, stale |-> {}]

Begin(r, p) ==
    /\ request[r].pc = "idle"
    /\ request' = [request EXCEPT ![r] = Begun(p)]
    /\ UNCHANGED <<row, audit, nextId, files, reader, wish, raced>>

(* uploadLogo of the page, once it has the name. *)
BeginLogo(r) ==
    /\ request[r].pc = "named"
    /\ request' = [request EXCEPT ![r] = Begun(LogoPayload(request[r].file))]
    /\ UNCHANGED <<row, audit, nextId, files, reader, wish, raced>>

Changes(r) == {c \in Column : request[r].new[c] # request[r].loaded[c]}

HoldsRow(r) == request[r].pc \in {"record", "commit"} /\ Changes(r) # {}

Flush(r) ==
    /\ request[r].pc = "flush"
    /\ Changes(r) # {} => \A o \in Request : ~HoldsRow(o)
    /\ request' = [request EXCEPT ![r].pc = "record"]
    /\ UNCHANGED <<row, audit, nextId, files, reader, wish, raced>>

(* The audit row is flushed. *)
Stamp(r) ==
    /\ request[r].pc = "record"
    /\ nextId <= MaxRows
    /\ request' = [request EXCEPT ![r].pc = "commit", ![r].id = nextId]
    /\ nextId' = nextId + 1
    /\ UNCHANGED <<row, audit, files, reader, wish, raced>>

(* "before" taken after the assignments. *)
RecordedLate(r) ==
    [id |-> request[r].id,
     before |-> [c \in Shown |-> request[r].new[c]],
     after |-> [c \in Shown |-> request[r].new[c]]]

(* audit.record *)
Recorded(r) ==
    [id |-> request[r].id,
     before |-> [c \in Shown |-> request[r].loaded[c]],
     after |-> [c \in Shown |-> request[r].new[c]]]

Written(r) ==
    [c \in Column |-> IF c \in Changes(r) THEN request[r].new[c] ELSE row[c]]

(* History: what a commit of r makes stale for who has loaded the row.     *)
Outdated(r) == (IF Changes(r) \cap {"name", "initials"} # {} THEN {"name"} ELSE {})
               \cup (IF "prefs" \in Changes(r) THEN {"prefs"} ELSE {})

Commit(r) ==
    /\ request[r].pc = "commit"
    /\ row' = Written(r)
    /\ audit' = audit \cup {Recorded(r)}
    /\ request' = [o \in Request |->
                      IF o = r THEN Idle
                      ELSE IF request[o].pc \in {"flush", "record", "commit"}
                      THEN [request[o] EXCEPT !.stale = @ \cup Outdated(r)]
                      ELSE request[o]]
    /\ wish' = IF request[r].given.prefs = NotGiven THEN wish
               ELSE Merged(wish, request[r].given.prefs)
    /\ raced' = raced \cup {g \in request[r].stale :
                               \/ g = "name" /\ request[r].given.name # NotGiven
                               \/ g = "prefs" /\ request[r].given.prefs # NotGiven}
    /\ UNCHANGED <<nextId, files, reader>>

(* An error, a lost connection or process, a closed page. *)
Abort(r) ==
    /\ request[r].pc # "idle"
    /\ request' = [request EXCEPT ![r] = Idle]
    /\ UNCHANGED <<row, audit, nextId, files, reader, wish, raced>>

-----------------------------------------------------------------------------
(* list_audit_logs, page after page, newest first. *)

Ids == {e.id : e \in audit}

Newest(S, n) == {i \in S : Cardinality({j \in S : j > i}) < n}

(* Rows skipped by their number. *)
PageByOffset == Newest(Ids, Len(reader.seen) + PageLimit) \ Newest(Ids, Len(reader.seen))

(* Rows before the last one seen. *)
Older == {i \in Ids : i < reader.cursor}

Page == Newest(Older, PageLimit)

Descending(S) == CHOOSE q \in [1..Cardinality(S) -> S] :
                    \A i, j \in DOMAIN q : i < j => q[i] > q[j]

HasMore == Cardinality(Older) > PageLimit

ReadPage ==
    /\ reader.pc # "done"
    /\ LET page == Page
       IN  reader' = [pc     |-> IF HasMore THEN "reading" ELSE "done",
                      cursor |-> IF HasMore
                                 THEN CHOOSE i \in page : \A j \in page : i <= j
                                 ELSE reader.cursor,
                      seen   |-> reader.seen \o Descending(page),
                      known  |-> IF reader.pc = "idle" THEN Ids ELSE reader.known]
    /\ UNCHANGED <<row, audit, nextId, files, request, wish, raced>>

-----------------------------------------------------------------------------
Next ==
    \/ \E r \in Request : \/ \E i \in Image : Upload(r, i)
                          \/ \E p \in Payload : Begin(r, p)
                          \/ FinishUpload(r)
                          \/ BeginLogo(r)
                          \/ Flush(r)
                          \/ Stamp(r)
                          \/ Commit(r)
                          \/ Abort(r)
    \/ ReadPage

Spec == Init /\ [][Next]_vars

-----------------------------------------------------------------------------
(* Properties *)

(* The audit log tells what the settings are: a column has the value that  *)
(* the latest audit row with a change of it says, however PATCHes overlap, *)
(* although ids are given before the commits and a stale value is recorded *)
(* for what a PATCH leaves alone.                                          *)
ChangesIn(e, c) == e.before[c] # e.after[c]

AuditReplays ==
    \A c \in Shown :
        LET told == {e \in audit : ChangesIn(e, c)}
        IN  /\ told = {} => row[c] = FirstRow[c]
            /\ \A e \in told : (\A d \in told : d.id <= e.id) => row[c] = e.after[c]

(* "The monogram never disagrees with the organisation", unless two        *)
(* renames have overlapped.                                                *)
MonogramAgrees == "name" \notin raced => row.initials = InitialsOf(row.name)

(* A preference has the value last committed for it, unless two PATCHes of *)
(* preferences have overlapped: what others set is kept.                   *)
PreferencesKept == "prefs" \notin raced => row.prefs = wish

(* The logo that the settings name is served, whole, wherever an upload or *)
(* the PATCH after it fails.                                               *)
LogoServed == row.logo # NoLogo => Served(row.logo)

(* Paging is "stable while new rows are being written": no row twice, and  *)
(* none is missed that was there when the first page was read.             *)
PagesStable ==
    /\ \A i, j \in DOMAIN reader.seen : i < j => reader.seen[i] > reader.seen[j]
    /\ reader.pc = "done" =>
          reader.known \subseteq {reader.seen[i] : i \in DOMAIN reader.seen}
=============================================================================
