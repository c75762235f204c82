# HAYABUSA: verification project

HAYABUSA is a threat-intelligence workbench: a FastAPI application over
PostgreSQL and Redis, Celery workers that collect sources, and a React client.
The TLA+ modules here model the parts of it whose correctness depends on
interleaving, failure and ordering. TLC checks them on small instances; TLAPS
proves the most important properties for every instance.

## Inventory

All backend paths are below `src/backend/app/`, client paths below
`src/frontend/src/`.

| Component | Where | State it keeps | Operations |
|---|---|---|---|
| Refresh-token sessions | `services/auth.py`, `api/v1/auth.py`, `api/v1/users.py`, `db.py` | tables `refresh_token`, `user`; one transaction per request | login, refresh, logout, revoke one / all, password change and reset, disable, enable, remove |
| Sign-in | `services/auth.py` (`authenticate`, `verify_second_factor`), `core/ratelimit.py`, `core/security.py` | `user.failed_login_count`, `locked_until`, Redis counters, recovery codes | password step, second factor, unlock, regenerate codes |
| Source lock | `core/lock.py`, limits in `tasks/celery_app.py` | one Redis key per source with a TTL | try, release, expire |
| Collection pipeline | `services/collection.py`, `services/normalize.py`, `collectors/` | tables `source`, `source_run`, `signal` | a run: start, fetch, persist, finish |
| Outgoing HTTP | `core/ssrf.py` | none between calls | resolve, pin, fetch, follow redirects |
| Accounts and roles | `api/v1/users.py`, `api/v1/roles.py`, `core/rbac.py` | tables `user`, `role`, `user_role`, `role_permission` | create, update, remove accounts and roles; permission checks |
| First-run setup | `api/v1/setup.py`, `services/setup.py`, `core/setup_gate.py`, `seed/` | `app_setting` row, one cached flag per process | status, complete, gate every request |
| Worker runtime | `tasks/base.py`, `tasks/celery_app.py`, `tasks/system.py`, `api/v1/health.py` | broker queue, engine per process, heartbeat key | deliver, time out, redeliver, beat, judge the beat |
| API client | `lib/api.ts`, `stores/auth.ts`, `hooks/useSession.ts` | access token in memory, one refresh in flight per tab | call, refresh and retry once, sign out |
| Settings and media | `api/v1/settings.py`, `services/media.py`, `services/monogram.py`, `features/admin/SettingsPage.tsx` | the one row of `app_setting`, files in `upload_dir` | read, PATCH, upload a logo, serve it |
| Audit | `services/audit.py`, `api/v1/audit.py` | table `audit_log` | record within the request's transaction, read page by page |
| Logging, metrics, crypto, schemas, screens | rest | - | straight-line reads and writes |

**How they interact.** A request handler gets a database session from
`get_session`, which commits when the handler returns and rolls back when it
raises; that transaction is all the isolation requests have from each other
(READ COMMITTED, no row is locked on reading). The client renews its session
through `/auth/refresh` with a cookie that all tabs of a browser share. A
collection run is meant to hold the source's Redis lock (`core/lock.py` says so;
at this commit no task calls `run_collection` yet) and has a session of its own;
runs of different sources share the unique index on `signal.content_hash`.
Workers acknowledge a task when it has finished, so a killed task is delivered
again.

**What is hard.** Two requests that act on the same rows between reading and
committing; ORM writes that reach the database only at the commit and only for
changed columns; bulk updates that wait for row locks; locks that expire under
their holder; runs that are lost between their three commits; inserts of
different runs that wait for each other; counters and flags cached outside the
database; ids that are given before the commit that shows them; a liveness signal
that shares its queue with the work it watches. `PROJECT.json` lists each of these hazards at its line.

**What makes each component correct.** Sessions: ending a family is final and a
family has one live token. Lock: one collector at a time, nobody frees another's
key, no key for ever. Pipeline: a stored validator never stands for an entry
that was not stored, the source row agrees with its failures, an operator hears
of every failing source. Sign-in: a bounded number of guesses, a recovery code
is spent once. Roles: somebody can always administer. Setup: one
submission founds the instance and nobody acts before it has. Client: a tab never treats its own refresh as
lost, nobody is signed in after signing out. Outgoing HTTP: every connection goes
to an address that was checked for it. Settings: what the row says of one thing
agrees with what it says of another, and the audit log tells how it came to be
so. Heartbeat: it shows a stalled scheduler, and shows nothing else as one while
it is served.

## Modules

| Module | Models | State and actions |
|---|---|---|
| `SessionContract` | what a session family promises | families: open, extended, ended for good |
| `RefreshTokens` | tables `refresh_token` and `user`, one transaction per request | `token`, `account`: committed rows; `req`: what each request has read, locked and will write. One `Begin...` action per endpoint, then lock, flush, commit or abort |
| `SourceLock` | `core/lock.py` under the task time limits | `key`, `ttl`: the Redis key; per task its step, token and age |
| `WorkerPool` | processes that run one task at a time, the heartbeat, `/ready` | extends `SourceLock` with `queued`, `beating` and `stamp`: heartbeats in the queue, on a process and in Redis; every action of a lock's task, and a clock that both share |
| `SafeFetch` | `core/ssrf.py` | none: `Fetch` maps a URL and a journey (what the resolver and the servers say at each hop) to a result and the connections made |
| `CollectionRun` | `run_collection` from the first commit to the last, over `SafeFetch` and the feed and JSON feed adapters | `source`, `signals`: committed rows; per run what it loaded, fetched and has inserted |
| `SignIn` | `authenticate`, `verify_second_factor`, recovery codes, unlock | `account`, `code`: rows; `counter`, `window`: the Redis key; per request what it loaded |
| `SessionClient` | `lib/api.ts`, the auth store and the screens that sign in and out | `access`, `call` per tab; `jar`: the shared cookie; `exchange`: requests on the network, with the server's rotation |
| `Directory` | tables of accounts, roles and grants as relations; a transaction as a write set | `Apply`, the unique indexes, `PermissionsOf` |
| `Setup` | the wizard, seeding, the gate of each process | `sub`: submissions; `open`: cached flags; extends `Directory` |
| `Administration` | `/users` and `/roles`, composed with `Setup` | `req`: caller and write set of each request; one action per handler |
| `Settings` | `/settings`, logo files, audit rows and their pages | `row`, `audit`, `files`: what is committed and stored; per request what it loaded and will write; `reader`: a client that pages |

`MC...` modules give model values; `...Proofs` modules hold the theorems. A
definition marked as a mutant is a plausible mistake, used to see that a
property notices it; no specification uses one. History variables are read by
no guard and are named as such where they are declared.

Conventions shared by the modules of the server: a handler reads committed rows
when it loads them; ORM assignments reach the database at the flush or commit,
for changed columns only; a failure at any point rolls back the whole
transaction, and only that. Where row locks decide who wins (`RefreshTokens`,
`CollectionRun`), waiting, deadlock and PostgreSQL's choice of a victim are
modelled. In `Administration` they are not: nobody reads after waiting there, so
waiting only orders the commits. In `Settings` the one row is locked from the
flush that changes it.

## Runs

| Run | Question | Bounds |
|---|---|---|
| `RefreshTokens_race` | Can any order of reads, locks, commits and failures of two requests revive an ended family? Only if a rotation overlapped its end. Does every request end? | 1 account, 2 tokens, 2 requests |
| `RefreshTokens_alone` | Do requests one after the other keep every promise, and implement `SessionContract`? Yes, failures included. | 2 accounts, 4 tokens, 1 request at a time |
| `RefreshTokens_ended` | Is ending a family final? **No**, see findings. | 1 account, 3 tokens, 2 requests |
| `WorkerPool` | Do tasks whose limit is below the TTL ever collect together, is a key lost early, is the source stuck? No. Does a stopped scheduler show in `/ready`, whatever the processes are busy with? Yes, within 90 s and the 30 s of a heartbeat. Does a heartbeat that is always served ever show as stale? No. | 3 processes, lock limits 1, 1, 2 under a TTL of 2, 3 tokens; units of 30 s |
| `CollectionRun` | Overlapping runs, crashes, deadlocks, outages, a rejected entry: does a stored validator ever hide an entry, or the dedupe merge more than republications, bare entries and entries named by position? No. Do health, backoff and warnings agree with the failures, and does every run end? Yes. Is every hop of every fetch checked? Yes. | 2 runs, a locked JSON feed of 3 versions and an unlocked feed, with an item that has only `external_url`, one edited until title and link are gone, another such bare entry, a republished item, in opposite order; journeys of up to 3 requests |
| `CollectionRun_quiet`, `CollectionRun_mirrored` | Do only outages degrade a source; does every row that says running have a run? **No**, see findings. | 1 and 2 sources |
| `SignIn` | Are guesses limited, does waiting help, are codes spent once unless two requests overlap, and is one set valid at most unless two regenerations overlapped? Yes. | 2 requests, 3 codes in sets of one, limit 2, lock 2 minutes |
| `SignIn_twice` | Is a code single-use? **No**, see findings. | 2 requests |
| `SessionClient` | What can a page rely on with other tabs, reloads and lost or late answers? | 2 tabs, 2 calls, 2 exchanges, 3 tokens |
| `Administration` | Is the instance onboarded once? Yes, but for a submission that writes over settings another one has committed. Can an early gate do harm, and what do the guards of administration keep? | 2 processes, 2 submissions, 3 accounts, a custom role, 2 requests at a time, 3 in all |
| `Settings` | Does the audit log replay to the settings, is the logo they name served, do monogram and preferences follow what was set unless two requests overlapped, does paging miss or repeat a row? It does, it is, they do, it does not. | 2 requests at a time, 4 payloads, 5 images, 3 audit rows, 1 file, pages of 1 |

**Why the bounds are enough.** Every hazard in question is between two parties:
two requests on one family, two runs on one index, two tabs on one cookie, two
administrators. Third parties enter only as "somebody else", which a second slot
that is used again already is. Token and code pools bound how long a history
gets; the shortest counterexamples of all runs that have one use fewer than the
pool allows, and each mutant is found inside the same bounds. Three requests in
`Administration` let a role be made, granted and ended, or two administrators act
on each other after a second one was made; three audit rows with
pages of one let a page be read before, between and after two commits in either
order. In `WorkerPool` three tokens serve three processes, since a task that has
ended gives its token back to the pool. Its clock has the true ratios of the
heartbeat (30 s apart, limit 30 s, stale after 90 s); the stamp's TTL is shortened
from 300 s to 150 s, still above the stale limit, and TTL and limits of the lock,
900 s in the code, to two units, which keeps their order. The journeys of
`SafeFetch` are all those over the hops that `MCCollectionRun` lists (`Hop`), from its
`StartUrl`; they are tried in one state of the run, because `safe_fetch` keeps
nothing between calls. The theorems below
remove the bounds for safety. Symmetry is used only in runs without
liveness properties.

**Deadlock** is allowed only where the model may stop for good: in the
`RefreshTokens` runs when every account is removed and no token is left to
present, in the `CollectionRun` runs when a source has failed `MaxFailures` times
and is not polled again. Requests or runs that wait for each other are covered by
`RequestsFinish` and `RunsEnd` there. Everywhere else TLC checks that the system
can always move.

**Fairness.** `RefreshTokens` and `CollectionRun` assume strong fairness of each
request's own progress: the event loop runs every ready coroutine, and
PostgreSQL hands row locks to waiters in turn, so a request that can move again
and again does; and weak fairness of the deadlock detector, which runs on a
timer. Starting a request, failing and crashing are never fair. Weak fairness
would not do: a request that waits for a row which others take and give back
would be allowed to wait for ever, and without the deadlock detector
`RequestsFinish` and `RunsEnd` fail. `SourceLock` and `WorkerPool` assume that
time passes and that Celery's parent process kills at the hard limit; they do
not assume that a task finishes or releases, nor that the scheduler runs. The
other modules check safety only.

## Findings

* **An ended family can live on** (`RefreshTokens_ended`). A rotation that read
  its token before a revocation of the family commits its successor after it; the
  bulk `UPDATE` never saw that row. `models/identity.py:198-204` and
  `api/v1/auth.py:267-268` say that every session dies.
* **A 304 is counted as a failure** (`CollectionRun_quiet`). `core/ssrf.py:200`
  treats every 3xx answer as a redirect, so conditional polling degrades a healthy
  source; `collectors/base.py:44-46` says a 304 is not a failure.
* **Two mirrored feeds can deadlock** (`CollectionRun_mirrored`). PostgreSQL ends
  one run with an error that `collection.py` does not catch, and its row says
  running for good; `collection.py:103-104` says a race becomes a caught error.
* **A recovery code can be used twice** by two requests that read it before either
  commits (`SignIn_twice`); `services/auth.py:193` says single-use.

Also seen, without a run of its own:

* `Administrable` needs both of its conditions. Two administrators whose requests
  overlap can take Super Admin from each other, and a role that was given
  `user:manage` can remove the last Super Admin and then be narrowed; the comment
  at `users.py:181-183` is about exactly that state.
* `NoSilentStripping` needs its condition: a role assigned between the count of
  its holders and the commit of its deletion is stripped from them, which the
  comment at `roles.py:249-250` sets out to avoid. Conversely, holders are counted
  with removed accounts included, so a role that only a removed account holds can
  no longer be deleted through the API.
* `update_role` narrows any seeded role but Super Admin; its docstring says the
  permissions of system roles are fixed.
* `mark_setup_complete` runs before the commit. If the commit fails, that process
  serves ordinary routes of an instance that is not onboarded, until it restarts
  (`setup_gate.py:3` promises a 409). `NobodyActsBeforeOnboarding` shows that no
  authenticated route can be used meanwhile.
* Two refreshes of one token can fork a family into two live tokens
  (`OneLivePerFamily` holds only without overlap).
* A second submission can found a second administrator. One that has passed the
  gate and counted no account (`setup.py:80`, `104`) while another was not committed
  and looks for `app_setting` (`setup.py:139`) after it was finds the other's row,
  writes over it and commits its own account with it. `setup_gate.py:3-4` promises
  410 for ever, the comment at `setup.py:102-103` sets out to stop it.
  `OnboardedOnce` shows that this is the only way: it speaks of the founders that
  are not `late`, and a submission is late only when its settings were not the first.
* Two entries without title and link are taken for one story, whatever their ids and
  sources: the adapters put "(untitled)" in place of the title (`feed.py:90`,
  `json_feed.py:67`) before `compute_content_hash` sees it, so the hash is never the
  `None` that `normalize.py:35-38` and `models/collection.py:222-224` give such
  entries (the latter also says that the summary is hashed; it is not). What is lost
  is an entry. `EntriesKept` names this merger, and without it the run fails.
* `models/identity.py:180-181` says that recovery codes are "marked, never deleted",
  so that whether one was spent stays answerable; regeneration and a reset of the
  second factor delete them (`auth.py:299-301`, `users.py:286-287`).
* Two regenerations of recovery codes that overlap leave both sets valid: each
  deletes the codes it has read. `OneSetUnlessRaced` excepts exactly that.
* Two overlapping runs of one source without its lock can leave health, validator
  and count of different runs in its row, since only changed columns are written;
  `SourceRowAgrees` is about sources whose lock is held.
* Nothing resets `failed_login_count` when a lock runs out, so the next wrong
  password locks again; `unlock_user` leaves the Redis counter, so an unlocked
  owner can stay refused.
* Two renames that overlap can leave the monogram of one with the name of the other
  (`settings.py:84`: initials that equal the loaded ones are not written), and two
  PATCHes of preferences drop what the earlier one set (`settings.py:91`). Both
  properties except exactly those.
* The settings form sends all its fields, so saving a colour takes back another
  administrator's rename; a name cleared there is sent as null, which the API takes
  for not given, and the page says that it saved (`SettingsPage.tsx:53`,
  `settings.py:80`). PATCH stores any `logo_filename`; only the page's own use of it
  is modelled. Audit rows of a logo or preference change show no change.
* Audit ids are given before the commit: a row with an older id can appear after
  the page it belongs to was read. `PagesStable` is about rows that were there.
* `process_logo` says that it always stores PNG and that SVG is rasterised
  (`media.py:38-40`, `90-92`); a vetted SVG is stored as it is.
* Setup without an organisation name takes the initials of the founder's full name
  (`setup.py:148`), settings those of "HAYABUSA"; the model starts from a setup that
  was given a name.
* A stale heartbeat need not be a stalled scheduler (`system.py:5`): heartbeats wait
  in the queue of tasks that may take 900 s and expire after 25 s.
  `system.py:25` says that a single missed run is visibly stale, `health.py:34`
  allows for two.
* A feed's HTTP status is never looked at (`feed.py:113-145`): an error page that
  parses as a feed without entries counts as a success.
* An item of a JSON feed with neither id nor url is named by its position, even if
  it has an `external_url`, so a later one at that position is taken for it
  (`json_feed.py:62`, `68`). `EntriesKept` names this merger too. An entry edited
  under its id is kept as it was first stored.
* Roles are read when a request starts; what it commits may follow the loss of the
  permission that let it in (`rbac.py:69`).
* Two tabs that refresh together, a reload during a refresh, or a lost answer make
  the legitimate client present a spent token, and the family is ended. A logout
  that fails leaves the cookie, so a reload signs in again. A refresh that fails
  late clears the token of a newer login.

## Proofs

TLAPS proves for every value of the constants (under the named assumptions of the
modules, which TLC evaluates in every run):

* `RefreshTokensProofs`: types; an ended family lives on only through an overlap;
  without overlap ending is final and a family has one live token. The inductive
  invariant adds to the types what a request knows of its rows (`Shape`) and that a
  request that is ending a family already has chosen all its live tokens unless a
  rotation raced it (`RaceInv`): the property alone says nothing of a revocation
  between its snapshot and its commit. No session of a disabled account survives
  without overlap (`ShutOutAlone`), because a request that issues a token still has
  the account active and one that shuts it holds all its live tokens (`ShutInv`). Without overlap the rows implement
  `SessionContract` (`FamiliesAreSessions`): `ContractInv` says that a revocation
  still holds exactly the rows it would choose now, and the mapping lemmas take each
  commit to a step of the contract or a stutter.
* `SourceLockProofs`: types; a key is its setter's for the whole TTL; limits below
  the TTL exclude each other. The invariant (`Tokens`, `Timing`): running tasks have
  different tokens, and the key of a task that has worked for a while has at least
  the rest of its TTL. A set key is never prolonged or handed on (`KeyRunsOut`).
* `WorkerPoolProofs`: types; the pool implements `SourceLock` (`PoolImplementsLock`:
  every step is a step of the lock or leaves it alone, so the theorems above hold of
  the pool); a silent scheduler shows. The invariant `Heard` follows how old the news
  is from the queue, where it expires, to the process, to the time it takes, to the
  stamp. Conversely a heartbeat that is always sent and served never shows as stale
  (`SteadyBeatIsFresh`): `CalmInv` says that each of the last beats is still under way
  or has set a stamp as young as itself, and that the stamp's age is bounded by the
  life it has used up. The theorem assumes `BeatFits`: the stale limit is at least two
  limits of a heartbeat and the interval, the stamp's TTL above one limit and the
  interval. The code has 90 s and 300 s for a limit and an interval of 30 s; TLC
  finds the false alarm when either bound is missed by one unit.
* `CollectionRunProofs`: types; a stored validator is never ahead of the entries;
  whatever the feeds, an entry goes with another one only as the same id or url, the
  same story, two bare entries, or a name that is a position
  (`DedupeMergesNothingElse`, from what it means that two rows clash); where a lock keeps runs of
  a source apart, health and delay follow the failure count and every failing source
  was reported, twice only if a run was lost. The first invariant: each run has, up
  to its position, entries that are stored or pending in its own transaction. The
  second (`LInv`): one run of a locked source at most, what it loaded is still the
  row, and a run that has judged but not committed has already warned. Every fetch is
  sound (`FetchIsSound`), for every URL and journey of the form `NetworkAssumption`
  gives them, so also for those the run does not try.
* `SignInProofs`: types; guesses, waiting, single use unless raced, one set of
  codes unless raced (`OneSetIsValid`). The invariant relates guesses to the counter plus the attempts it has let
  through, and each request's loaded codes to what has happened to them since.
* `SessionClientProofs`: types; the cookie, one page, logout, no call left waiting.
  The invariant: the successor of the cookie's token is in exactly one place, under
  way, lost or arrived, and only arrived tokens are presented.
* `AdministrationProofs`: types and the six properties of setup and administration.
  The invariant adds that one submission at most inserts the singleton row, that one
  which founds an account besides has found it committed (`late`), that no
  pending write set takes anything from Super Admin, that a pending write set which
  touches other accounts spares its caller, and that without overlap the caller is
  still an administrator when it commits. Each follows only from the others: a
  commit preserves `Administrable` because of what was checked when its request
  was let in. The gate (`GateIsHonest`) and the intact super_admin role
  (`SuperAdminWhole`) are conjuncts of it and are proved, not run.
* `SettingsProofs`: types and all properties. `KInv`: what a request
  loaded is still the row, column by column, unless it is marked stale. `LInv`: any
  name a request holds is that of a whole file. `AInv`: a request that has changed
  the row holds it, and if it has an id, that id is the latest of those that tell of
  a change; this is why ids, given before the commit, still replay in order.
  `FirstRowAgrees` (the setup was given a name) is assumed. `RInv`, for paging: what
  the reader has got is every row that was there when it began down to the last one
  read, in order, none twice.

**Waiting.** That everything ends (`RequestsFinish`, `RunsEnd`, `FreedAgain`) is
liveness under fairness, which is beyond the prover. What those properties need of
the model beside fairness is safety, and is proved:

* Nobody waits for nothing. Take any request and whoever it waits for, and whoever
  they wait for, however long the chains: among them is one whose next step's guard
  holds, or one that the deadlock detector ends (`WaitsNeverHang`, with `OwnInv`: the
  rows a request writes are its own account's, so a rotation that holds the account
  waits only for a revocation that waits for it). So every deadlock of
  the model has one of two in it, and `Deadlocked`, which looks at pairs, misses none
  (bulk updates take their locks in one step, see below). For runs the circle
  can be of any size (`InsertsNeverHang`): a smallest group in which everybody waits
  for somebody is one. Finitely many requests, tokens and runs are assumed.
* Nobody goes round in circles: each step of a request or run takes it to a later
  phase, or in the inserts to the next entry, and no other's step moves it, except
  to the end (`RequestsGoForward`, `RunsGoForward`).
* A lock's key only loses time, and only a task or heartbeat at its limit holds time
  up (`KeyRunsOut`, `LimitsLetTimePass`).

That a step whose guard holds is eventually taken is what the fairness says; there
the three properties stay with TLC, as does what is stated with ENABLED. What
these theorems say of requests and runs was checked with TLC before it was proved,
and so was that requests and runs do wait, and do deadlock, in the same instances.

Recursive definitions (the URLs of a redirect chain, the rows of a page) are
functions, and what holds of all their values is proved from the least
counterexample, since an induction rule cannot be cited.

## Not modelled

Expiry of tokens (an expired one is refused and changes nothing), TOTP arithmetic,
the per-address counter, panels and display fields, filters and redaction of the
audit log, scaling of images and the drawing of monograms, parsing of RSS by
feedparser, logging, metrics, schemas and screens: straight-line code or libraries
whose result no other step depends on. Of the worker runtime: RedBeat's own lock,
process recycling, the event loop, and the retries of `AppTask`, which no task at
this commit uses (the heartbeat switches them off, and no task calls
`run_collection`).

Three simplifications in what is modelled. A bulk `UPDATE` takes the row locks it
needs in one step (`LockRows`); PostgreSQL takes them one by one, so two such
updates of the same rows could each hold what the other wants, which its detector
would part as it parts the pairs that are modelled. A request that the client or a
proxy has given up on is lost (`SessionClient.Lose`) before it reaches the server or
after; one that is served later still falls under the lost-answer exception of the
properties. That an `UPDATE` of a code deleted meanwhile fails the request is
SQLAlchemy's check of the row count.

## Plan

Written, in this order: sessions (`RefreshTokens` against `SessionContract`), lock,
collection run, sign-in, client, setup and administration, outgoing HTTP, settings
with media and audit, worker pool. What would add most next:

1. Client against server: `SessionClient`'s server half replaced by
   `RefreshTokens`, so that two overlapping refreshes meet the real transactions.
2. An abstract specification of sign-in (a bounded number of guesses per window)
   and of a collection run (at-least-once storing) with refinement runs.
3. When a task calls `run_collection`: the run inside `WorkerPool`, redelivered
   after a lost process, in place of the exclusion that `Locked` assumes.
