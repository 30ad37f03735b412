# Verification of the job board backend

TLA+ models of `src/app` (FastAPI, SQLAlchemy/PostgreSQL, Celery, Redis): how
partner feeds become the public job catalogue, when they are imported, and what
visitors, members and crawlers get to see of it meanwhile. TLC checks the models on small instances, TLAPS
proves the theorems for every instance. Paths below are relative to `src/`.

## 1. Inventory

| Component | State it keeps | Operations | Interacts with |
|---|---|---|---|
| Catalogue promotion (`app/imports/promotion.py`, `PromotionRepository`) | `jobs`, `affiliate_links`; session state of one task | `run`: anomaly check, batches, links, sweep of stale jobs, backfill, finish, `_mark_failed` | reads `job_staging`; other promotions and the cleanup through row locks and constraints; bumps the filters cache |
| Cleanup (`app/imports/cleanup.py`) | deletes from `jobs` | `run`: per provider, find a batch, delete it re-checked, commit | promotions |
| Feed intake (`app/imports/downloader.py`, `parser.py`, `schemas.py`, `importer.py`) | temporary files, `import_runs`, `job_staging` | download with retries, extract, parse, validate, stage, `mark_failed` | the orchestration, promotion |
| Scheduling and orchestration (`celery_app.py`, `tasks/`, `imports/scheduler.py`, `import_orchestration_service.py`) | the broker's queue, `import_runs.status` | Beat, dispatch plan, sends, attempts, autoretry | admin trigger, staging, promotion |
| Feed record (`imports/schemas.py`, `hashing.py`, `inference_service.py`, `structured_data_service.py`) | the columns of one job | fallbacks, hash, inference, the row, the JSON-LD posting | intake, promotion, public pages |
| Provider administration (`admin_providers.py`, `admin_imports.py`, audit log) | `providers`, `admin_audit_logs` | update, activate, deactivate, trigger; the API does not create providers | the scheduler through `is_active`, the broker |
| Import history (`admin_imports.py`, `import_repositories.py`) | reads `import_runs` | pages by offset, total | import tasks |
| Filters cache (`app/core/filters_cache.py`, `get_filter_metadata`) | Redis `filters:version`, `filters:v<n>` | read-through, bump | API requests, promotions |
| Sitemaps (`sitemap_service.py`, `sitemap_tasks.py`, `sitemaps.py`) | files or rows of chunks and an index | generate, serve | active jobs |
| Refresh tokens (`jwt_service.py`, `auth_repositories.py`) | `refresh_tokens` | issue, rotate, revoke, reuse detection | sign-in, sign-out |
| Accounts (`google_oauth_service.py`, `admin_auth_service.py`, `scripts/create_admin.py`, `scripts/reset_admin_password.py`) | `users`, `admin_users` | callback, get-or-create, admin login, create an account, reset its password | refresh tokens |
| Public search, saved jobs (`api/v1/jobs.py`, `me.py`, `cursors.py`) | `saved_jobs` | keyset pages, save, unsave, list, rename | `jobs` as imports move it |
| Affiliate links (`affiliate_service.py`, `scripts/backfill_affiliate_links.py`, redirect) | `affiliate_links` | look up, generate, backfill, redirect | promotion creates links, the cleanup deletes them with their jobs |
| Rate limit, health, errors, configuration | counters in Redis | thin wrappers | requests |

What makes the system hard is not in any one function:

* A promotion is a *sequence of transactions*. Each batch commits; links and the
  backfill commit separately; the sweep has no commit of its own. A crash, an
  exception or another task may come between any two of them, and the next
  import must put right what the last one left.
* Nothing keeps two imports of a provider apart. A manual trigger, an autoretry
  or a second dispatch starts one beside another; the two then meet on the rows
  of `jobs` under READ COMMITTED, with SQLAlchemy writing only the columns that
  changed *against what the session loaded*.
* Dispatch is *check, send, wait, execute*: the plan is stale when it is sent
  and staler when it is executed; a worker that dies loses the task it
  acknowledged early and leaves its run open.
* A feed comes over a network that fails at every point of it, into files, a
  parser and one long transaction, each with a failure path of its own.
* Two writers of links run one multi-row INSERT that waits for the other's
  uncommitted rows, draws its random hashes again on a collision, and may deadlock.
* API requests are several statements under READ COMMITTED, with locks only where
  the code asks for them; the same row may be inserted, rotated, revoked or
  deleted between any two.
* The filters cache is filled by requests that compute under one version and
  store later, announced by promotions that may not reach Redis, through a
  client that repeats a command whose reply it lost.

What makes it correct, per component:

* *Catalogue*: a row shows one snapshot and names the run it came from; a
  promotion that nothing ran beside leaves the catalogue equal to its feed, whatever
  earlier ones left behind, save the columns of a row that overlapping ones mixed and
  whose hash the feed repeats (section 6); nothing a feed still contains is taken away;
  rows vanish only when their retention is over; every live job gets its link.
* *Scheduling*: an active, configured provider is imported again and again; a
  deactivated one no more; every run reaches an outcome; retries end.
* *Filters cache*: no answer is older than what was announced when its request
  came in, and what is not announced arrives when the entry expires.
* *Feed intake*: what is staged is one whole snapshot or nothing, with its counts;
  one bad record does not cost the feed; no files stay behind.
* *Refresh tokens*: a token is redeemed once; reuse ends the whole family; every
  request gets its locks in the end.
* *Sitemaps*: a crawler finds every file an index names and every job that stays
  active; in the end the files are the catalogue.
* *Paging*: what does not move between two pages is neither skipped nor repeated;
  what moves on is not repeated newest first, nor skipped oldest first.
* *Accounts and saved jobs*: requests that insert the same row at the same time
  are all told the truth; what was answered as saved is saved; a reset password
  stays reset and ends the sessions before it, but those that were given a token beside it.
* *Feed record*: what is stored and shown is what the feed says, and what could not
  be kept is reported.
* *Affiliate links*: a confirmed job is answered with its link, whoever made it; a
  backfill that ends well leaves no gap.
* *Administration*: the audit trail of a provider is its history; paging through the
  imports loses none.

The full list of hazards, each at its line and with the properties that watch
it, is `hazards` in `PROJECT.json`.

## 2. Plan

In order of importance; all of it exists.

| # | Module | Models | Abstract specification / composition / proofs |
|---|---|---|---|
| 1 | `ImportCatalog` | staging commit, promotion, sweep, backfill, cleanup | every property proved, `ImportCatalog_proofs` |
| 2 | `FiltersCache` | cache, requests, bumps | implements `FiltersService`; every safety property proved, `FiltersCache_proofs` |
| 3 | `ImportScheduling` | Beat, dispatch, trigger, attempts, retries, run status | environment of 1 and 7; safety proved, `ImportScheduling_proofs` |
| 4 | `RefreshTokens` | issue, rotate, reuse, revoke, with row locks | every safety property proved, `RefreshTokens_proofs` |
| 5 | `Sitemaps` | overlapping generators, chunk and index replacement | every safety property proved, `Sitemaps_proofs` |
| 6 | `PublicJobs` | keyset paging while imports run | every property proved, `PublicJobs_proofs`, its types carried to the run by `MCParts_proofs` |
| 7 | `Members` | sign-in, saved jobs, names | every property proved, `Members_proofs`, carried to its run by `MCParts_proofs` |
| 8 | `FeedIntake` | download, extraction, parsing, validation, staging | implements the `Stage` of 1 and details the `StageFails` of 3; every property proved, `MCParts_proofs` |
| 9 | `AffiliateLinks` | administrators, the backfill script, redirects, cleanup | both properties proved, `MCParts_proofs` |
| 10 | `AdminAccounts` | admin sign-in beside the account scripts | proved, `MCParts_proofs` |
| 11 | `FeedRecord` | fallbacks, hash, inference, row and posting | proved, `MCParts_proofs` |
| 12 | `ProviderAdmin` | edits, activation, triggers and their audit trail | proved, `MCParts_proofs` |
| 13 | `RunHistory` | pages of import runs by offset | proved, `MCParts_proofs` |

Every safety property of a passing run is a theorem. What is left to TLC is liveness, which
is beyond the prover (section 5). What could still be proved is a second composition:

* `ImportScheduling` follows a run by the worker that stages it, `FeedIntake` by the attempt
  that downloads it. That the steps of the second are steps of the first needs the retries of
  the task queue beside the attempts of one download; the two meet in `import_runs.status`.

Each module has its parameters as CONSTANTS with a named assumption, one action per
operation and no RECURSIVE operator, so that it can be proved about as it stands.

## 3. The modules and the code

### ImportCatalog

One provider (every query of the source is scoped by `provider_id`), any number of
import runs, the cleanup task, a shared clock.

| TLA+ | Code |
|---|---|
| `feed[r]` | the valid rows of `job_staging` with run `r` |
| `jobs[j]` | the row of `jobs` with `source_job_id` `j`, its `affiliate_links` row as the flag `link`; `gen` stands for the primary key, new for every insert |
| `promo[r]` | where the task of run `r` is, and its session: `todo` (staged rows left), `found` (`existing` in the current batch), `fresh` (`new_in_batch`), `held` (rows its open transaction has deactivated) |
| `cleaner` | where `CleanupService.run` is, its cutoff, the ids of its batch |
| `Stage` | `ImportService.run`, whose one commit makes the snapshot and the status `completed` visible before promotion begins |
| `BeginPromotion`, `AbortAnomalous` | the start of `PromotionService.run`, the two anomaly rules with their integer percentages and strict comparisons |
| `LookUp`, `CommitBatch` | `_promote_batches`: rows looked up one by one, then written in one transaction; `Conflict` is what makes the flush raise |
| `UpdateJob` | `update_job_from_staged` under SQLAlchemy's change detection: only columns that differ from the loaded value are written |
| `GenerateLinks`, `LinksFail` | `_generate_affiliate_links` for a batch |
| `DeactivateStale`, `Backfill`, `BackfillFails` | the sweep's UPDATE, then the backfill, whose commit or rollback is also that of the sweep |
| `FinishPromotion`, `MarkFailed`, `Crash` | the outcomes |
| `StartCleanup`, `FindExpired`, `HardDelete`, `CleanupFails` | the loop of `CleanupService.run` |

A record and its payload hash are one value of `Contents`: the hash is taken over the
raw element (`app/imports/hashing.py:62`), so two elements that are normalised to the
same columns are two contents, as two that differ in a column are. The comment at
`app/imports/importer.py:214` still says that the hash is over the normalised model;
`FeedRecord` shows why the code's choice matters. The columns of
`_staged_field_values` are `Columns`, kept apart from the hash because two overlapping
promotions can part them. `born`, `torn`, `alone`, `swept` and `overlapped` are history: no guard reads them,
save `born`, which numbers new rows. `torn` holds the rows updated last over a stale load: the
task had looked the row up before another changed its columns, and wrote only what
differed from what it had loaded. `Snapshots` bounds what a run may stage.

Three properties claim something of imports that do not overlap only:
`RowShowsLastSeenSnapshot`, `TimestampsAdvance` and, of one run, `SweepSparesOwnFeed`. What
overlap does to the first is what `CatalogueMirrorsFeed` excepts and `catalog_columns`
shows; to the second, what `PublicJobs` counts in; to the third, `catalog_overlap`.

### FiltersService and FiltersCache

`FiltersService` says what `GET /api/v1/jobs/filters` promises, whatever caches
it: each count of an answer comes from a commit no older than the last promotion
announced when the request came in, and none newer than there is. `FiltersCache` is
the code: `Commit`, `BeginBump`, `Seed` (`SET NX`), `Incr`, `GiveUp` for a
promotion and its bump; `Begin`, `ReadVersion`, `Hit`/`Miss`, one `Select` per
facet, `Store`/`SkipStore`, `FallOpen`, `End` for a request. Any Redis command may
fail; `INCR` may be executed and its reply lost, so that the client repeats it.
`Service == INSTANCE FiltersService WITH ...` is the refinement: `published` is what
was announced for the current version, `request` hides everything but a request's
lower bound and its answer.

### ImportScheduling

`Due` is `build_dispatch_plan` over `list_active_provider_schedules` (one SELECT);
`Send` and `EndDispatch` are the loop of `dispatch_provider_imports`, which a
refused message or a crash ends early; `Trigger`, `SetActive` are the admin
endpoints. `Take` acknowledges a task early, the Celery default. `StartRun`,
`RefuseInactive`, `StartFails`, `Stage`, `StageFails`, `StageLost`, `Completed`,
`PromoteFails` are the outcomes of `ImportOrchestrationService.run`, each with
`EndAttempt`: the task ends, or autoretry publishes its successor. Time is the age
of the newest completed run, up to the interval: older is not told apart. A run
under promotion is already `completed` for the dispatcher, so its age is kept with
the worker until the promotion's outcome decides whether it counts.

### Sitemaps

`Start` is `generate_sitemaps_task`; `ReadPage`, `EndRead`, `ReplaceChunk`,
`ReplaceIndex`, `ListStale`, `Unlink`, `Done` are the steps of `generate_sitemaps`, each
page one SELECT, each file one `os.replace` or `unlink`; `Abandon` is an exception or
the end of the process between any two. `Insert`, `CommitInsert` and `Retire` are
what imports do to the active jobs in between; ids are taken before the commit that
shows them, so rows may appear below the id a build has reached. `Listed` is what a
crawler finds: the chunks the index names, those that are there. `index.since`, `clean` and
`settled` are history: the jobs active all through a build, and whether another task,
living or dead, may have left files that are not this build's.

The docstring (`app/services/sitemap_service.py:34`) speaks of publishing "a complete
set"; the publication is file by file. `IndexNamesFiles` and `ActiveJobsStayListed`
therefore claim what the order of the files does ensure, and of two tasks at once only
`SitemapCatchesUp`: while they overlap an index may name a file the other removed.

### RefreshTokens

| TLA+ | Code |
|---|---|
| `row[t]`, `issued` | `refresh_tokens` in order of insertion; `session` is history, the sign-in it descends from |
| `SignIn`, `Issue` | a callback or `authenticate_admin`, then `issue_refresh_token` in a transaction of its own |
| `Ask`, `Lock` | `get_refresh_token_for_update`: the account is joined as of the statement's start, the token's row is read when its lock is granted |
| `Reject`, `Rotate`, `LogOut` | the outcomes of `rotate_refresh_token` and `revoke_refresh_token`, each with its commit or rollback |
| `StartSweep`, `EndSweep` | the UPDATE of `revoke_all_refresh_tokens`: matched when it starts, waits for locked rows, tests them again, commits |
| `Fail`, `Abort` | rollback by an exception, a dead process, a deadlock PostgreSQL breaks |

`expires_at` is abstracted to a flag `Expire` sets while the token is alive: after
that nothing reads it. `get_or_create_user` returns an account whose `deleted_at` is
set, so a deleted user signs in and is refused only at the first refresh; `SignIn`
says so.

### PublicJobs

`Page` is one `GET /api/v1/jobs`: `PageLimit`, `Search` with `PastCursor` and
`FirstOf`, the row beyond the page, the next cursor. `Insert`, `Seen`, `Sweep` and
`HardDelete` are what imports and the cleanup do to a row. `Seen` stamps it with the time its
import began, whatever stamp it has: `update_job_from_staged` and `mark_job_seen` do not
compare, and of two imports of a provider that overlap the older may be the later to reach a
row and move it back. `back` is history: the rows that were moved back so as to mislead a
client, one that reads the newest first after it was shown the row, one that reads the oldest
first before.

A client uses a cursor with the sort it was made for. The docstring
(`app/api/v1/jobs.py:58`) says "page contents stay stable while imports run"; what holds
is in the properties: newest first, a job an import moves on between two pages
moves to where the client has been and is skipped, never repeated; oldest first it may
be seen again, never missed (`MovesMisleadNone` is both, and a job that is repeated or
missed in spite of it is in `back`); and what is not touched is shown once
(`UntouchedShownOnce`).

### Members

`Callback`, `FindIdentity`, `FindEmail`, `CreateUser`, `CommitUser` are
`get_or_create_user`, with the second round of look-ups after an `IntegrityError`
(`again`). Between the first two look-ups another callback of the same identity may commit the
account, and the request is told that the address belongs to another identity
(`app/services/auth/google_oauth_service.py:69`), which is then not so: the model has that
outcome, and `RefusedInsertsResolved` claims the truth of it only after an
`IntegrityError`. `Rivals` is PostgreSQL's wait for an uncommitted row with the same unique
key. `Ask`, `CheckActive`, `InsertSaved`, `FindExisting`, `CommitSaved` and `Unsave` are
`save_job` and `delete_saved_job`, beside `Sweep` and `HardDelete` of the job. `Rename` is
the update of the display name, which a later sign-in must not overwrite with Google's;
`Listed` is the list of saved jobs, which hides inactive ones. `kept` and `renamed` are
history: what a member was told is stored and has not undone, for `AnsweredEditsKept`. A save
whose job or bookmark is removed under way may fail with an error;
`SavesFailOnlyIfUndone` says that nothing else makes it fail.

### FeedIntake

One row of `import_runs` and the attempt that works on it, from `StartRun` to the end
of the task. `Unreachable`, `RefuseAddress`, `Receive`, `Interrupt`, `BreakOff`, `TooLarge`
are the outcomes of one request, `TryAgain` and `Backoff` the loop of
`_download_with_retries`; `Extract`/`RejectArchive` is `_extract_xml`; `StageJob`,
`RejectJob`, `SyntaxError` are the loop of `ImportService.run` over `parse_job_feed`, with
`Normalise` for what the record schema does to a salary range; `Commit`,
`CommitUnconfirmed`, `RefuseFlush`, `DatabaseFails` its one transaction; `MarkStaging`,
`RemoveFiles`, `MarkFailed` the way out, in the code's order; `Kill` the end of the
process. Each request is answered with any snapshot, so the provider may publish a new
one between two attempts. What `ImportCatalog` calls `Stage` is `Commit` here.
`TasksEndClean` is that the run's counts add up to its whole feed or are zero, and that
only a killed process leaves files behind.

### FeedRecord

One element of a feed on its way to the page. The value of a field is the class of texts
the code tells apart (absent, blank, usable, one that falls back), so `Employment`,
`Currency`, `Amount`, `Url`, `ApplyUrl` and `Inverted` are the validators of `JobFeedRecord`
branch by branch, `Fallbacks` is `fallback_fields`, and `FirstMatch` the ordered rules of
`inference_service.py`. `Import` is what hash and promotion do to the row: equal hash, no
write. `RecordsFaithful` relates the row to the last element through any sequence of
imports: that a changed element always reaches the columns, that a value that was lost is
among the fallbacks, and that the posting (`build_job_posting_ld`) has no inverted salary,
no currency without an amount and a type for every employment a feed can name.

### AffiliateLinks

| TLA+ | Code |
|---|---|
| `writer[w]` | a request of an administrator, or the script: where it is, the list of the running statement and how far it has come, its uncommitted rows `own` |
| `Lookup`, `Generate` | `lookup_jobs`; `revalidate_and_generate`, which looks the confirmed jobs up again |
| `InsertRow`, `EndInsert` | `INSERT ... ON CONFLICT (job_id) DO NOTHING`, row by row as PostgreSQL executes it, the foreign key checked at its end |
| `Draw`, `Collide` | `secrets.token_urlsafe` and the savepoint that is rolled back when a hash is taken, `MAX_SHORT_HASH_ATTEMPTS` times |
| `WaitsFor`, `Deadlock`, `Cut` | the wait for another's uncommitted row, the victim PostgreSQL picks, a lost connection |
| `SelectLinks`, `Answer` | the SELECT that finds the links whoever made them, the commit and the answer |
| `StartBackfill`, `Find`, `CommitBatch`, `EndBackfill` | the loop of the script over providers and batches |
| `Deactivate`, `HardDelete` | an import's sweep; the cleanup, which the foreign key's lock holds up |
| `Destination` | `redirect_affiliate_link` |

`gap` is history: the jobs of the listed providers that have been active and without a
link ever since the script began.

### AdminAccounts

`SignIn`, `Lookup`, `RecordLogin`, `IssueToken` are `admin_login` with its two transactions;
`BeginRotation`, `CommitRotation`, `RotationFails` are `rotate_refresh_token` of a session's
newest token, from the lock of its row to the commit of the successor;
`Create`, `CheckExists`, `InsertAccount` and `Reset`, `FindAccount`, `BeginUpdate`, `LockToken`,
`EndUpdate`, `CommitReset` the two scripts; `Disable` stands for the edit of the table that alone
can clear `is_active`.

The reset's UPDATE of `refresh_tokens` matches the rows there are when it begins, waits for a
row a rotation holds, and passes over it when it finds it spent; it knows nothing of the
successor, nor of the token of a sign-in that had checked the old password and inserts it
later. Either session outlives the reset. `chosen` (the password last set, and by which
command) and `crossed` (the resets a sign-in, or a rotation of its token, ran beside) are
history, and `ResetsHold` excepts exactly those: a session is open under the current password,
or it crossed the very reset that set it. The next reset that it does not cross ends it.
Other ends of a session (logging out, a replayed token, its age) are in `RefreshTokens`.

### ProviderAdmin

`LockRow`, `Flush`, `Record`, `Commit` are `update_provider` and `set_provider_active`;
`CheckActive`, `Enqueue`, `Record`, `Commit` are `trigger_provider_import`, which enqueues
before it records. `Cut` rolls a transaction back, not the task it has enqueued, so a
trigger that failed may run unrecorded; what `AuditTrailTrue` claims is that nothing recorded
failed to run, and that the edits of a provider, by the ids of the trail, are a chain from
its first state to its present one: what precedes an edit `Leave`s the state it begins with, and
all of them leave what the row says. Ids come from a sequence while the row is locked, which
is why their order is that of the commits.

### RunHistory

`ReadPage` and `ReadTotal` are the two statements of `list_import_runs`, each with its own
snapshot; `Create` and `Finish` are the tasks at their side, and a run may become visible
below one that began later. A page is the runs whose `Place` in the list, counted from the
newest, lies between the offset and the offset plus the limit. `WalkMissesNoRun` holds of the whole list and of the failed
runs, which only grow; of the other two filters it does not, since runs leave them.

### MC modules

`MCImportCatalog`, `MCFiltersCache`, `MCImportScheduling`, `MCSitemaps`, `MCRefreshTokens`
give a module its instance. `MCParts` holds eight parts that share no variable: `PublicJobs`
by EXTENDS, `Members`, `FeedIntake`, `AffiliateLinks`, `ProviderAdmin`, `RunHistory`,
`AdminAccounts` and `FeedRecord` by INSTANCE. `part` says which of them a behaviour moves;
the others stay in their initial states, so that the states of the parts are added, not
multiplied.

## 4. Runs

| Run | Instance | Shows |
|---|---|---|
| `catalog` | 2 jobs, 3 records that differ in one or both of two columns, 2 runs, 2 workers, batches of 1, retention 1, clock to 2; then 2 more runs of one job | all properties of the catalogue with overlap, crash, failure and cleanup anywhere, and what a later run finds of two that overlapped |
| `catalog_backfill` | 1 job, 2 runs, 1 worker | violation: `UnseenJobsSoftDeleted` |
| `catalog_reappear` | 1 job, 3 runs, 1 worker | violation: `FeedJobsAreLive` |
| `catalog_overlap` | 1 job, 2 runs, 2 workers | violation: `SweepSparesSeenJobs` |
| `catalog_columns` | 1 job, 3 records, 4 runs, 2 workers | violation: `FeedColumnsShown` |
| `filters_cache` | 2 promotions, 2 requests, 1 facet, 2 commits, 2 versions | the cache is never older than announced, implements `FiltersService`, and follows unannounced changes when the entry expires |
| `scheduling` | 1 provider, 2 workers, 2 retries, 2 equal messages, 1 lost outcome | providers keep being imported; deactivation is final; accounting of open runs |
| `scheduling_lost` | 1 provider, 2 workers, 1 retry | violation: `ActiveProvidersImported` |
| `sitemaps` | 3 jobs, chunks of 1, 2 generators, 1 failure, 2 jobs that appear while two tasks overlap | builds list what was active throughout; what the order of files ensures of the index; the sitemap catches up |
| `refresh_tokens` | 1 user, 2 requests, 4 tokens (`RefreshTokens.cfg`) | a session has one live token; revoked families stay revoked; every request ends |
| `parts` | paging: 3 jobs, 2 times, pages of 1 and 2, cap 4; members: 2 identities, 2 addresses, 1 job, 2 requests; intake: every feed of up to 2 elements, one too long to extract, one too long to download, 2 requests; links: 2 jobs of one provider, 2 providers, 2 hashes, 1 administrator and the script, batches of 2, slices of 1, 2 draws; providers: 2 named, 1 of them existing, 3 settings, 2 requests, 3 actions; history: 3 runs, pages of up to 2; accounts: 1 address, 2 passwords, 1 sign-in, 3 commands; record: elements that vary one group of fields at a time | what each of the eight parts promises while its requests overlap and fail |
| `intake_cut` | the same intake | violation: `CutOffIsTransient` |

### Bounds

* *Jobs.* Rows of different jobs meet only in the counts of the anomaly check, in
  batches and in the limits; two jobs with batches of one give a first and a
  last batch, a job promoted before another is looked up, and a sweep that takes
  one and leaves the other.
* *Runs.* Two overlapping runs already write the same row in every order the two
  tasks allow. To mix the columns of a row takes one run to create it, two to overlap
  and a third record, and to see the damage last takes a fourth run: the constraint
  `LaterRunsOfOneJob` follows such sequences, and only such ones, beyond two runs (one
  job, the first run over, the fourth alone, no cleanup, the clock at zero), and what the later
  runs stage is bounded by `MCSnapshots`. The theorems of `ImportCatalog_proofs` hold for
  any number of runs and snapshots.
* *Records.* Two that differ in one column and agree in the other tell a partial
  column update from a full one and from a stale hash; a third that differs in the other
  column lets two updates mix.
* *Clock and retention.* With retention 1 and a clock to 2, `dead + 1 < clock`
  holds at the last tick only, so a row deactivated at 0 expires and one deactivated
  at 1 does not.
* *`MaxQueue`* merges equal messages: two tell "one more waits" from "none".
* *`MaxVersion`, `MaxCommits`.* Two promotions and an `INCR` executed twice press
  against two versions, and a reader may be left behind by both commits; more
  versions, facets and requests are covered by the theorems.
* *`MaxLost`* is one because a single lost outcome already blocks the provider.
* *`OverlapJobs`* bounds the jobs that appear while two generators run, *`MaxFaults`*
  the tasks that die: one dead task leaves every mixture of old and new files that
  replacing them one by one can.
* *`MaxTokens`* leaves room for a rotation of each request after a sign-in, and for
  one more. The account is a user: an administrator's sign-in has one guard more, so
  a user reaches what an administrator does, and tokens presented at the other
  kind's endpoint are there too. The theorems cover both at once.
* *`PublicJobs`.* Three jobs over two times give ties and differences of
  timestamps on both sides of a cursor, and rows that move on or back across it; pages of one and two make pages full,
  partly full and followed by one row. The cap of four is never reached by three
  jobs seen once, and is reached by a job seen again, oldest first.
* *`Members`.* Two requests race on one key; a third finds what two have left.
* *`FeedIntake`.* One attempt: attempts of different runs share nothing but the
  provider. Two elements are enough to repeat a reference and to reject one of two.
* *`AffiliateLinks`.* Two jobs with slices of one make two statements under one
  transaction; two hashes for two jobs collide, and after two draws fail; an
  administrator and the script lock the same two rows in either order, which is the
  deadlock. Both jobs are the lowest provider's, so the script finds its second without
  work. The theorems cover every size.
* *`ProviderAdmin`.* `MaxActions` is three: two edits that overlap, and one that starts
  from what they left. The name without a row gives `not_found`.
* *`RunHistory`.* Three runs and pages of one and two put a border of a page above, below
  and between runs that appear during the walk.
* *`AdminAccounts`.* Three commands: one creates the account, two resets overlap beside
  the sign-in and the rotations of its token. The theorem covers any number, and the UPDATE
  that locks the rows of several sessions.
* *`FeedRecord`.* The groups (salary, price, words, title with addresses, employment, what
  is unmapped) do not meet in the code, save that a salary's currency is shown beside an
  amount, and those vary together. The words of a title are taken in pairs, since the rules
  pick the first of those that match. The theorem covers every element.
* The link limit of 5000 is `LinkLimit`; `PromotedJobsHaveLinks` claims something
  only when the limit covers the provider's jobs.

Deadlock checking is on but in `parts` and `intake_cut`, where an attempt comes to its
end and nothing follows. Everywhere else there is always something left to do: a
clock to tick, a cleanup to start, a request to answer.

### Fairness

`FiltersCache`'s `FairSpec` asks for weak fairness of the entry's expiry and of a
request that has begun (each of its Redis commands and statements returns or
fails). Nothing is assumed of promotions, and no new request need ever arrive:
`EventuallyCurrent` speaks of the entry and does not need one.

`ImportScheduling`'s asks for weak fairness of time, of the task in hand (the
downloads and their retries are bounded in time, `imports/downloader.py`) and of
the end of a dispatch. Strong fairness of building a plan, of sending and of
taking a message says that the broker hands out messages in order, so none is
passed over for ever by newer ones, and that it accepts one now and then.
Outcomes are not assumed fair: an import may fail every time, and
`KeepsBeingImported` is about being attempted.
`Sitemaps`'s asks for weak fairness of the start of a task, which Beat sends at a fixed
interval, and of each step of a task that is not abandoned. `RefreshTokens`'s is strong
for each request: PostgreSQL grants a row's lock in the order it was asked for, so a
request is not overtaken for ever, and it detects deadlocks; no request need arrive.

The other modules have no liveness property and no fairness: their requests and tasks run
once from beginning to end, without loops that another could keep going.

## 5. Proofs

All theorems hold for every value of the constants that satisfies the named
assumptions, which TLC evaluates on each run: `CatalogAssumption` (a finite set of
jobs, batch sizes and a pool of at least one, thresholds and retention natural
numbers, records typed by columns), `SentinelAssumption` (the markers for "no
row", "not looked up" and "not staged" are no rows or records),
`CacheAssumption` (at least one version), `TokenAssumption` (users and administrators
are different, there is one of them, requests are finitely many), `PagingAssumption` and
`SitemapAssumption` (pages and chunks of at least one, the rest natural numbers),
`SchedulingAssumption` (finitely many workers, intervals of at least one),
`MembersAssumption` and `AccountsAssumption` (some subject, address, job, password),
`IntakeAssumption` (the feeds are feeds, limits of at least one), `LinksAssumption`
(finitely many jobs with one owner each, providers have numbers and there is one, as their
primary key is a sequence's, the script is no administrator, sizes of at least one),
`AdminAssumption` (existing providers are among those named, some setting is acceptable),
`HistoryAssumption` (pages of at least one), `RecordAssumption` (the elements are elements). Jobs, runs, workers, batch sizes,
thresholds, requests and filters are otherwise arbitrary. Where `MCParts` instantiates a
module, its assumption is an ASSUME of `MCParts`, since TLC evaluates those of the module
it runs.

### `ImportCatalog_proofs`: every property of `ImportCatalog`

None of the properties is inductive. The invariant that carries them is built in
layers, each proved from the ones before:

1. `Shape`: the types; a task has looked rows up only in a batch, and only staged
   ones (`TaskOK`); the rows it has deactivated and not committed are active for
   everyone else and no other task holds them (`HeldOK`). Without the first, a batch
   might write a row from a record that is not there; without the second, the
   backfill might date a row the cleanup has deleted. This gives `TypeCorrect`.
2. `CutoffOK`: the cutoff of a running cleanup lies a retention before the clock.
   With it, `RowsVanishOnlyExpired`: the DELETE compares again.
3. `Solitude`: runs start in order, a run that is `alone` has seen no other task at
   work since it started, and without overlap every working run is alone.
4. `Marked`: what a lone run has loaded is what the rows still hold, what it has
   promoted carries its stamp, what it has deactivated does not. This gives
   `LoneSweepSparesOwnFeed`.
5. `Stamped` and `LoneBatch`: no row carries the stamp of a run still to come, and a
   batch of a lone run leaves rows that equal its snapshot in spite of the partial
   UPDATE. This gives `RowsShowSnapshots`.
6. `TimeOK`: the time a lone run took before its batches is no earlier than any
   row's, so `TimestampsOnlyAdvance`.
7. `HashOK`, `WholeOK`, `SparedOK`, `DoneOK`: a row that is not torn has the columns its
   hash was taken of, whoever wrote it (`BatchWhole`: a batch leaves each of its rows whole or
   torn); what the sweep spares, and what is left of that
   when it has committed, including through `MarkFailed` and crashes of the task and
   the cleanup at its side. This gives `FinishedPromotionMirrorsFeed` and
   `FinishedPromotionHasLinks`; the latter counts: a batch of `LinkLimit` links among
   no more than `LinkLimit` jobs is all of them.

`RowStep` and `TaskMoves` say once what a step can do to a row and to a task; the
step proofs of the layers use those instead of the actions.

### `FiltersCache_proofs`

`IInv` relates each request's version and payload to what was announced when that
version became current (`EntryOK`, `ReaderOK`, `PromoterOK`, `AnnouncementsOrdered`). It
is needed because the freshness of an entry is not a fact about the entry: a
request may store under a version long superseded, and what keeps that harmless
is that announcements only grow with the version and a version's own announcement
never changes. It gives `TypeCorrect`, `EntriesAreFresh`, `AnswersAreFresh`, and, step
by step, `CacheImplementsService`.

### `RefreshTokens_proofs`

`OneLiveTokenPerSession` is not inductive: a second successor could come from a
request that read a token as alive before the first was committed. The invariant adds
that a row has one holder at most, and that a request which holds a row and read it as
alive, or as spent, still finds it so (only the holder changes it). Then a rotation
spends the one live token of its session as it inserts the next. For
`EndedFamiliesStayEnded` it adds that what a running family update is to end and has not
matched is revoked already, since tokens are never brought back to life: there is no
action that clears `revoked_at`. The lemma `RowsKept` says once what a step can do to a row.

### `PublicJobs_proofs`

Neither property is inductive: a page is a set of rows cut at a rank among those that match,
at a moment that is gone when the next page is read. The invariant relates what a client
has been shown to its cursor instead: what it was shown and has stayed lies behind the
cursor, what is still to come and has stayed lies beyond it, and what was moved to the wrong
side of it is in `back`. A row moved on cannot come there: newest first it moves behind the
cursor, oldest first beyond it. The lemmas from `FirstIsRank` to
`SearchResult` say what the first n of a set of rows are (the rows of rank at most n, closed
downwards, all of them if they are few); `PageStep` puts them together for a page.

### `ImportScheduling_proofs`

`ProcessingRunsHaveTask` counts: the runs of a provider in `processing` are the workers that
stage it and the outcomes that were lost. The proof keeps that equation through every step by
the cardinality of the set of staging workers (`StagingBegins`, `StagingEnds`): one step moves
one worker in or out of it.

### `Sitemaps_proofs`

1. `Build`: the pages of a build are disjoint, read in order, `Complete` (every job active
   throughout and passed by the build is on one), `Counted` (the first c chunks hold at most
   c times the chunk size) and `Full`. This gives `BuildsComplete`.
2. `Alone`, `Clean`: a task that was undisturbed is the only one, what it has moved is in
   place, what it will unlink the index does not name. This gives `IndexNamesFiles`.
3. `Published`, `Supersedes`: while the chunks of a new build replace those of the old one
   by one, a job could fall between an old chunk already replaced and a new one not yet in
   place. It does not, because a job only ever moves to an earlier chunk: those ahead of it
   retire, none come in below (`MovesEarlier`, from the counts `PageIsPrefix` and
   `PrefixBound`). This gives `ActiveJobsStayListed`.

### `Members_proofs`

`InsertsExclude`: a row that is inserted and not committed has no rival, since the insert waits
for one. `RefusalsKnown`: what an `IntegrityError` has told a request stays true, for accounts
are not deleted. `CrossingsSeen`: what takes away what a save needs marks the save as
crossed. Together with uniqueness and the foreign keys they imply the three properties.

### `MCParts_proofs`

A behaviour of `MCParts` moves a part by its own steps or leaves it alone (`PartsMove`), so an
invariant of a part is one of the composition.

* *Members*: the invariant above, through an instance of `Members_proofs`.
* *Accounts*: `ChecksStand` (a sign-in that has checked a password, or opened a session with
  it, has checked the one in force, or was crossed by the reset that set this one) and
  `ResetsReach` (a reset whose UPDATE has begun has matched or locked every open session that
  it did not cross). `ResetsHold` alone says nothing of a sign-in between its check and its
  session, of a reset under way, or of what a rotation does to its rows.
* *Intake*: `TaskSound` (what a task has read is what it has staged and rejected, only
  elements whose range fits, and its rows are the records of the elements it has passed) and
  `RunSound` (the run shows nothing before the commit, and the whole feed after it). That the
  rows are the records, each in its place, is said by counting (`AreRecords`): the row of
  an element is the one whose number is that of the essential elements up to it, so that one
  more element is one more row (`EssentialOneMore`, `OneMoreRecord`) and no induction over
  the feed is needed. `StagedIsOneSnapshot` needs besides that a task which parses has the
  whole body of the response it parses. `OnlyRepeatsRefused` needs that `Normalise` ensures
  `RangeFits` (`NormaliseFits`).
* *Intake and catalogue*: `IntakeImplementsStage` is the refinement that lets `ImportCatalog`
  begin with a snapshot. `offered` maps a run to what promotion can read of it, the record of
  each job and two counts; a step of the intake either leaves it or is the one `Stage` of its
  run: all records at once, one for a job, as many as elements were received and not
  rejected, which is how `HighRejectionRate` counts what was received. That a feed with a
  repeated reference is refused is what makes rows and jobs the same number
  (`RowsAreSnapshot`). Run numbers, the free worker and the tasks at work, which `Stage` also
  has, are `ImportCatalog`'s own.
* *Links*: `RowsApart` (no two rows, committed or not, are of one job or have one hash),
  `StatementOK` (every job of the statement is settled or still to do, and own rows are of no
  job that is), `RequestOK` (a request is one statement for what was confirmed and not
  excluded) and `GapOK` (a job in the gap belongs to a provider still listed). `NoBatchLeft`
  says why a provider may be crossed off: only a batch of nothing is empty.
* *History*: of a list that only grows, `Covered` says that every run of it when the walk
  began whose place is now within what has been read was shown. A run that commits late
  moves others down, never up (`PlacesGrow`), so nothing slips above the border of a page.
  The total is read after the page; the walk ends when the offset has reached it, and a run
  has a place no greater than the total.
* *Administration*: `RequestFits` (a request that edits has locked the row and still finds it
  as it read it, and its id is beyond those of the provider's edits) and `Apart` (no two
  requests edit a provider or hold an id at once). From them `ChainGrows`: the entry that is
  committed begins with what the last one left. The chain alone is not inductive, since it
  says nothing of an entry that has its id and is not committed.
* *Record*: the row is the last element's, hash and all. A row whose hash equals that of the
  next element is of that element, because the hash is of the raw element.

* *Types*: `PartsTyped` puts the invariants of the eight parts together. It says more than
  types: the unique keys of accounts, links and audit entries, and that saved jobs refer to
  accounts and jobs that exist. `JobListsAreLists`: a list without a repetition is one of
  those `AffiliateLinks` enumerates for a set of jobs.

Only model-checked: liveness (`EventuallyCurrent`, `KeepsBeingImported`,
`DeactivationIsFinal`, `SitemapCatchesUp`, `RequestsEnd`), which rests on fairness and
ENABLED and is beyond the proof system. What TLC refutes (section 6) is not for proofs.

## 6. Where the code and its documentation part

Each is a run TLC answers with a counterexample.

* `catalog_backfill`. `deactivate_stale_jobs` runs its UPDATE and
  `_backfill_missing_affiliate_links` then works in the same, uncommitted
  transaction. When the backfill raises, `_generate_affiliate_links` rolls back and
  logs, which undoes the sweep too; the run then completes and reports
  `deleted_jobs`. The docstring (`app/imports/promotion.py:53`) says that jobs the
  run did not see are soft-deleted, and that a link failure does not reach into
  the promotion. The next promotion repairs it: `CatalogueMirrorsFeed` holds of
  every promotion whose sweep did commit.
* `catalog_reappear`. A swept job that the feed sends again is found by its key and
  updated or marked as seen, but nothing sets `is_active` or clears
  `deactivated_at`. It stays invisible, and when the retention is over it is
  deleted, after which the next import creates it anew.
* `catalog_overlap`. With two imports of a provider under way, the sweep of one
  deactivates every row whose last seen run is not its own, also rows of its own
  feed the other has stamped since. With the previous point they stay down.
* `catalog_columns`. A row holds (a1, b1). Two imports overlap and both look it up; one sends
  (a2, b1) and writes the first column, the other sends (a1, b2) and writes the second, and its
  hash. The row shows (a2, b2), which no feed ever sent. The next import sends (a1, b2), finds
  the hash equal, and `mark_job_seen` leaves the columns. So it stays until the provider
  sends something else for the job. `update_job_from_staged` says that it overwrites the
  feed-sourced fields (`app/db/repositories.py:525`), and `docs/feed_spec.md:94` that the
  feed is the source of truth.
* `scheduling_lost`. The dispatcher skips a provider with a run in `processing`.
  A worker that dies, or a database that is down when `mark_failed` is called,
  leaves one; nothing closes it, so the provider is not scheduled again until
  someone edits the table.
* `intake_cut`. A download that breaks off in its body is not a `TransientImportError`.
  With a declared length `http.client` returns an empty block, the loop takes it for the
  end and the archive is found broken; with a chunked body `IncompleteRead` passes the
  handlers unconverted. Either way neither the download loop nor the task tries
  again, and the provider waits for its next interval. What is staged stays right:
  `StagedIsOneSnapshot` holds.

## 7. Not modelled

* Texts. What the validators and the inference rules do to a string is modelled by the class
  of the string; the regular expressions, the parsing of addresses and the digest itself are
  not. Salary periods and the warning counts per field are left out. In
  `ImportCatalog` and `ImportScheduling` the whole intake is "any snapshot, any number of
  rejected records, or a failure".
* `GET /imports/{id}/rejected`. It lists staged rows with `is_valid = false`, and nothing in
  the code stages one (`app/db/repositories.py:331`): the list is always empty.
* Scripts that seed or analyse data, and migrations, which run once and alone.
* Of the family's revocation: a rotation or a sign-in that commits after the UPDATE
  has begun is not matched by it (`app/services/auth/jwt_service.py:158`), so a session
  may outlive the revocation; `EndedFamiliesStayEnded` claims nothing of it. The same of a
  password reset is modelled, in `AdminAccounts`.
* Access tokens, which are not stored, and password and OAuth exchanges.
* Several providers in one catalogue instance: no statement crosses providers,
  except that cleanup walks over them one by one.
* A Redis that loses its memory. The version would restart at 1 while slow
  requests hold older ones; the code does not defend against it.
* Row locks of a batch's own flush: the flush and its commit are one step, since
  the locks are gone when the step is over. Only the sweep, which holds its rows
  across the backfill, blocks others. Deadlocks PostgreSQL would break by failing
  one transaction are covered by `MarkFailed`.
* Rate limiting, health checks, the mapping of errors and the configuration: thin wrappers
  around libraries, without state of their own.
