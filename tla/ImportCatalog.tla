---------------------------- MODULE ImportCatalog ----------------------------
(***************************************************************************)
(* The canonical `jobs` table of one provider, and the three kinds of task *)
(* that write it: import tasks that stage a feed snapshot and promote it   *)
(* (app/imports/importer.py, app/imports/promotion.py), the backfill of    *)
(* affiliate links inside a promotion, and the cleanup task that hard-     *)
(* deletes expired rows (app/imports/cleanup.py).  Every query of the      *)
(* source is scoped by provider_id, so one instance is one provider.       *)
(*                                                                         *)
(* A database transaction is one step when nothing it does can be seen     *)
(* before it commits and it holds no lock another task waits for; the one  *)
(* transaction that spans two steps, the sweep of stale jobs, keeps its    *)
(* uncommitted rows in promo[r].held and blocks the tasks that need them. *)
(* PostgreSQL runs READ COMMITTED.  A payload and its hash are one member  *)
(* of Contents: the hash is taken over the raw element of the feed.        *)
(***************************************************************************)
EXTENDS Integers, FiniteSets

CONSTANTS
  Jobs,             \* source_job_id values the provider may send
  Columns,          \* the feed-sourced columns of a job
  Values,           \* the values of a column
  Contents,         \* the records a feed may carry for a job
  NumRuns,          \* bound: how many import runs are ever started
  Snapshots,        \* bound: what each run may stage
  PoolSize,         \* how many tasks the Celery workers execute at once
  BatchSize,        \* PromotionService.batch_size
  CleanupBatch,     \* CleanupService.batch_size
  LinkLimit,        \* limit of find_active_jobs_missing_affiliate_link
  DropPct,          \* config["anomaly_drop_threshold_pct"]
  RejectionPct,     \* config["anomaly_rejection_rate_pct"]
  MaxRejected,      \* bound: invalid records in one feed
  Retention,        \* deleted_job_retention_hours, in clock ticks
  MaxTime,          \* bound: the last value of the clock
  Absent,           \* a staged snapshot holds no record for the job
  NoRow,            \* the jobs table holds no row for the job
  Unread            \* the batch has not looked the job up

Runs == 1 .. NumRuns

ASSUME CatalogAssumption ==
  /\ Contents \subseteq [Columns -> Values]
  /\ IsFiniteSet(Jobs)
  /\ NumRuns \in Nat
  /\ Snapshots \in [Runs -> SUBSET [Jobs -> Contents \cup {Absent}]]
  /\ PoolSize \in Nat \ {0}
  /\ BatchSize \in Nat \ {0}
  /\ CleanupBatch \in Nat \ {0}
  /\ LinkLimit \in Nat
  /\ DropPct \in Nat /\ RejectionPct \in Nat
  /\ MaxRejected \in Nat
  /\ Retention \in Nat \ {0}
  /\ MaxTime \in Nat

VARIABLES
  clock,      \* datetime.now(UTC), shared by all hosts
  feed,       \* job_staging: the valid rows each run staged
  jobs,       \* jobs, with "has an affiliate_links row" in `link`
  born,       \* history: rows ever created for a job; (job, n) is a row's id
  torn,       \* history: rows whose columns were last updated over a stale load
  promo,      \* the import task working on each run
  cleaner,    \* the cleanup task
  overlapped  \* history: two import tasks have run at the same time

tableVars == <<jobs, born, torn>>
vars == <<clock, feed, jobs, born, torn, promo, cleaner, overlapped>>
-----------------------------------------------------------------------------
(***************************************************************************)
(* Data                                                                    *)
(***************************************************************************)
Row == [gen : Nat,                  \* with the job, the primary key
        hash : Contents,            \* payload_hash
        cols : [Columns -> Values], \* the columns of _staged_field_values
        seen : Runs,                \* last_seen_import_run_id
        first : Nat, at : Nat,      \* first_imported_at, last_imported_at
        active : BOOLEAN,
        dead : Nat,                 \* deactivated_at, when not active
        link : BOOLEAN]             \* an affiliate_links row references it

Loaded == [gen : Nat, hash : Contents, cols : [Columns -> Values]]

ASSUME SentinelAssumption ==
  /\ Absent \notin Contents
  /\ NoRow \notin Row /\ NoRow \notin Loaded
  /\ Unread \notin Loaded /\ Unread # NoRow

Promotion ==
  [pc : {"idle", "staged", "batch", "links", "sweep", "backfill", "finish",
         "promoted", "ended"},
   rejected : Nat,                               \* records_rejected, until checked
   now : Nat,                                    \* taken when run() begins
   todo : SUBSET Jobs,                           \* staged rows not yet promoted
   found : [Jobs -> Loaded \cup {NoRow, Unread}], \* `existing`, for this batch
   fresh : SUBSET (Jobs \X Nat),                 \* ids of new_in_batch
   held : SUBSET Jobs,                           \* rows deactivated, uncommitted
   alone : BOOLEAN,   \* history: no other import task has run beside this one
   swept : BOOLEAN]   \* history: its sweep was committed

Cleaning == [pc : {"idle", "find", "delete"},
             cutoff : Int,
             ids : SUBSET (Jobs \X Nat)]        \* the batch to delete

\* A task before it starts, and one that is over: nothing else remains of it.
\* "promoted": it finished with status "completed"; "ended": it aborted, failed
\* or its process died.  No writer of the catalogue reads import_runs.status.
Rest(pc) == [pc |-> pc, rejected |-> 0, now |-> 0, todo |-> {},
             found |-> [j \in Jobs |-> Unread], fresh |-> {}, held |-> {},
             alone |-> FALSE, swept |-> FALSE]

Active(j) == jobs[j] # NoRow /\ jobs[j].active
ActiveJobs == {j \in Jobs : Active(j)}
StagedJobs(r) == {j \in Jobs : feed[r][j] # Absent}
Looked(r) == {j \in Jobs : promo[r].found[j] # Unread}
Working(r) == promo[r].pc \notin {"idle", "promoted", "ended"}
BusyRuns == {r \in Runs : Working(r)}

HasFreeWorker ==
  Cardinality(BusyRuns) + (IF cleaner.pc = "idle" THEN 0 ELSE 1) < PoolSize

\* Rows another transaction has updated and not committed: PostgreSQL makes
\* a second writer of such a row wait.
LockedByOthers(r) == UNION {promo[q].held : q \in Runs \ {r}}

Init ==
  /\ clock = 0
  /\ feed = [r \in Runs |-> [j \in Jobs |-> Absent]]
  /\ jobs = [j \in Jobs |-> NoRow]
  /\ born = [j \in Jobs |-> 0]
  /\ torn = {}
  /\ promo = [r \in Runs |-> Rest("idle")]
  /\ cleaner = [pc |-> "idle", cutoff |-> 0, ids |-> {}]
  /\ overlapped = FALSE
-----------------------------------------------------------------------------
(***************************************************************************)
(* Staging: ImportService.run commits the staged snapshot and the status   *)
(* "completed" in one transaction, before anything is promoted.  Runs that *)
(* fail to stage never reach the catalogue and are left to                 *)
(* ImportScheduling.                                                       *)
(***************************************************************************)
Stage(r) ==
  /\ HasFreeWorker
  /\ promo[r].pc = "idle"
  /\ \A q \in Runs : q < r => promo[q].pc # "idle"
  /\ \E snapshot \in Snapshots[r], n \in 0 .. MaxRejected :
       /\ feed' = [feed EXCEPT ![r] = snapshot]
       /\ promo' = [q \in Runs |->
            IF q = r
            THEN [promo[q] EXCEPT !.pc = "staged", !.rejected = n, !.alone = (BusyRuns = {})]
            ELSE [promo[q] EXCEPT !.alone = @ /\ ~Working(q)]]
  /\ overlapped' = (overlapped \/ BusyRuns # {})
  /\ UNCHANGED <<clock, tableVars, cleaner>>
-----------------------------------------------------------------------------
(***************************************************************************)
(* PromotionService._anomaly_reasons                                       *)
(***************************************************************************)
CatalogueDrop(r) ==
  LET active == Cardinality(ActiveJobs)
      valid  == Cardinality(StagedJobs(r))
  IN  active > 0 /\ (active - valid) * 100 > DropPct * active

HighRejectionRate(r) ==
  LET rejected == promo[r].rejected
      received == Cardinality(StagedJobs(r)) + rejected
  IN  received > 0 /\ rejected * 100 > RejectionPct * received

Anomalous(r) == CatalogueDrop(r) \/ HighRejectionRate(r)

AfterBatch(todo) == IF todo = {} THEN "sweep" ELSE "batch"

\* PromotionService.run up to the first batch: the clock is read, the staged
\* rows are loaded and the anomaly check passes.
BeginPromotion(r) ==
  /\ promo[r].pc = "staged"
  /\ ~Anomalous(r)
  /\ promo' = [promo EXCEPT ![r].pc = AfterBatch(StagedJobs(r)),
                            ![r].rejected = 0,
                            ![r].now = clock,
                            ![r].todo = StagedJobs(r)]
  /\ UNCHANGED <<clock, feed, tableVars, cleaner, overlapped>>

\* _run_anomaly_check marks the run failed and promotion returns.
AbortAnomalous(r) ==
  /\ promo[r].pc = "staged"
  /\ Anomalous(r)
  /\ promo' = [promo EXCEPT ![r] = Rest("ended")]
  /\ UNCHANGED <<clock, feed, tableVars, cleaner, overlapped>>
-----------------------------------------------------------------------------
(***************************************************************************)
(* _promote_batches.  The rows of a batch are looked up one by one; the    *)
(* unit of work then writes them all and commits.                          *)
(***************************************************************************)
LookUp(r, j) ==
  /\ promo[r].pc = "batch"
  /\ j \in promo[r].todo \ Looked(r)
  /\ Cardinality(Looked(r)) < BatchSize
  /\ promo' = [promo EXCEPT ![r].found[j] =
                 IF jobs[j] = NoRow THEN NoRow
                 ELSE [gen |-> jobs[j].gen, hash |-> jobs[j].hash, cols |-> jobs[j].cols]]
  /\ UNCHANGED <<clock, feed, tableVars, cleaner, overlapped>>

CreateJob(r, j) ==
  [gen |-> born[j] + 1, hash |-> feed[r][j], cols |-> feed[r][j], seen |-> r,
   first |-> promo[r].now, at |-> promo[r].now,
   active |-> TRUE, dead |-> 0, link |-> FALSE]

\* Mutants: an update that forgets the columns, and one that rewinds
\* last_imported_at.
UpdateJobKeepsColumns(r, j) ==
  [jobs[j] EXCEPT !.hash = feed[r][j], !.at = promo[r].now, !.seen = r]
UpdateJobRewinds(r, j) ==
  [jobs[j] EXCEPT !.hash = feed[r][j], !.cols = feed[r][j], !.at = @ - 1, !.seen = r]

\* The unit of work writes only the columns that differ from the values the
\* lookup loaded; is_active and deactivated_at are not touched.
UpdateJob(r, j) ==
  LET staged == feed[r][j]
      loaded == promo[r].found[j].cols
  IN  [jobs[j] EXCEPT
         !.hash = staged,
         !.cols = [c \in Columns |-> IF staged[c] # loaded[c] THEN staged[c] ELSE @[c]],
         !.at = promo[r].now,
         !.seen = r]

\* Mutant: an unchanged job is not stamped with the run.
MarkJobSeenForgetsRun(r, j) == [jobs[j] EXCEPT !.at = promo[r].now]

MarkJobSeen(r, j) == [jobs[j] EXCEPT !.at = promo[r].now, !.seen = r]

PromoteRow(r, j) ==
  IF promo[r].found[j] = NoRow THEN CreateJob(r, j)
  ELSE IF promo[r].found[j].hash # feed[r][j] THEN UpdateJob(r, j)
  ELSE MarkJobSeen(r, j)

\* What makes the flush raise: a row created since the lookup (unique
\* constraint), one deleted or recreated since (StaleDataError), or a clock
\* behind first_imported_at (jobs_import_timestamps_check).
Conflict(r, j) ==
  IF promo[r].found[j] = NoRow
  THEN jobs[j] # NoRow
  ELSE \/ jobs[j] = NoRow
       \/ jobs[j].gen # promo[r].found[j].gen
       \/ promo[r].now < jobs[j].first

BatchReady(r) ==
  /\ promo[r].pc = "batch"
  /\ Looked(r) # {}
  /\ Cardinality(Looked(r)) = BatchSize \/ Looked(r) = promo[r].todo
  /\ Looked(r) \cap LockedByOthers(r) = {}

CommitBatch(r) ==
  LET batch   == Looked(r)
      created == {j \in batch : promo[r].found[j] = NoRow}
      updated == {j \in batch \ created : promo[r].found[j].hash # feed[r][j]}
      crossed == {j \in updated : promo[r].found[j].cols # jobs[j].cols}
      rest    == promo[r].todo \ batch
  IN
  /\ BatchReady(r)
  /\ \A j \in batch : ~Conflict(r, j)
  /\ jobs' = [j \in Jobs |-> IF j \in batch THEN PromoteRow(r, j) ELSE jobs[j]]
  /\ born' = [j \in Jobs |-> IF j \in created THEN born[j] + 1 ELSE born[j]]
  /\ torn' = (torn \ (created \cup updated)) \cup crossed
  /\ promo' = [promo EXCEPT
       ![r].pc = IF created = {} THEN AfterBatch(rest) ELSE "links",
       ![r].todo = rest,
       ![r].found = [j \in Jobs |-> Unread],
       ![r].fresh = {<<j, born[j] + 1>> : j \in created}]
  /\ UNCHANGED <<clock, feed, cleaner, overlapped>>

\* The best-effort links of a batch's new jobs; with no new job the call
\* inserts nothing.  A link needs its job row to be there still.
GenerateLinks(r) ==
  /\ promo[r].pc = "links"
  /\ \A id \in promo[r].fresh : jobs[id[1]] # NoRow /\ jobs[id[1]].gen = id[2]
  /\ jobs' = [j \in Jobs |->
       IF \E id \in promo[r].fresh : id[1] = j THEN [jobs[j] EXCEPT !.link = TRUE]
                                            ELSE jobs[j]]
  /\ promo' = [promo EXCEPT ![r].pc = AfterBatch(promo[r].todo), ![r].fresh = {}]
  /\ UNCHANGED <<clock, feed, born, torn, cleaner, overlapped>>

\* A failure is rolled back, logged and not propagated.
LinksFail(r) ==
  /\ promo[r].pc = "links"
  /\ promo' = [promo EXCEPT ![r].pc = AfterBatch(promo[r].todo), ![r].fresh = {}]
  /\ UNCHANGED <<clock, feed, tableVars, cleaner, overlapped>>
-----------------------------------------------------------------------------
(***************************************************************************)
(* After the batches: the sweep, the backfill and the outcome              *)
(***************************************************************************)
\* Mutant: only what the previous run saw is considered stale.
StaleAfterPrevious(r) == {j \in ActiveJobs : jobs[j].seen = r - 1}

Stale(r) == {j \in ActiveJobs : jobs[j].seen # r}

\* deactivate_stale_jobs executes its UPDATE; nothing is committed yet.
DeactivateStale(r) ==
  /\ promo[r].pc = "sweep"
  /\ Stale(r) \cap LockedByOthers(r) = {}
  /\ promo' = [promo EXCEPT ![r].pc = "backfill",
                            ![r].held = Stale(r)]
  /\ UNCHANGED <<clock, feed, tableVars, cleaner, overlapped>>

\* Mutant: deactivated_at stays NULL.
DeactivatedUndated(row, now) == [row EXCEPT !.active = FALSE, !.dead = NoRow]

Deactivated(row, now) == [row EXCEPT !.active = FALSE, !.dead = now]

\* Mutant: the backfill looks only at the jobs this run created.
MissingLinkOfNew(r) ==
  {j \in ActiveJobs \ promo[r].held : ~jobs[j].link /\ jobs[j].first = promo[r].now}

\* find_active_jobs_missing_affiliate_link, inside the sweep's transaction.
MissingLink(r) == {j \in ActiveJobs \ promo[r].held : ~jobs[j].link}

\* The backfill's commit is what makes the sweep durable.
Backfill(r) ==
  /\ promo[r].pc = "backfill"
  /\ \E linked \in SUBSET MissingLink(r) :
       /\ Cardinality(linked) = LinkLimit
          \/ (linked = MissingLink(r) /\ Cardinality(linked) < LinkLimit)
       /\ jobs' = [j \in Jobs |->
            IF j \in promo[r].held THEN Deactivated(jobs[j], promo[r].now)
            ELSE IF j \in linked THEN [jobs[j] EXCEPT !.link = TRUE]
            ELSE jobs[j]]
  /\ promo' = [promo EXCEPT ![r].pc = "finish", ![r].held = {}, ![r].swept = TRUE]
  /\ UNCHANGED <<clock, feed, born, torn, cleaner, overlapped>>

\* The backfill's rollback undoes the sweep it shares a transaction with.
BackfillFails(r) ==
  /\ promo[r].pc = "backfill"
  /\ promo' = [promo EXCEPT ![r].pc = "finish", ![r].held = {}]
  /\ UNCHANGED <<clock, feed, tableVars, cleaner, overlapped>>

FinishPromotion(r) ==
  /\ promo[r].pc = "finish"
  /\ promo' = [promo EXCEPT ![r] = [Rest("promoted") EXCEPT !.alone = promo[r].alone,
                                                         !.swept = promo[r].swept]]
  /\ UNCHANGED <<clock, feed, tableVars, cleaner, overlapped>>

\* An exception outside the affiliate-link calls, a Conflict among them: roll
\* back and mark the run failed.
MarkFailed(r) ==
  /\ promo[r].pc \in {"staged", "batch", "sweep", "finish"}
  /\ promo' = [promo EXCEPT ![r] = Rest("ended")]
  /\ UNCHANGED <<clock, feed, tableVars, cleaner, overlapped>>

\* The worker process dies; the server rolls its transaction back.
Crash(r) ==
  /\ Working(r)
  /\ promo' = [promo EXCEPT ![r] = Rest("ended")]
  /\ UNCHANGED <<clock, feed, tableVars, cleaner, overlapped>>
-----------------------------------------------------------------------------
(***************************************************************************)
(* CleanupService.run                                                      *)
(***************************************************************************)
StartCleanup ==
  /\ HasFreeWorker
  /\ cleaner.pc = "idle"
  /\ cleaner' = [pc |-> "find", cutoff |-> clock - Retention, ids |-> {}]
  /\ UNCHANGED <<clock, feed, tableVars, promo, overlapped>>

\* Mutant: the cutoff is not compared.
ExpiredAtOnce(j, cutoff) == jobs[j] # NoRow /\ ~jobs[j].active

Expired(j, cutoff) == jobs[j] # NoRow /\ ~jobs[j].active /\ jobs[j].dead < cutoff

\* find_expired_job_ids, one batch; the loop ends when there is none.
FindExpired ==
  LET expired == {j \in Jobs : Expired(j, cleaner.cutoff)} IN
  /\ cleaner.pc = "find"
  /\ \/ /\ expired = {}
        /\ cleaner' = [pc |-> "idle", cutoff |-> 0, ids |-> {}]
     \/ \E batch \in SUBSET expired \ {{}} :
          /\ Cardinality(batch) = CleanupBatch
             \/ (batch = expired /\ Cardinality(batch) < CleanupBatch)
          /\ cleaner' = [cleaner EXCEPT !.pc = "delete",
                                        !.ids = {<<j, jobs[j].gen>> : j \in batch}]
  /\ UNCHANGED <<clock, feed, tableVars, promo, overlapped>>

\* hard_delete_expired_jobs rechecks every predicate, then commits.
HardDelete ==
  /\ cleaner.pc = "delete"
  /\ jobs' = [j \in Jobs |->
       IF /\ Expired(j, cleaner.cutoff)
          /\ <<j, jobs[j].gen>> \in cleaner.ids
       THEN NoRow ELSE jobs[j]]
  /\ cleaner' = [cleaner EXCEPT !.pc = "find", !.ids = {}]
  /\ UNCHANGED <<clock, feed, born, torn, promo, overlapped>>

\* An exception or a crash ends the task; the batch in hand is rolled back.
CleanupFails ==
  /\ cleaner.pc # "idle"
  /\ cleaner' = [pc |-> "idle", cutoff |-> 0, ids |-> {}]
  /\ UNCHANGED <<clock, feed, tableVars, promo, overlapped>>

Tick ==
  /\ clock < MaxTime
  /\ clock' = clock + 1
  /\ UNCHANGED <<feed, tableVars, promo, cleaner, overlapped>>
-----------------------------------------------------------------------------
Promote(r) ==
  \/ BeginPromotion(r) \/ AbortAnomalous(r)
  \/ \E j \in Jobs : LookUp(r, j)
  \/ CommitBatch(r) \/ GenerateLinks(r) \/ LinksFail(r)
  \/ DeactivateStale(r) \/ Backfill(r) \/ BackfillFails(r)
  \/ FinishPromotion(r) \/ MarkFailed(r)

Cleanup == StartCleanup \/ FindExpired \/ HardDelete \/ CleanupFails

Next ==
  \/ \E r \in Runs : Stage(r) \/ Promote(r) \/ Crash(r)
  \/ Cleanup
  \/ Tick

Spec == Init /\ [][Next]_vars
-----------------------------------------------------------------------------
(***************************************************************************)
(* Properties                                                              *)
(***************************************************************************)

\* The tables, the tasks and the history stay within their types; in
\* particular an inactive row always carries its deactivated_at.
TypeOK ==
  /\ clock \in Nat
  /\ feed \in [Runs -> [Jobs -> Contents \cup {Absent}]]
  /\ jobs \in [Jobs -> Row \cup {NoRow}]
  /\ born \in [Jobs -> Nat]
  /\ torn \subseteq Jobs
  /\ promo \in [Runs -> Promotion]
  /\ cleaner \in Cleaning
  /\ overlapped \in BOOLEAN

\* Run r is the last one, nothing ran beside it, and its sweep committed.
Settled(r) ==
  /\ promo[r].pc \in {"finish", "promoted"}
  /\ promo[r].alone /\ promo[r].swept
  /\ \A q \in Runs : q > r => promo[q].pc = "idle"

\* While imports of the provider do not overlap, a row shows exactly what the
\* run named in last_seen_import_run_id sent, in every column and in the
\* hash, whatever batches failed or crashed before.
RowShowsLastSeenSnapshot ==
  ~overlapped => \A j \in Jobs : jobs[j] # NoRow =>
              /\ jobs[j].hash = feed[jobs[j].seen][j]
              /\ jobs[j].cols = jobs[j].hash

\* After a promotion whose sweep committed, every row that is active or in its
\* feed is in its feed, is marked as seen, and has the hash and every column it
\* sent, whatever crashes, failed batches and overlapping imports left before.
\* Excepted are, among the columns, those of torn rows: updated last by a task
\* that had looked the row up before another changed it.  Such a row can keep a
\* column of another snapshot under the hash of this one, and a later run that
\* finds the hash equal only marks the row as seen (FeedColumnsShown); a run that
\* sends anything else repairs it.
CatalogueMirrorsFeed ==
  \A r \in Runs : Settled(r) =>
    \A j \in Jobs : jobs[j] # NoRow /\ (jobs[j].active \/ j \in StagedJobs(r)) =>
      /\ jobs[j].seen = r
      /\ jobs[j].hash = feed[r][j]
      /\ j \notin torn => jobs[j].cols = feed[r][j]

\* The backfill closes every gap earlier failed link generations left, as long
\* as its limit covers them.
PromotedJobsHaveLinks ==
  \A r \in Runs : Settled(r) /\ Cardinality(Jobs) <= LinkLimit =>
    \A j \in Jobs : Active(j) => jobs[j].link

\* A run that no other import overlaps never deactivates a job its own feed
\* contains.
SweepSparesOwnFeed ==
  \A r \in Runs : promo[r].alone => promo[r].held \cap StagedJobs(r) = {}

\* While imports do not overlap, last_imported_at and the last seen run of a
\* row only advance (the keyset pages of the public listing order by it).
TimestampsAdvance ==
  [][~overlapped' => \A j \in Jobs :
       jobs[j] # NoRow /\ jobs'[j] # NoRow /\ jobs'[j].gen = jobs[j].gen =>
         jobs'[j].at >= jobs[j].at /\ jobs'[j].seen >= jobs[j].seen]_vars

\* A row, with its link and every saved_jobs row that references it, only ever
\* disappears once it has been inactive for longer than the retention time.
OnlyExpiredRowsVanish ==
  [][\A j \in Jobs : jobs[j] # NoRow /\ jobs'[j] = NoRow =>
       ~jobs[j].active /\ jobs[j].dead + Retention < clock]_vars
-----------------------------------------------------------------------------
(***************************************************************************)
(* What the documentation says and the code does not do (see README)       *)
(***************************************************************************)

\* app/imports/promotion.py:53: "jobs for this provider that this run did not
\* see are soft-deleted", said of every promotion that is not aborted.
UnseenJobsSoftDeleted ==
  \A r \in Runs :
    (/\ promo[r].pc = "promoted" /\ promo[r].alone
     /\ \A q \in Runs : q > r => promo[q].pc = "idle")
    => \A j \in Jobs : Active(j) => jobs[j].seen = r

\* docs/feed_spec.md:74, 94: "Feed represents the latest snapshot", "The feed is
\* the source of truth": a promoted feed's jobs are live.
FeedJobsAreLive ==
  \A r \in Runs : Settled(r) => \A j \in StagedJobs(r) : Active(j)

\* app/imports/promotion.py:53 again: only jobs the run did not see are
\* soft-deleted, when two imports of the provider overlap too.
SweepSparesSeenJobs ==
  \A r \in Runs : promo[r].held \cap StagedJobs(r) = {}

\* docs/feed_spec.md:94 again, and app/db/repositories.py:525, "Overwrite a
\* Job's feed-sourced fields from a changed staged row": after a promotion that
\* nothing ran beside, the columns of its feed's jobs are those it sent.
FeedColumnsShown ==
  \A r \in Runs : Settled(r) =>
    \A j \in StagedJobs(r) : jobs[j] # NoRow => jobs[j].cols = feed[r][j]
=============================================================================
