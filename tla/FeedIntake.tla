------------------------------ MODULE FeedIntake ------------------------------
(***************************************************************************)
(* One import run from its start to the commit of its staged records:      *)
(* DownloadService (app/imports/downloader.py), parse_job_feed and the     *)
(* record schema, ImportService.run, and what ImportOrchestrationService   *)
(* does when one of them fails.                                            *)
(*                                                                         *)
(* A provider's snapshot is the sequence of its Job elements; its archive  *)
(* and its XML are measured in units of one element and one for the rest.  *)
(* Of a record only what can refuse it is kept: its SenderReference,       *)
(* whether the other essential fields are usable, and its salary range.    *)
(* Each request is answered with whatever the provider publishes by then.  *)
(***************************************************************************)
EXTENDS Integers, FiniteSets, Sequences

CONSTANTS
  Runs,             \* rows of import_runs, one attempt of the task each
  References,       \* values of SenderReference
  Snapshots,        \* what a provider may publish
  MaxAmount,        \* the largest amount numeric(14, 2) holds
  MaxAttempts,      \* retry_max_attempts
  MaxDownload,      \* download_max_bytes
  MaxExtracted      \* download_max_extracted_bytes

VARIABLES
  run,              \* each row of import_runs, with its rows of job_staging
  task,             \* the attempt that works on it
  files             \* temporary directories, by the run they are for

vars == <<run, task, files>>

None == -1
Amounts == 0 .. MaxAmount

\* A raw amount may be missing, or be no amount numeric(14, 2) can hold.
Entry == [reference : References, essential : BOOLEAN,
          low : Amounts \cup {None, MaxAmount + 1},
          high : Amounts \cup {None, MaxAmount + 1}]

\* The archive holds one XML document, one that breaks off or is not well
\* formed, or is unreadable, without XML or with several files of it.
Snapshot == [jobs : Seq(Entry), archive : {"sound", "malformed", "unusable"}]

IntakeAssumption ==
  /\ Snapshots \subseteq Snapshot
  /\ MaxAmount \in Nat
  /\ {MaxAttempts, MaxDownload, MaxExtracted} \subseteq Nat \ {0}

Nothing == [jobs |-> << >>, archive |-> "unusable"]
Size(s) == Len(s.jobs) + 1

\* A row of job_staging.
Staged == [reference : References, low : Amounts \cup {None}, high : Amounts \cup {None}]

Run == [status : {"none", "processing", "completed", "failed"},
        received : Nat, staged : Nat, rejected : Nat, rows : Seq(Staged)]

Task == [pc : {"idle", "configure", "request", "backoff", "extract", "parse", "refused",
               "unstaged", "failed", "staged", "mark", "done", "killed"},
         attempt : 1 .. MaxAttempts,
         body : Snapshot,           \* what the last response was of
         zip : 0 .. MaxDownload,    \* how much of it is in feed.zip
         read : Nat,                \* elements the parser has passed
         received : Nat, rejected : Nat,
         staged : Seq(Staged),      \* the session's new rows
         transient : BOOLEAN,       \* the error at hand is a TransientImportError
         cut : BOOLEAN]             \* history: the last response was cut off

Idle == [pc |-> "idle", attempt |-> 1, body |-> Nothing, zip |-> 0, read |-> 0,
         received |-> 0, rejected |-> 0, staged |-> << >>,
         transient |-> FALSE, cut |-> FALSE]

Init ==
  /\ run = [r \in Runs |-> [status |-> "none", received |-> 0, staged |-> 0,
                            rejected |-> 0, rows |-> << >>]]
  /\ task = [r \in Runs |-> Idle]
  /\ files = {}

At(r, pc) == task[r].pc = pc
Goto(r, pc) == task' = [task EXCEPT ![r].pc = pc]
Fail(r, pc, transient) ==
  task' = [task EXCEPT ![r].pc = pc, ![r].transient = transient]

-----------------------------------------------------------------------------
(***************************************************************************)
(* The record schema.                                                      *)
(***************************************************************************)

\* apply_field_fallbacks: an unusable amount is dropped, not the record.
Usable(amount) == IF amount \in Amounts THEN amount ELSE None

\* Mutant: an inverted range is left as it is.
NormaliseEachAmount(e) ==
  [reference |-> e.reference, low |-> Usable(e.low), high |-> Usable(e.high)]

\* The model of an accepted element; salary_range_is_valid drops both bounds.
Normalise(e) ==
  LET low == Usable(e.low)
      high == Usable(e.high)
      inverted == None \notin {low, high} /\ low > high
  IN [reference |-> e.reference,
      low |-> IF inverted THEN None ELSE low,
      high |-> IF inverted THEN None ELSE high]

\* The constraints of job_staging.
RangeFits(row) == None \in {row.low, row.high} \/ row.low <= row.high
Repeats(rows) ==
  \E i, k \in DOMAIN rows : i # k /\ rows[i].reference = rows[k].reference

-----------------------------------------------------------------------------
(***************************************************************************)
(* Starting a run and downloading its feed.                                *)
(***************************************************************************)

\* start_run; a failure of it leaves no row (see ImportScheduling).
StartRun(r) ==
  /\ At(r, "idle")
  /\ run' = [run EXCEPT ![r].status = "processing"]
  /\ Goto(r, "configure")
  /\ UNCHANGED files

\* The provider's settings are read before the directory is made.
Download(r) ==
  /\ At(r, "configure")
  /\ Goto(r, "request")
  /\ files' = files \cup {r}
  /\ UNCHANGED run

Misconfigured(r) ==
  /\ At(r, "configure")
  /\ Fail(r, "mark", FALSE)
  /\ UNCHANGED <<run, files>>

\* Mutant: one more request than retry_max_attempts.
TryAgainOnceMore(r, t) ==
  task' = [task EXCEPT ![r] =
    IF t.attempt > MaxAttempts THEN [t EXCEPT !.pc = "failed", !.transient = TRUE]
    ELSE [t EXCEPT !.pc = "backoff"]]

\* A TransientImportError of a request, which has left the task as in t.
TryAgain(r, t) ==
  task' = [task EXCEPT ![r] =
    IF t.attempt >= MaxAttempts THEN [t EXCEPT !.pc = "failed", !.transient = TRUE]
    ELSE [t EXCEPT !.pc = "backoff"]]

\* No host, no connection, a status other than success, a timeout.
Unreachable(r) ==
  /\ At(r, "request")
  /\ TryAgain(r, [task[r] EXCEPT !.cut = FALSE])
  /\ UNCHANGED <<run, files>>

\* An address, or that of a redirect, that is not public; no HTTP at all.
RefuseAddress(r) ==
  /\ At(r, "request")
  /\ task' = [task EXCEPT ![r].pc = "failed", ![r].cut = FALSE]
  /\ UNCHANGED <<run, files>>

Backoff(r) ==
  /\ At(r, "backoff")
  /\ task' = [task EXCEPT ![r].pc = "request", ![r].attempt = @ + 1]
  /\ UNCHANGED <<run, files>>

\* The response's body, n units of it; feed.zip is written anew.
Received(r, s, n) == [task[r] EXCEPT !.body = s, !.zip = n, !.cut = n < Size(s)]

\* read() is at its end: of the body, or of a connection that was closed before
\* the declared length, which http.client does not tell apart.
Receive(r, s, n) ==
  /\ At(r, "request")
  /\ n <= Size(s) /\ n <= MaxDownload
  /\ task' = [task EXCEPT ![r] = [Received(r, s, n) EXCEPT !.pc = "extract"]]
  /\ UNCHANGED <<run, files>>

\* A reset or a timeout while the body is read, or a local write error.
Interrupt(r, s, n) ==
  /\ At(r, "request")
  /\ n < Size(s) /\ n <= MaxDownload
  /\ TryAgain(r, Received(r, s, n))
  /\ UNCHANGED <<run, files>>

\* A chunked body that ends early: IncompleteRead is none of the errors that
\* _download_zip converts.
BreakOff(r, s, n) ==
  /\ At(r, "request")
  /\ n < Size(s) /\ n <= MaxDownload
  /\ task' = [task EXCEPT ![r] = [Received(r, s, n) EXCEPT !.pc = "failed"]]
  /\ UNCHANGED <<run, files>>

\* Too large by its Content-Length, before anything is written, or by count.
TooLarge(r, s, n) ==
  /\ At(r, "request")
  /\ Size(s) > MaxDownload /\ n \in {0, MaxDownload}
  /\ task' = [task EXCEPT ![r] = [Received(r, s, n) EXCEPT !.pc = "failed", !.cut = FALSE]]
  /\ UNCHANGED <<run, files>>

Extractable(r) ==
  LET t == task[r] IN
  /\ t.zip = Size(t.body)
  /\ t.body.archive # "unusable"
  /\ Size(t.body) <= MaxExtracted

\* _extract_xml; an archive that is cut off has lost its directory.
Extract(r) ==
  /\ At(r, "extract") /\ Extractable(r)
  /\ Goto(r, "parse")
  /\ UNCHANGED <<run, files>>

\* Mutant: only failed downloads clean up.
RejectArchiveAsItIs(r) ==
  /\ At(r, "extract") /\ ~Extractable(r)
  /\ Fail(r, "mark", FALSE)
  /\ UNCHANGED <<run, files>>

RejectArchive(r) ==
  /\ At(r, "extract") /\ ~Extractable(r)
  /\ Fail(r, "failed", FALSE)
  /\ UNCHANGED <<run, files>>

-----------------------------------------------------------------------------
(***************************************************************************)
(* ImportService.run.                                                      *)
(***************************************************************************)

NextEntry(r) == task[r].body.jobs[task[r].read + 1]
MoreEntries(r) == At(r, "parse") /\ task[r].read < Len(task[r].body.jobs)

StageJob(r) ==
  /\ MoreEntries(r)
  /\ NextEntry(r).essential
  /\ task' = [task EXCEPT ![r].read = @ + 1, ![r].received = @ + 1,
                          ![r].staged = Append(@, Normalise(NextEntry(r)))]
  /\ UNCHANGED <<run, files>>

\* Mutant: a rejected element is not received.
RejectJobUncounted(r) ==
  /\ MoreEntries(r)
  /\ ~NextEntry(r).essential
  /\ task' = [task EXCEPT ![r].read = @ + 1, ![r].rejected = @ + 1]
  /\ UNCHANGED <<run, files>>

\* handle_validation_error.
RejectJob(r) ==
  /\ MoreEntries(r)
  /\ ~NextEntry(r).essential
  /\ task' = [task EXCEPT ![r].read = @ + 1, ![r].received = @ + 1, ![r].rejected = @ + 1]
  /\ UNCHANGED <<run, files>>

\* Mutant: recover=True.
EndOfFeedRecovered(r) ==
  At(r, "parse") /\ task[r].read = Len(task[r].body.jobs)

EndOfFeed(r) ==
  /\ At(r, "parse") /\ task[r].read = Len(task[r].body.jobs)
  /\ task[r].body.archive = "sound"

\* XMLSyntaxError, at the place where the document breaks off.
SyntaxError(r) ==
  /\ At(r, "parse") /\ task[r].read = Len(task[r].body.jobs)
  /\ task[r].body.archive = "malformed"
  /\ Fail(r, "unstaged", FALSE)
  /\ UNCHANGED <<run, files>>

Completed(r) ==
  [status |-> "completed", received |-> task[r].received, staged |-> Len(task[r].staged),
   rejected |-> task[r].rejected, rows |-> task[r].staged]

Flushes(r) ==
  /\ ~Repeats(task[r].staged)
  /\ \A i \in DOMAIN task[r].staged : RangeFits(task[r].staged[i])

\* finish_import and the one commit.
Commit(r) ==
  /\ EndOfFeed(r) /\ Flushes(r)
  /\ run' = [run EXCEPT ![r] = Completed(r)]
  /\ Goto(r, "staged")
  /\ UNCHANGED files

\* Its confirmation is lost: an OperationalError.
CommitUnconfirmed(r) ==
  /\ EndOfFeed(r) /\ Flushes(r)
  /\ run' = [run EXCEPT ![r] = Completed(r)]
  /\ Fail(r, "unstaged", TRUE)
  /\ UNCHANGED files

\* IntegrityError.
RefuseFlush(r) ==
  /\ EndOfFeed(r) /\ ~Flushes(r)
  /\ Fail(r, "refused", FALSE)
  /\ UNCHANGED <<run, files>>

\* An OperationalError of any statement: nothing is committed.
DatabaseFails(r) ==
  /\ At(r, "parse")
  /\ Fail(r, "unstaged", TRUE)
  /\ UNCHANGED <<run, files>>

-----------------------------------------------------------------------------
(***************************************************************************)
(* The end of a task.                                                      *)
(***************************************************************************)

\* mark_failed keeps the row's counts; it may itself fail, and says nothing.
Marked(r) == run' = [run EXCEPT ![r].status = "failed"] \/ UNCHANGED run

\* First by ImportService.run, with the feed's files still there ...
MarkStaging(r) ==
  /\ At(r, "refused") \/ At(r, "unstaged")
  /\ Marked(r)
  /\ Goto(r, "failed")
  /\ UNCHANGED files

\* ... which the end of the download or of its context removes ...
RemoveFiles(r) ==
  /\ At(r, "failed") \/ At(r, "staged")
  /\ files' = files \ {r}
  /\ Goto(r, IF At(r, "failed") THEN "mark" ELSE "done")
  /\ UNCHANGED run

\* ... and then by the orchestration.
MarkFailed(r) ==
  /\ At(r, "mark")
  /\ Marked(r)
  /\ Goto(r, "done")
  /\ UNCHANGED files

Kill(r) ==
  /\ task[r].pc \notin {"idle", "done", "killed"}
  /\ Goto(r, "killed")
  /\ UNCHANGED <<run, files>>

-----------------------------------------------------------------------------
Ask(r) ==
  \/ Unreachable(r) \/ RefuseAddress(r) \/ Backoff(r)
  \/ \E s \in Snapshots, n \in 0 .. MaxDownload :
       Receive(r, s, n) \/ Interrupt(r, s, n) \/ BreakOff(r, s, n) \/ TooLarge(r, s, n)

Import(r) ==
  \/ StartRun(r) \/ Download(r) \/ Misconfigured(r)
  \/ Ask(r) \/ Extract(r) \/ RejectArchive(r)
  \/ StageJob(r) \/ RejectJob(r) \/ SyntaxError(r)
  \/ Commit(r) \/ CommitUnconfirmed(r) \/ RefuseFlush(r) \/ DatabaseFails(r)
  \/ MarkStaging(r) \/ RemoveFiles(r) \/ MarkFailed(r) \/ Kill(r)

Next == \E r \in Runs : Import(r)

Spec == Init /\ [][Next]_vars

-----------------------------------------------------------------------------
(***************************************************************************)
(* Properties.                                                             *)
(***************************************************************************)

\* Types; no more requests and no larger files than the provider allows.
TypeOK ==
  /\ run \in [Runs -> Run]
  /\ task \in [Runs -> Task]
  /\ files \subseteq Runs

\* The elements that pass the schema, among the first n of a snapshot.
Essential(s, n) == {i \in 1 .. n : s.jobs[i].essential}

\* The rows are the records of a snapshot's first n elements, in their order.
AreRecords(rows, s, n) ==
  /\ Len(rows) = Cardinality(Essential(s, n))
  /\ \A i \in Essential(s, n) : rows[Cardinality(Essential(s, i))] = Normalise(s.jobs[i])

HasStaged(r) == run[r].status = "completed" \/ run[r].rows # << >>

\* What is staged for a run is one snapshot, whole and well formed: nothing of a
\* body that was cut off, of an earlier response or of a document that breaks
\* off, whatever fails (the promotion that follows takes what is not staged for
\* gone).
StagedIsOneSnapshot ==
  \A r \in Runs : HasStaged(r) =>
    /\ task[r].body.archive = "sound"
    /\ task[r].zip = Size(task[r].body)
    /\ AreRecords(run[r].rows, task[r].body, Len(task[r].body.jobs))

\* The counts of a run, on which the promotion's check for anomalies relies, are
\* those of its whole feed.
CountsAddUp ==
  \A r \in Runs :
    /\ run[r].received = run[r].staged + run[r].rejected
    /\ run[r].staged = Len(run[r].rows)
    /\ HasStaged(r) \/ run[r].received > 0 => run[r].received = Len(task[r].body.jobs)

\* A record that passes the schema does not make the whole feed fail, unless it
\* repeats a SenderReference.
OnlyRepeatsRefused ==
  \A r \in Runs : At(r, "refused") => Repeats(task[r].staged)

\* Nothing but the end of its process keeps a task from removing its files,
\* which are as large as the provider's feed.
NoFilesLeft ==
  \A r \in files : task[r].pc \notin {"idle", "configure", "mark", "done"}

\* Wherever a task breaks off, its counts are those of what it has read and
\* staged, and none of its files is left.
TasksEndClean == CountsAddUp /\ NoFilesLeft

\* "A retryable import failure, such as a network or database outage"
\* (exceptions.py:5): a download the network has cut off can be retried.
CutOffIsTransient ==
  \A r \in Runs : At(r, "done") /\ task[r].cut => task[r].transient
=============================================================================
