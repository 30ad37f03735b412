--------------------------- MODULE AffiliateLinks ---------------------------
(***************************************************************************)
(* The affiliate links of jobs: administrators who look jobs up and have   *)
(* links made for those they confirm (app/services/affiliate_service.py),  *)
(* the script that fills the gaps (scripts/backfill_affiliate_links.py)    *)
(* and the public redirect, beside imports that deactivate jobs and the    *)
(* cleanup that removes them.                                              *)
(*                                                                         *)
(* Both writers run one statement, INSERT ... ON CONFLICT (job_id) DO      *)
(* NOTHING, under READ COMMITTED.  A step of it is one row: it waits for   *)
(* the uncommitted row of the same job, so that two writers can wait for   *)
(* each other.  The foreign key is checked when the statement ends and     *)
(* locks the jobs until the commit.                                        *)
(***************************************************************************)
EXTENDS Integers, Relation, SequencesExt

CONSTANTS
  Jobs,             \* ids of jobs
  Providers,        \* ids of providers
  OwnerOf,          \* jobs.provider_id
  Hashes,           \* what secrets.token_urlsafe may return
  Admins,           \* requests of administrators at a time
  Script,           \* the backfill script
  BatchSize,        \* BATCH_SIZE of the script
  SliceSize,        \* AFFILIATE_LINK_BATCH_SIZE, of one statement of the script
  MaxHashAttempts   \* MAX_SHORT_HASH_ATTEMPTS

LinksAssumption ==
  /\ IsFiniteSet(Jobs)
  /\ Providers \subseteq Nat /\ Providers # {}
  /\ OwnerOf \in [Jobs -> Providers]
  /\ Script \notin Admins
  /\ BatchSize \in Nat \ {0}
  /\ SliceSize \in Nat \ {0}
  /\ MaxHashAttempts \in Nat \ {0}

VARIABLES
  job,              \* each row of jobs: active, inactive or gone
  link,             \* committed rows of affiliate_links
  writer,           \* each request, and the script
  listed,           \* providers the script has not started on
  gap               \* history: jobs that have lacked a link since it started

vars == <<job, link, writer, listed, gap>>

Writers == Admins \cup {Script}
Link == Jobs \X Hashes
Lists == UNION {SetToSeqs(S) : S \in SUBSET Jobs}

Writer ==
  [pc : {"idle", "reviewed", "insert", "inserted", "selected", "done"},
   provider : Providers,
   asked : SUBSET Jobs,           \* matched by the lookup, then confirmed
   slice : Lists, todo : Lists, rest : Lists,   \* of the statement, of it to do, beyond it
   attempt : 1 .. MaxHashAttempts,
   own : SUBSET Link,             \* inserted and not committed
   generated : SUBSET Link, excluded : SUBSET Jobs,
   outcome : {"none", "answered", "error"}]

SomeProvider == CHOOSE p \in Providers : TRUE
Idle == [pc |-> "idle", provider |-> SomeProvider, asked |-> {}, slice |-> <<>>, todo |-> <<>>,
         rest |-> <<>>, attempt |-> 1, own |-> {}, generated |-> {}, excluded |-> {}, outcome |-> "none"]

Init ==
  /\ job = [j \in Jobs |-> "active"]
  /\ link = {}
  /\ writer = [w \in Writers |-> Idle]
  /\ listed = {}
  /\ gap = {}

LinksOf(rows, j) == {l \in rows : l[1] = j}
LinkedJobs == {l[1] : l \in link}
UsedHashes(rows) == {l[2] : l \in rows}

\* Mutant: the script ends as if it had been through.
FailUnseen(w) ==
  writer' = [writer EXCEPT ![w].pc = "done", ![w].own = {},
                           ![w].outcome = IF w = Script THEN "answered" ELSE "error"]

Fail(w) == writer' = [writer EXCEPT ![w].pc = "done", ![w].own = {}, ![w].outcome = "error"]

-----------------------------------------------------------------------------
(***************************************************************************)
(* The statement, as both writers run it.                                  *)
(***************************************************************************)

Inserting(w) == writer[w].pc = "insert" /\ writer[w].todo # <<>>

\* w's next row waits for the row another has inserted for the same job.
WaitsFor(w, other) ==
  /\ w # other
  /\ Inserting(w)
  /\ LinksOf(writer[other].own, Head(writer[w].todo)) # {}

Waiting(w) == \E other \in Writers : WaitsFor(w, other)

Advance(w, rows) ==
  writer' = [writer EXCEPT ![w].todo = Tail(@), ![w].own = @ \cup rows]

\* A short hash is taken: undo the statement and draw again, three times in all.
Collide(w) ==
  IF writer[w].attempt = MaxHashAttempts THEN Fail(w)
  ELSE writer' = [writer EXCEPT ![w].attempt = @ + 1, ![w].todo = writer[w].slice,
                                ![w].own = {l \in @ : l[1] \notin ToSet(writer[w].slice)}]

\* A hash another has inserted and not committed may become taken or free: it
\* is drawn when that is settled.
Draw(w) ==
  \E h \in Hashes \ UNION {UsedHashes(writer[o].own) : o \in Writers \ {w}} :
    IF h \in UsedHashes(link \cup writer[w].own) THEN Collide(w)
    ELSE Advance(w, {<<Head(writer[w].todo), h>>})

InsertRow(w) ==
  /\ Inserting(w) /\ ~Waiting(w)
  /\ IF Head(writer[w].todo) \in LinkedJobs THEN Advance(w, {}) ELSE Draw(w)
  /\ UNCHANGED <<job, link, listed, gap>>

\* The first statement for the jobs `list`, n of them at a time.
Begin(wr, list, n) ==
  LET first == SubSeq(list, 1, IF n < Len(list) THEN n ELSE Len(list))
  IN  [wr EXCEPT !.pc = "insert", !.attempt = 1, !.slice = first, !.todo = first,
                 !.rest = SubSeq(list, n + 1, Len(list))]

\* The foreign key: a job removed in the meantime fails the statement.
EndInsert(w) ==
  /\ writer[w].pc = "insert" /\ writer[w].todo = <<>>
  /\ IF \E l \in writer[w].own : job[l[1]] = "gone" THEN Fail(w)
     ELSE writer' = [writer EXCEPT ![w] =
            IF @.rest = <<>> THEN [@ EXCEPT !.pc = "inserted"] ELSE Begin(@, @.rest, SliceSize)]
  /\ UNCHANGED <<job, link, listed, gap>>

\* PostgreSQL picks a victim among writers that wait for each other.
Deadlock(w) ==
  /\ LET waits == [p \in Writers \X Writers |-> WaitsFor(p[1], p[2])]
     IN  TransitiveClosure(waits, Writers)[<<w, w>>]
  /\ Fail(w)
  /\ UNCHANGED <<job, link, listed, gap>>

\* The connection is lost: what was not committed is rolled back.
Cut(w) ==
  /\ writer[w].pc \in {"insert", "inserted", "selected"}
  /\ Fail(w)
  /\ UNCHANGED <<job, link, listed, gap>>

Publish(w) ==
  /\ link' = link \cup writer[w].own
  /\ gap' = gap \ {l[1] : l \in writer[w].own}

-----------------------------------------------------------------------------
(***************************************************************************)
(* An administrator: lookup_jobs, then revalidate_and_generate.            *)
(***************************************************************************)

OfProvider(p, jobs) == {j \in jobs : OwnerOf[j] = p /\ job[j] # "gone"}

\* The references the provider has no row for are answered as not found.
Lookup(a, p, references) ==
  /\ writer[a].pc = "idle"
  /\ writer' = [writer EXCEPT ![a] =
       [Idle EXCEPT !.pc = "reviewed", !.provider = p, !.asked = OfProvider(p, references)]]
  /\ UNCHANGED <<job, link, listed, gap>>

\* The confirmed jobs, in the order they are named and looked up again, after a
\* lookup or without one; when none is the provider's there is nothing to insert.
Generate(a, p, confirmed) ==
  /\ writer[a].pc \in {"idle", "reviewed"}
  /\ LET valid == OfProvider(p, confirmed)
         request == [Idle EXCEPT !.provider = p, !.asked = confirmed, !.excluded = confirmed \ valid]
     IN  IF valid = {}
         THEN writer' = [writer EXCEPT ![a] = [request EXCEPT !.pc = "done", !.outcome = "answered"]]
         ELSE \E list \in SetToSeqs(valid) :
                writer' = [writer EXCEPT ![a] = Begin(request, list, Len(list))]
  /\ UNCHANGED <<job, link, listed, gap>>

\* Mutant: the rows the INSERT returns.
SelectInserted(a) ==
  /\ writer[a].pc = "inserted"
  /\ writer' = [writer EXCEPT ![a].pc = "selected", ![a].generated = writer[a].own]
  /\ UNCHANGED <<job, link, listed, gap>>

\* The rows of the requested jobs, whoever inserted them.
SelectLinks(a) ==
  /\ writer[a].pc = "inserted"
  /\ writer' = [writer EXCEPT
       ![a].pc = "selected",
       ![a].generated = {l \in link \cup writer[a].own : l[1] \in ToSet(writer[a].slice)}]
  /\ UNCHANGED <<job, link, listed, gap>>

Answer(a) ==
  /\ writer[a].pc = "selected"
  /\ Publish(a)
  /\ writer' = [writer EXCEPT ![a].pc = "done", ![a].own = {}, ![a].outcome = "answered"]
  /\ UNCHANGED <<job, listed>>

NextRequest(a) ==
  /\ writer[a].pc = "done"
  /\ writer' = [writer EXCEPT ![a] = Idle]
  /\ UNCHANGED <<job, link, listed, gap>>

-----------------------------------------------------------------------------
(***************************************************************************)
(* scripts/backfill_affiliate_links.py.                                    *)
(***************************************************************************)

Missing(p) == {j \in Jobs : OwnerOf[j] = p /\ job[j] = "active" /\ j \notin LinkedJobs}

\* list_active_provider_schedules: the providers active just then.
StartBackfill(providers) ==
  /\ writer[Script].pc = "idle"
  /\ writer' = [writer EXCEPT ![Script].pc = "reviewed"]
  /\ listed' = providers
  /\ gap' = UNION {Missing(p) : p \in providers}
  /\ UNCHANGED <<job, link>>

\* A SELECT with LIMIT, in no order.
Batches(p) ==
  LET missing == Missing(p)
      size == IF Cardinality(missing) < BatchSize THEN Cardinality(missing) ELSE BatchSize
  IN  UNION {SetToSeqs(S) : S \in {S \in SUBSET missing : Cardinality(S) = size}}

Insert(p, list) ==
  writer' = [writer EXCEPT ![Script] = Begin([@ EXCEPT !.provider = p], list, SliceSize)]

\* The next batch of the provider, until there is none.
Find ==
  /\ writer[Script].pc = "reviewed" /\ listed # {}
  /\ \E list \in Batches(Min(listed)) :
       IF list = <<>> THEN listed' = listed \ {Min(listed)} /\ UNCHANGED writer
       ELSE Insert(Min(listed), list) /\ UNCHANGED listed
  /\ UNCHANGED <<job, link, gap>>

CommitBatch ==
  /\ writer[Script].pc = "inserted"
  /\ Publish(Script)
  /\ writer' = [writer EXCEPT ![Script].pc = "reviewed", ![Script].own = {}]
  /\ UNCHANGED <<job, listed>>

EndBackfill ==
  /\ writer[Script].pc = "reviewed" /\ listed = {}
  /\ writer' = [writer EXCEPT ![Script].pc = "done", ![Script].outcome = "answered"]
  /\ UNCHANGED <<job, link, listed, gap>>

-----------------------------------------------------------------------------
(***************************************************************************)
(* The jobs: the sweep of an import, and the cleanup, which waits for the  *)
(* locks of the foreign key and takes a job's link along.                  *)
(***************************************************************************)

Deactivate(j) ==
  /\ job[j] = "active"
  /\ job' = [job EXCEPT ![j] = "inactive"]
  /\ gap' = gap \ {j}
  /\ UNCHANGED <<link, writer, listed>>

\* Rows of finished statements hold the lock; the running one's do not yet.
Locked(j) ==
  \E w \in Writers : \E l \in LinksOf(writer[w].own, j) :
    writer[w].pc \in {"inserted", "selected"} \/ j \notin ToSet(writer[w].slice)

HardDelete(j) ==
  /\ job[j] = "inactive" /\ ~Locked(j)
  /\ job' = [job EXCEPT ![j] = "gone"]
  /\ link' = link \ LinksOf(link, j)
  /\ UNCHANGED <<writer, listed, gap>>

-----------------------------------------------------------------------------
AdminStep(a) ==
  \/ \E p \in Providers, jobs \in SUBSET Jobs : Lookup(a, p, jobs) \/ Generate(a, p, jobs)
  \/ SelectLinks(a) \/ Answer(a) \/ NextRequest(a)

Next ==
  \/ \E w \in Writers : InsertRow(w) \/ EndInsert(w) \/ Deadlock(w) \/ Cut(w)
  \/ \E a \in Admins : AdminStep(a)
  \/ \E providers \in SUBSET Providers : StartBackfill(providers)
  \/ Find \/ CommitBatch \/ EndBackfill
  \/ \E j \in Jobs : Deactivate(j) \/ HardDelete(j)

Spec == Init /\ [][Next]_vars

-----------------------------------------------------------------------------
\* redirect_affiliate_link: the job a visitor is sent to, deactivated or not.
NoJob == CHOOSE none : none \notin Jobs
Destination(hash) ==
  IF \E j \in Jobs : <<j, hash>> \in link
  THEN CHOOSE j \in Jobs : <<j, hash>> \in link
  ELSE NoJob

\* Types, and that a job has one link and a short hash one job.
TypeOK ==
  /\ job \in [Jobs -> {"active", "inactive", "gone"}]
  /\ link \subseteq Link
  /\ \A l, m \in link : l[1] = m[1] \/ l[2] = m[2] => l = m
  /\ writer \in [Writers -> Writer]
  /\ listed \subseteq Providers
  /\ gap \subseteq Jobs

\* Every job an administrator confirmed, and that is not told to be excluded or
\* removed since, is answered with a link that leads to it: also when another
\* writer made the link, and whatever was drawn again or rolled back.
ConfirmedJobsHaveLinks ==
  \A a \in Admins : writer[a].outcome = "answered" =>
    \A j \in writer[a].asked \ writer[a].excluded :
      job[j] # "gone" =>
        \E l \in LinksOf(writer[a].generated, j) : Destination(l[2]) = j

\* A backfill that ends well leaves no job of the providers it listed without
\* a link that was active and without one all along, whoever wrote beside it.
BackfillLeavesNoGap == writer[Script].outcome = "answered" => gap = {}
=============================================================================
