------------------------------- MODULE Sitemaps -------------------------------
(***************************************************************************)
(* The sitemap files of app/services/sitemap_service.py: generator tasks   *)
(* that read the active jobs page by page and then publish their chunks,   *)
(* file by file, into a directory the API serves (and other generators     *)
(* write to), while imports add and remove jobs.                           *)
(*                                                                         *)
(* One action is one SELECT, one os.replace, one listing of the directory  *)
(* or one unlink.  A chunk file is the set of jobs it lists, the empty set *)
(* when there is no file: the code never writes an empty chunk.  The       *)
(* private build directory of a task is its `pages`.                       *)
(***************************************************************************)
EXTENDS Integers, FiniteSets

CONSTANTS
  MaxJobs,          \* bound: ids the sequence of jobs hands out
  ChunkSize,        \* SITEMAP_CHUNK_SIZE
  Generators,       \* worker processes that may run the task
  OverlapJobs,      \* bound: ids handed out while two tasks overlap
  MaxFaults         \* bound: tasks that fail or die

ASSUME SitemapAssumption ==
  /\ MaxJobs \in Nat
  /\ ChunkSize \in Nat \ {0}
  /\ OverlapJobs \in Nat
  /\ MaxFaults \in Nat

VARIABLES
  job,              \* each row of jobs, by its id
  disk,             \* the chunk files sitemap-<c>.xml.gz
  index,            \* sitemap.xml
  gen,              \* each task
  faults,           \* tasks that have failed or died
  settled           \* history: the index is from an undisturbed build, and
                    \* nothing has disturbed what it names since

vars == <<job, disk, index, gen, faults, settled>>

Jobs == 1 .. MaxJobs
\* A chunk lists at least one job, so there are no more chunks than jobs.
Chunks == Jobs

Index == [chunks : 0 .. MaxJobs,
          since : SUBSET Jobs]      \* history: active when its build began

Task ==
  [pc : {"idle", "read", "replace", "list", "unlink"},
   pages : [Chunks -> SUBSET Jobs], \* the build directory
   count : 0 .. MaxJobs,            \* len(chunk_filenames)
   after : 0 .. MaxJobs,            \* after_id
   placed : 0 .. MaxJobs,           \* chunks moved to the output directory
   stale : SUBSET Chunks,           \* paths left of the glob
   since : SUBSET Jobs,             \* history: active when it began
   clean : BOOLEAN]                 \* history: undisturbed since it began

NoFiles == [c \in Chunks |-> {}]
Rest == [pc |-> "idle", pages |-> NoFiles, count |-> 0, after |-> 0,
         placed |-> 0, stale |-> {}, since |-> {}, clean |-> FALSE]

Working == {g \in Generators : gen[g].pc # "idle"}
Active == {j \in Jobs : job[j] = "active"}

\* What a crawler can reach through the index.
Listed == UNION {disk[c] : c \in 1 .. index.chunks}

-----------------------------------------------------------------------------
Init ==
  /\ job = [j \in Jobs |-> "unborn"]
  /\ disk = NoFiles
  /\ index = [chunks |-> 0, since |-> {}]
  /\ gen = [g \in Generators |-> Rest]
  /\ faults = 0
  /\ settled = TRUE

(***************************************************************************)
(* The catalogue: an INSERT takes the next id of the sequence when it is   *)
(* flushed, and its row becomes visible when its batch commits.            *)
(***************************************************************************)

\* PromotionRepository.create_job.
Insert(j) ==
  /\ job[j] = "unborn"
  /\ \A k \in Jobs : k < j => job[k] # "unborn"
  /\ Cardinality(Working) > 1 => j <= OverlapJobs
  /\ job' = [job EXCEPT ![j] = "open"]
  /\ UNCHANGED <<disk, index, gen, faults, settled>>

\* Two promotions may commit in the other order of their ids.  A row that
\* appears below one already visible disturbs every build under way.
OutOfOrder(j) == \E k \in Active : j < k

Disturb(g) == [gen[g] EXCEPT !.clean = FALSE]

CommitInsert(j) ==
  /\ job[j] = "open"
  /\ job' = [job EXCEPT ![j] = "active"]
  /\ gen' = IF OutOfOrder(j) THEN [g \in Generators |-> Disturb(g)] ELSE gen
  /\ settled' = (settled /\ ~OutOfOrder(j))
  /\ UNCHANGED <<disk, index, faults>>

\* A rolled back insert, a sweep, a hard delete.  No code makes a row active
\* again.
Retire(j) ==
  /\ job[j] \in {"open", "active"}
  /\ job' = [job EXCEPT ![j] = "gone"]
  /\ UNCHANGED <<disk, index, gen, faults, settled>>

-----------------------------------------------------------------------------
(***************************************************************************)
(* SitemapService.generate_sitemaps.                                       *)
(***************************************************************************)

\* Nothing keeps two tasks apart.
Start(g) ==
  LET alone == Working = {} IN
  /\ gen[g].pc = "idle"
  /\ ~alone => \A j \in Jobs : OverlapJobs < j => job[j] = "unborn"
  /\ gen' = [h \in Generators |->
       IF h = g THEN [Rest EXCEPT !.pc = "read", !.since = Active, !.clean = alone]
                ELSE Disturb(h)]
  /\ settled' = (settled /\ alone)
  /\ UNCHANGED <<job, disk, index, faults>>

\* Mutant: the page is taken from the wrong end of the order.
PageFromEnd(after) ==
  LET due == {j \in Active : after < j} IN
  {j \in due : Cardinality({k \in due : j <= k}) <= ChunkSize}

\* list_active_jobs_after: one keyset page, as of this SELECT.
Page(after) ==
  LET due == {j \in Active : after < j} IN
  {j \in due : Cardinality({k \in due : k <= j}) <= ChunkSize}

Last(page) == CHOOSE j \in page : \A k \in page : k <= j

ReadPage(g) ==
  LET page == Page(gen[g].after)
      n == gen[g].count + 1
  IN
  /\ gen[g].pc = "read"
  /\ page # {}
  /\ gen' = [gen EXCEPT ![g].pages[n] = page,
                        ![g].count = n,
                        ![g].after = Last(page)]
  /\ UNCHANGED <<job, disk, index, faults, settled>>

\* The last SELECT finds no row; the index is written to the build directory.
EndRead(g) ==
  /\ gen[g].pc = "read"
  /\ Page(gen[g].after) = {}
  /\ gen' = [gen EXCEPT ![g].pc = "replace"]
  /\ UNCHANGED <<job, disk, index, faults, settled>>

\* Mutant: chunks are moved last first.
ReplaceChunkLastFirst(g) ==
  LET c == gen[g].count - gen[g].placed IN
  /\ gen[g].pc = "replace"
  /\ gen[g].placed < gen[g].count
  /\ disk' = [disk EXCEPT ![c] = gen[g].pages[c]]
  /\ gen' = [gen EXCEPT ![g].placed = @ + 1]
  /\ UNCHANGED <<job, index, faults, settled>>

\* Mutant: one chunk too many is moved.
ReplaceChunkTooMany(g) ==
  LET c == gen[g].placed + 1 IN
  /\ gen[g].pc = "replace"
  /\ gen[g].placed <= gen[g].count
  /\ c \in Chunks
  /\ disk' = [disk EXCEPT ![c] = gen[g].pages[c]]
  /\ gen' = [gen EXCEPT ![g].placed = c]
  /\ UNCHANGED <<job, index, faults, settled>>

ReplaceChunk(g) ==
  LET c == gen[g].placed + 1 IN
  /\ gen[g].pc = "replace"
  /\ gen[g].placed < gen[g].count
  /\ disk' = [disk EXCEPT ![c] = gen[g].pages[c]]
  /\ gen' = [gen EXCEPT ![g].placed = c]
  /\ UNCHANGED <<job, index, faults, settled>>

\* Mutant: the index does not wait for the chunks.
ReplaceIndexEarly(g) ==
  /\ gen[g].pc = "replace"
  /\ index' = [chunks |-> gen[g].count, since |-> gen[g].since]
  /\ gen' = [gen EXCEPT ![g].pc = "list"]
  /\ settled' = (settled \/ gen[g].clean)
  /\ UNCHANGED <<job, disk, faults>>

\* The index last, when every chunk it names is in place.
ReplaceIndex(g) ==
  /\ gen[g].pc = "replace"
  /\ gen[g].placed = gen[g].count
  /\ index' = [chunks |-> gen[g].count, since |-> gen[g].since]
  /\ gen' = [gen EXCEPT ![g].pc = "list"]
  /\ settled' = (settled \/ gen[g].clean)
  /\ UNCHANGED <<job, disk, faults>>

\* Mutant: the first stale chunk is taken for a current one.
ListStaleButFirst(g) ==
  /\ gen[g].pc = "list"
  /\ gen' = [gen EXCEPT ![g].pc = "unlink",
                        ![g].stale = {c \in Chunks : disk[c] # {} /\ gen[g].count + 1 < c}]
  /\ UNCHANGED <<job, disk, index, faults, settled>>

\* output_dir.glob reads the directory once.
ListStale(g) ==
  /\ gen[g].pc = "list"
  /\ gen' = [gen EXCEPT ![g].pc = "unlink",
                        ![g].stale = {c \in Chunks : disk[c] # {} /\ gen[g].count < c}]
  /\ UNCHANGED <<job, disk, index, faults, settled>>

\* unlink raises when another task has removed the file, which ends this one.
Unlink(g, c) ==
  /\ gen[g].pc = "unlink"
  /\ c \in gen[g].stale
  /\ gen' = [gen EXCEPT ![g] =
       IF disk[c] = {} THEN Rest ELSE [gen[g] EXCEPT !.stale = @ \ {c}]]
  /\ disk' = [disk EXCEPT ![c] = {}]
  /\ UNCHANGED <<job, index, faults, settled>>

Done(g) ==
  /\ gen[g].pc = "unlink"
  /\ gen[g].stale = {}
  /\ gen' = [gen EXCEPT ![g] = Rest]
  /\ UNCHANGED <<job, disk, index, faults, settled>>

\* An exception or the death of the worker: what is published stays, what is
\* in the build directory is gone.
Abandon(g) ==
  /\ g \in Working
  /\ faults < MaxFaults
  /\ faults' = faults + 1
  /\ gen' = [gen EXCEPT ![g] = Rest]
  /\ UNCHANGED <<job, disk, index, settled>>

-----------------------------------------------------------------------------
Catalogue == \E j \in Jobs : Insert(j) \/ CommitInsert(j) \/ Retire(j)

Generate(g) ==
  \/ ReadPage(g) \/ EndRead(g)
  \/ ReplaceChunk(g) \/ ReplaceIndex(g)
  \/ ListStale(g) \/ (\E c \in Chunks : Unlink(g, c)) \/ Done(g)

Next ==
  \/ Catalogue
  \/ \E g \in Generators : Start(g) \/ Generate(g) \/ Abandon(g)

Spec == Init /\ [][Next]_vars

(***************************************************************************)
(* Beat publishes the task again and again (app/celery_app.py), and a task *)
(* that neither fails nor dies goes on.  Of the catalogue nothing is asked.*)
(***************************************************************************)
FairSpec ==
  /\ Spec
  /\ WF_vars(\E g \in Generators : Start(g))
  /\ \A g \in Generators : WF_vars(Generate(g))

-----------------------------------------------------------------------------
(***************************************************************************)
(* Properties.                                                             *)
(***************************************************************************)

\* Types; only the pages of a task are files of its build directory, and what
\* it has moved is what it has read.
TypeOK ==
  /\ job \in [Jobs -> {"unborn", "open", "active", "gone"}]
  /\ disk \in [Chunks -> SUBSET Jobs]
  /\ index \in Index
  /\ gen \in [Generators -> Task]
  /\ faults \in 0 .. MaxFaults
  /\ settled \in BOOLEAN
  /\ \A g \in Generators :
       /\ gen[g].placed <= gen[g].count
       /\ \A c \in Chunks : gen[g].pages[c] # {} <=> c <= gen[g].count

\* A finished build lists every job that was active from its beginning to the
\* present, and none twice, although each page is a SELECT of its own and the
\* catalogue changes between them (SitemapRepository.list_active_jobs_after).
BuildsComplete ==
  \A g \in Generators :
    /\ gen[g].pc \in {"replace", "list", "unlink"} =>
         gen[g].since \cap Active \subseteq UNION {gen[g].pages[c] : c \in Chunks}
    /\ \A c, d \in Chunks : c < d => \A j \in gen[g].pages[c], k \in gen[g].pages[d] : j < k

\* A crawler that follows the index finds every file it names: chunks go before
\* the index, stale ones after it, and a task that dies in between leaves no
\* index without its chunks.  Two tasks at once may.
IndexNamesFiles ==
  settled => \A c \in 1 .. index.chunks : disk[c] # {}

\* A job that was active when the build of the published index began and still
\* is remains reachable at every moment, also while the chunks of a newer
\* build replace those of an older one and after a task has died half way: ids
\* only ever move to earlier chunks.
ActiveJobsStayListed ==
  settled => index.since \cap Active \subseteq Listed

\* When the catalogue comes to rest, so does the sitemap: it lists the active
\* jobs and no others, and no file is left that the index does not name,
\* whatever overlapping and failed tasks have done to each other.
SitemapMirrorsCatalogue ==
  /\ Listed = Active
  /\ \A c \in Chunks : index.chunks < c => disk[c] = {}

SitemapCatchesUp == <>[]SitemapMirrorsCatalogue
=============================================================================
