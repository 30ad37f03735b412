----------------------------- MODULE RunHistory -----------------------------
(***************************************************************************)
(* The history of imports an administrator pages through by offset         *)
(* (app/api/routers/admin_imports.py, list_import_runs; app/db/            *)
(* import_repositories.py), while import tasks add runs and finish them.   *)
(*                                                                         *)
(* The list is newest first by created_at, the time the inserting          *)
(* transaction began: a run may become visible below one that began later. *)
(* Two runs never have the same created_at here, so that the order, which  *)
(* the query leaves open for equal times, is total.  A page's rows and the *)
(* total are two statements, each with its own snapshot.                   *)
(***************************************************************************)
EXTENDS Integers, FiniteSets

CONSTANTS
  MaxRuns,          \* bound: runs ever created; they are named for created_at
  MaxLimit,         \* MAX_PAGE_SIZE
  NoFilter              \* no filter on the status

HistoryAssumption == MaxRuns \in Nat /\ MaxLimit \in Nat \ {0}

VARIABLES
  status,           \* of each run that is committed
  walk              \* the administrator's walk through the pages

vars == <<status, walk>>

Statuses == {"processing", "completed", "failed"}
AllRuns == 1 .. MaxRuns
Committed == DOMAIN status

Walk ==
  [pc : {"idle", "page", "total", "ended"},
   filter : Statuses \cup {NoFilter}, limit : 1 .. MaxLimit, offset : 0 .. MaxRuns,
   shown : SUBSET AllRuns,
   since : SUBSET AllRuns]        \* history: runs listed when the walk began

Init ==
  /\ status = <<>>
  /\ walk = [pc |-> "idle", filter |-> NoFilter, limit |-> 1, offset |-> 0,
             shown |-> {}, since |-> {}]

-----------------------------------------------------------------------------
\* create_processing_import_run: the row is committed in this status.
Create(r) ==
  /\ r \notin Committed
  /\ status' = [s \in Committed \cup {r} |-> IF s = r THEN "processing" ELSE status[s]]
  /\ UNCHANGED walk

\* finish_import, or mark_failed, which also closes a run that was completed
\* and then not promoted.
Finish(r, outcome) ==
  /\ <<status[r], outcome>> \in {<<"processing", "completed">>, <<"processing", "failed">>,
                               <<"completed", "failed">>}
  /\ status' = [status EXCEPT ![r] = outcome]
  /\ UNCHANGED walk

-----------------------------------------------------------------------------
Matching(filter) == {r \in Committed : filter \in {NoFilter, status[r]}}

\* Mutant: by completed_at, so that the open runs come first.
PlaceOpenFirst(filter, r) ==
  LET open(s) == status[s] = "processing"
  IN  Cardinality({s \in Matching(filter) : IF open(s) = open(r) THEN s >= r ELSE open(s)})

\* Where a run of the list stands in it, the newest first.
Place(filter, r) == Cardinality({s \in Matching(filter) : s >= r})

\* list_import_runs, with its OFFSET and LIMIT.
PageAt(filter, limit, offset) ==
  {r \in Matching(filter) : offset < Place(filter, r) /\ Place(filter, r) <= offset + limit}

Open(filter, limit) ==
  /\ walk.pc = "idle"
  /\ walk' = [walk EXCEPT !.pc = "page", !.filter = filter, !.limit = limit,
                          !.since = Matching(filter)]
  /\ UNCHANGED status

ReadPage ==
  /\ walk.pc = "page"
  /\ walk' = [walk EXCEPT !.pc = "total",
                          !.shown = @ \cup PageAt(walk.filter, walk.limit, walk.offset)]
  /\ UNCHANGED status

\* count_import_runs: the next page begins at offset + limit, if there is one.
ReadTotal ==
  /\ walk.pc = "total"
  /\ LET total == Cardinality(Matching(walk.filter))
     IN  walk' = IF walk.offset + walk.limit < total
                 THEN [walk EXCEPT !.pc = "page", !.offset = @ + walk.limit]
                 ELSE [walk EXCEPT !.pc = "ended"]
  /\ UNCHANGED status

Next ==
  \/ \E r \in AllRuns : Create(r)
  \/ \E r \in Committed, outcome \in {"completed", "failed"} : Finish(r, outcome)
  \/ \E filter \in Statuses \cup {NoFilter}, limit \in 1 .. MaxLimit : Open(filter, limit)
  \/ ReadPage \/ ReadTotal

Spec == Init /\ [][Next]_vars

-----------------------------------------------------------------------------
TypeOK ==
  /\ Committed \subseteq AllRuns
  /\ status \in [Committed -> Statuses]
  /\ walk \in Walk

\* A walk through all the pages shows every run that was listed when it began,
\* though runs are added and closed in the meantime: of all runs, or of those
\* that failed.  It is not so for "processing" and "completed": runs leave these
\* lists, and those below move up across the border of a page.
WalkMissesNoRun ==
  walk.pc = "ended" /\ walk.filter \in {NoFilter, "failed"} => walk.since \subseteq walk.shown
=============================================================================
