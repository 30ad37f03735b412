------------------------------ MODULE PublicJobs ------------------------------
(***************************************************************************)
(* GET /api/v1/jobs (app/api/v1/jobs.py, PublicJobRepository.search): a    *)
(* client pages through the active jobs that match its filters, by a       *)
(* cursor on (last_imported_at, id), while imports insert, move and remove *)
(* rows.                                                                   *)
(*                                                                         *)
(* One action is one request, which is one SELECT, or one row an import    *)
(* writes.  Filters are left out but for their effect: a row matches or    *)
(* not, and an update may change that.  A cursor is what encode_cursor     *)
(* keeps of it: the timestamp to the microsecond, the id and the count.    *)
(***************************************************************************)
EXTENDS Integers, FiniteSets

CONSTANTS
  MaxJobs,          \* bound: ids the sequence of jobs hands out
  MaxTime,          \* bound: the times imports start
  Clients,
  PageSizes,        \* limits a client may ask for
  MaxResults        \* MAX_TRAVERSABLE_RESULTS

ASSUME PagingAssumption ==
  /\ MaxJobs \in Nat /\ MaxTime \in Nat
  /\ PageSizes \subseteq Nat \ {0}
  /\ MaxResults \in Nat \ {0}

VARIABLES
  job,              \* each row of jobs, by its id
  browse            \* each client, on its way through the pages

vars == <<job, browse>>

Jobs == 1 .. MaxJobs
Times == 0 .. MaxTime

Row == [state : {"unborn", "listed", "filtered", "inactive", "gone"},
        stamp : Times]              \* last_imported_at

Position == [stamp : Times, id : Jobs]
Start == [stamp |-> 0, id |-> 0]

Browse ==
  [pc : {"idle", "paging", "done"},
   newest : BOOLEAN,                \* sort=last_imported_at: the newest first
   at : Position \cup {Start},      \* the cursor's position
   served : 0 .. MaxResults,        \* and its served_count
   shown : SUBSET Jobs,             \* history: on some page
   repeated : SUBSET Jobs,          \* history: on more than one
   stayed : SUBSET Jobs,            \* history: listed since the first page
   still : SUBSET Jobs,             \* history: and not written either
   back : SUBSET Jobs]              \* history: moved back so as to mislead it

Away == [pc |-> "idle", newest |-> TRUE, at |-> Start, served |-> 0, shown |-> {},
         repeated |-> {}, stayed |-> {}, still |-> {}, back |-> {}]

Listed == {j \in Jobs : job[j].state = "listed"}

Init ==
  /\ job = [j \in Jobs |-> [state |-> "unborn", stamp |-> 0]]
  /\ browse = [c \in Clients |-> Away]

-----------------------------------------------------------------------------
(***************************************************************************)
(* Imports run side by side, and each writes the time it started, be it    *)
(* earlier than the one the row has: of two imports of one provider that   *)
(* overlap, the older may be the later to reach a row.                     *)
(***************************************************************************)

\* What a write to row j means to the clients.  To move it back matters to one
\* that reads the newest first once it has been shown the row, and to one that
\* reads the oldest first until then.
Disturb(j, gone, earlier) ==
  LET misleads(b) == earlier /\ b.pc = "paging" /\ (b.newest <=> j \in b.shown)
  IN  browse' = [c \in Clients |->
        [browse[c] EXCEPT !.still = @ \ {j},
                          !.stayed = IF gone THEN @ \ {j} ELSE @,
                          !.back = IF misleads(browse[c]) THEN @ \cup {j} ELSE @]]

Insert(j, state, t) ==
  /\ job[j].state = "unborn"
  /\ job' = [job EXCEPT ![j] = [state |-> state, stamp |-> t]]
  /\ UNCHANGED browse

\* Found in a feed again, with the same columns or with others.
Seen(j, state, t) ==
  /\ job[j].state \in {"listed", "filtered"}
  /\ job' = [job EXCEPT ![j] = [state |-> state, stamp |-> t]]
  /\ job' # job
  /\ Disturb(j, state = "filtered", t < job[j].stamp)

\* The sweep; no import makes the row active again.
Sweep(j) ==
  /\ job[j].state \in {"listed", "filtered"}
  /\ job' = [job EXCEPT ![j].state = "inactive"]
  /\ Disturb(j, TRUE, FALSE)

HardDelete(j) ==
  /\ job[j].state = "inactive"
  /\ job' = [job EXCEPT ![j].state = "gone"]
  /\ UNCHANGED browse

-----------------------------------------------------------------------------
(***************************************************************************)
(* search_jobs.                                                            *)
(***************************************************************************)

\* The order of (last_imported_at, id).
Precedes(p, q) == p.stamp < q.stamp \/ (p.stamp = q.stamp /\ p.id < q.id)

At(j) == [stamp |-> job[j].stamp, id |-> j]

\* p comes after q: the id follows the direction of the timestamp.
Beyond(newest, p, q) == IF newest THEN Precedes(p, q) ELSE Precedes(q, p)

\* The first n of a set of rows.
FirstOf(n, rows, newest) ==
  {j \in rows : Cardinality({k \in rows : Beyond(newest, At(j), At(k))}) < n}

\* Mutant: the row under the cursor is served again.
PastCursorOrAt(newest, at) ==
  {j \in Listed : at # Start => ~Beyond(newest, at, At(j))}

\* The cursor's predicate.
PastCursor(newest, at) ==
  {j \in Listed : at # Start => Beyond(newest, At(j), at)}

\* Mutant: no row beyond the page is asked for.
SearchPageOnly(newest, at, n) == FirstOf(n - 1, PastCursor(newest, at), newest)

\* PublicJobRepository.search.
Search(newest, at, n) == FirstOf(n, PastCursor(newest, at), newest)

\* Mutant: what earlier pages have served is not deducted.
PageLimitAlone(limit, served) == IF limit < MaxResults THEN limit ELSE MaxResults

\* min(limit, max(MAX_TRAVERSABLE_RESULTS - served_count, 0))
PageLimit(limit, served) ==
  IF limit < MaxResults - served THEN limit ELSE MaxResults - served

\* One request.  The row beyond the page only tells whether there is one.
Page(c, newest, limit) ==
  LET b == browse[c]
      first == b.pc = "idle"
      n == PageLimit(limit, b.served)
      records == IF n = 0 THEN {} ELSE Search(newest, b.at, n + 1)
      page == FirstOf(n, records, newest)
      served == b.served + Cardinality(page)
      more == n < Cardinality(records) /\ served < MaxResults
      last == CHOOSE j \in page : \A k \in page : ~Beyond(newest, At(k), At(j))
  IN
  /\ b.pc \in {"idle", "paging"}
  /\ ~first => newest = b.newest
  /\ browse' = [browse EXCEPT ![c] =
       [pc |-> IF more THEN "paging" ELSE "done",
        newest |-> newest,
        at |-> IF more THEN At(last) ELSE Start,
        served |-> served,
        shown |-> b.shown \cup page,
        repeated |-> b.repeated \cup (b.shown \cap page),
        stayed |-> IF first THEN Listed ELSE b.stayed,
        still |-> IF first THEN Listed ELSE b.still,
        back |-> b.back]]
  /\ UNCHANGED job

\* The client has read the last page, or goes away before it.
Leave(c) ==
  /\ browse[c].pc # "idle"
  /\ browse' = [browse EXCEPT ![c] = Away]
  /\ UNCHANGED job

-----------------------------------------------------------------------------
Import ==
  \E j \in Jobs :
    \/ Sweep(j)
    \/ HardDelete(j)
    \/ \E state \in {"listed", "filtered"}, t \in Times :
         Insert(j, state, t) \/ Seen(j, state, t)

Visit(c) ==
  \/ \E newest \in BOOLEAN, limit \in PageSizes : Page(c, newest, limit)
  \/ Leave(c)

Next == Import \/ \E c \in Clients : Visit(c)

Spec == Init /\ [][Next]_vars

-----------------------------------------------------------------------------
(***************************************************************************)
(* Properties.                                                             *)
(***************************************************************************)

\* Types; a client on its way is below the limit, and only then has a cursor.
TypeOK ==
  /\ job \in [Jobs -> Row]
  /\ browse \in [Clients -> Browse]
  /\ \A c \in Clients :
       browse[c].pc = "paging" <=> browse[c].at # Start

\* The newest jobs first, a client sees no job twice but one that an import has
\* moved back after it was shown: one that moves on moves to where the client has
\* been, one that the older of two overlapping imports of its provider moves back
\* may come up again.
NewestFirstNeverRepeats ==
  \A c \in Clients : browse[c].newest => browse[c].repeated \subseteq browse[c].back

\* A client that was shown everything there was, below the limit.
AtTheEnd(c) == browse[c].pc = "done" /\ browse[c].served < MaxResults

\* The oldest jobs first, a client misses no job that was listed all along, not
\* even one that imports have moved on again and again; it may miss one that was
\* moved back before it was shown.
OldestFirstMissesNone ==
  \A c \in Clients :
    AtTheEnd(c) /\ ~browse[c].newest =>
      browse[c].stayed \ browse[c].back \subseteq browse[c].shown

\* The jobs that imports move on between two pages are shown twice to no client
\* that reads the newest first, and missed by none that reads the oldest first:
\* only those that overlapping imports move back can be.
MovesMisleadNone == NewestFirstNeverRepeats /\ OldestFirstMissesNone

\* In both directions a job no import has touched is on exactly one page,
\* however many jobs share its timestamp and however large each page is.
UntouchedShownOnce ==
  \A c \in Clients :
    /\ AtTheEnd(c) => browse[c].still \subseteq browse[c].shown
    /\ browse[c].still \cap browse[c].repeated = {}
=============================================================================
