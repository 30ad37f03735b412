---------------------------- MODULE FiltersService ----------------------------
(***************************************************************************)
(* What GET /api/v1/jobs/filters promises, whatever caches it: the filter  *)
(* counts of an answer are never older than the last promotion that had    *)
(* been announced when the request arrived, and never invented.            *)
(*                                                                         *)
(* The content of the jobs table is known by the number of commits that    *)
(* produced it.  An answer carries, for each filter, the commit its counts *)
(* were taken from; the filters of one answer may come from different      *)
(* commits.                                                                *)
(***************************************************************************)
EXTENDS Integers

CONSTANTS
  Readers,          \* the requests the API serves at a time
  NumFacets         \* how many filters an answer carries

Facets == 1 .. NumFacets

VARIABLES
  db,               \* commits to the jobs table so far
  published,        \* the latest announced one
  request           \* what each request may be, or has been, answered

vars == <<db, published, request>>

NoPayload == [f \in Facets |-> 0]
NoRequest == [pc |-> "none", lower |-> 0, payload |-> NoPayload]

Init ==
  /\ db = 0
  /\ published = 0
  /\ request = [r \in Readers |-> NoRequest]

Commit ==
  /\ db' = db + 1
  /\ UNCHANGED <<published, request>>

Announce ==
  /\ published' \in published .. db
  /\ UNCHANGED <<db, request>>

Begin(r) ==
  /\ request[r].pc = "none"
  /\ request' = [request EXCEPT ![r] =
       [pc |-> "open", lower |-> published, payload |-> NoPayload]]
  /\ UNCHANGED <<db, published>>

Answer(r) ==
  /\ request[r].pc = "open"
  /\ \E payload \in [Facets -> request[r].lower .. db] :
       request' = [request EXCEPT ![r] =
         [pc |-> "answered", lower |-> request[r].lower, payload |-> payload]]
  /\ UNCHANGED <<db, published>>

\* The request is over: answered, failed or given up by its client.
Close(r) ==
  /\ request[r].pc # "none"
  /\ request' = [request EXCEPT ![r] = NoRequest]
  /\ UNCHANGED <<db, published>>

Next ==
  \/ Commit
  \/ Announce
  \/ \E r \in Readers : Begin(r) \/ Answer(r) \/ Close(r)

Spec == Init /\ [][Next]_vars
=============================================================================
