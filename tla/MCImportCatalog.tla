--------------------------- MODULE MCImportCatalog ---------------------------
(***************************************************************************)
(* Small instances of ImportCatalog for TLC.                               *)
(***************************************************************************)
EXTENDS ImportCatalog, TLC

CONSTANTS j1, j2

\* Two columns, and three records: the second and the third differ from the
\* first in one column each.
MCColumns == {"title", "apply_url"}
MCValues == {"x", "y"}
Differing(d) == [c \in MCColumns |-> IF c = d THEN "y" ELSE "x"]
MCContents == {[c \in MCColumns |-> "x"], Differing("title"), Differing("apply_url")}

JobSymmetry == Permutations({j1, j2})

\* The first two runs stage any of the first two records for any jobs, the third
\* stages the last record for one job, later ones any record for one job.
OneJob(records) == {[j \in Jobs |-> IF j = k THEN c ELSE Absent] : k \in Jobs, c \in records}
MCSnapshots ==
  [r \in Runs |->
     CASE r <= 2 -> [Jobs -> (MCContents \ {Differing("apply_url")}) \cup {Absent}]
       [] r = 3  -> OneJob({Differing("apply_url")})
       [] r > 3  -> OneJob(MCContents)]

\* A row is torn by the second and third of three runs and found by a fourth: the
\* later runs are explored with the first over before the second begins, the
\* fourth alone and none failed, without rejected records or a cleanup, and
\* before the clock moves.
LaterRunsOfOneJob ==
  (\E r \in Runs : r > 2 /\ promo[r].pc # "idle") =>
    /\ clock = 0 /\ cleaner.pc = "idle"
    /\ promo[1].pc = "promoted"
    /\ \A r \in Runs : /\ promo[r].rejected = 0 /\ promo[r].pc # "ended"
                       /\ r \in {1, 4} /\ promo[r].pc # "idle" => promo[r].alone
    /\ Cardinality({j \in Jobs : \E r \in Runs : feed[r][j] # Absent}) = 1
=============================================================================
