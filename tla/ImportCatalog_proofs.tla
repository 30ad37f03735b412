------------------------ MODULE ImportCatalog_proofs ------------------------
(***************************************************************************)
(* Proofs about ImportCatalog, for any number of jobs, runs and workers,   *)
(* and any batch sizes, thresholds and retention.                          *)
(***************************************************************************)
EXTENDS ImportCatalog, FiniteSetTheorems, TLAPS

USE CatalogAssumption, SentinelAssumption

(***************************************************************************)
(* The structure of a task: what it may hold in which phase, and that the  *)
(* rows it has deactivated are active for all others and held by no other. *)
(***************************************************************************)
TaskOK(p, staged) ==
  /\ \A j \in Jobs : p.found[j] # Unread => p.pc = "batch" /\ j \in p.todo
  /\ p.todo # {} => p.pc \in {"batch", "links"}
  /\ p.held # {} => p.pc = "backfill"
  /\ p.todo \subseteq staged

HeldOK(r) ==
  /\ promo[r].held \subseteq ActiveJobs
  /\ \A q \in Runs \ {r} : promo[r].held \cap promo[q].held = {}

Shape ==
  /\ TypeOK
  /\ \A r \in Runs : TaskOK(promo[r], StagedJobs(r)) /\ HeldOK(r)
-----------------------------------------------------------------------------
LEMMA RestType ==
  ASSUME NEW pc \in {"idle", "promoted", "ended"}
  PROVE  /\ Rest(pc) \in Promotion
         /\ Rest(pc).pc = pc /\ Rest(pc).todo = {} /\ Rest(pc).held = {}
         /\ Rest(pc).alone = FALSE /\ Rest(pc).swept = FALSE
         /\ \A j \in Jobs : Rest(pc).found[j] = Unread
BY DEF Rest, Promotion

LEMMA RowFields ==
  ASSUME TypeOK, NEW j \in Jobs, jobs[j] # NoRow
  PROVE  jobs[j] \in Row
BY DEF TypeOK

\* What a batch writes is a row, with the staged hash and the run's stamp.
LEMMA PromoteRowType ==
  ASSUME TypeOK, NEW r \in Runs, NEW j \in Jobs,
         promo[r].found[j] # Unread, feed[r][j] # Absent, ~Conflict(r, j)
  PROVE  /\ PromoteRow(r, j) \in Row
         /\ PromoteRow(r, j).seen = r
         /\ PromoteRow(r, j).at = promo[r].now
<1>1. promo[r] \in Promotion /\ feed[r][j] \in Contents /\ born[j] \in Nat
  BY DEF TypeOK
<1>2. /\ promo[r].found[j] \in Loaded \cup {NoRow} /\ promo[r].now \in Nat
  BY <1>1 DEF Promotion
<1>3. feed[r][j] \in [Columns -> Values]
  BY <1>1
<1>4. CASE promo[r].found[j] = NoRow
  <2>1. CreateJob(r, j) \in Row
    BY <1>1, <1>2, <1>3 DEF CreateJob, Row
  <2> QED
    BY <1>4, <2>1 DEF PromoteRow, CreateJob
<1>5. CASE promo[r].found[j] # NoRow
  <2>1. jobs[j] \in Row /\ promo[r].found[j] \in Loaded
    BY <1>2, <1>5, RowFields DEF Conflict
  <2>2. MarkJobSeen(r, j) \in Row /\ MarkJobSeen(r, j).seen = r
        /\ MarkJobSeen(r, j).at = promo[r].now
    BY <1>2, <2>1 DEF MarkJobSeen, Row
  <2>3. [c \in Columns |-> IF feed[r][j][c] # promo[r].found[j].cols[c]
                           THEN feed[r][j][c] ELSE jobs[j].cols[c]] \in [Columns -> Values]
    BY <1>3, <2>1 DEF Row
  <2>4. UpdateJob(r, j) \in Row /\ UpdateJob(r, j).seen = r
        /\ UpdateJob(r, j).at = promo[r].now
    BY <1>1, <1>2, <2>1, <2>3 DEF UpdateJob, Row
  <2> QED
    BY <1>5, <2>2, <2>4 DEF PromoteRow
<1> QED
  BY <1>4, <1>5

LEMMA RestOK ==
  ASSUME NEW pc \in {"idle", "promoted", "ended"}, NEW staged
  PROVE  TaskOK(Rest(pc), staged)
BY DEF Rest, TaskOK

LEMMA ShapeInit == Init => Shape
<1> SUFFICES ASSUME Init PROVE Shape
  OBVIOUS
<1>1. TypeOK
  <2>1. promo \in [Runs -> Promotion]
    BY RestType DEF Init
  <2>2. cleaner \in Cleaning
    BY DEF Init, Cleaning
  <2>3. feed \in [Runs -> [Jobs -> Contents \cup {Absent}]]
    BY DEF Init
  <2> QED
    BY <2>1, <2>2, <2>3 DEF Init, TypeOK
<1>2. ASSUME NEW r \in Runs PROVE TaskOK(promo[r], StagedJobs(r)) /\ HeldOK(r)
  <2>1. \A q \in Runs : promo[q] = Rest("idle")
    BY DEF Init
  <2> QED
    BY <2>1, RestOK, RestType DEF HeldOK
<1> QED
  BY <1>1, <1>2 DEF Shape

\* A step in which only the task of r moves, to a state p, and every row some
\* task holds stays active.
LEMMA TaskStep ==
  ASSUME Shape, NEW r \in Runs, NEW p \in Promotion,
         promo' = [promo EXCEPT ![r] = p], feed' = feed,
         TaskOK(p, StagedJobs(r)), p.held \subseteq promo[r].held,
         \A q \in Runs : \A j \in promo[q].held : q # r \/ j \in p.held => Active(j)'
  PROVE  /\ promo' \in [Runs -> Promotion]
         /\ \A q \in Runs : TaskOK(promo[q], StagedJobs(q))' /\ HeldOK(q)'
<1>1. promo \in [Runs -> Promotion]
  BY DEF Shape, TypeOK
<1>2. promo'[r] = p /\ \A q \in Runs \ {r} : promo'[q] = promo[q]
  BY <1>1
<1>3. \A q \in Runs : StagedJobs(q)' = StagedJobs(q)
  BY DEF StagedJobs
<1>4. ASSUME NEW q \in Runs PROVE TaskOK(promo[q], StagedJobs(q))'
  <2>1. TaskOK(promo'[q], StagedJobs(q))
    BY <1>2 DEF Shape
  <2> QED
    BY <1>3, <2>1 DEF TaskOK
<1>5. \A q \in Runs : promo'[q].held \subseteq promo[q].held /\ promo[q].held \subseteq Jobs
  BY <1>1, <1>2 DEF Promotion
<1>6. ASSUME NEW q \in Runs PROVE HeldOK(q)'
  <2>1. \A j \in promo'[q].held : Active(j)' /\ j \in Jobs
    BY <1>2, <1>5
  <2>2. \A s \in Runs \ {q} : promo'[q].held \cap promo'[s].held = {}
    BY <1>5 DEF Shape, HeldOK
  <2> QED
    BY <2>1, <2>2 DEF HeldOK, ActiveJobs
<1> QED
  BY <1>1, <1>4, <1>6


LEMMA AloneSet ==
  ASSUME NEW p \in Promotion, NEW b \in BOOLEAN
  PROVE  LET new == [p EXCEPT !.alone = b]
         IN  /\ new \in Promotion
             /\ new.alone = b
             /\ new.pc = p.pc /\ new.found = p.found /\ new.todo = p.todo
             /\ new.held = p.held /\ new.now = p.now /\ new.swept = p.swept
BY DEF Promotion

LEMMA StagedSet ==
  ASSUME NEW p \in Promotion, NEW b \in BOOLEAN, NEW n \in 0 .. MaxRejected
  PROVE  [p EXCEPT !.pc = "staged", !.rejected = n, !.alone = b] \in Promotion
<1>1. n \in Nat
  OBVIOUS
<1> QED
  BY <1>1 DEF Promotion

\* Staging: the run that starts holds nothing, and the others keep what they hold.
LEMMA StageShape ==
  ASSUME Shape, NEW r \in Runs, Stage(r)
  PROVE  Shape'
<1>1. promo \in [Runs -> Promotion] /\ promo[r].pc = "idle"
  BY DEF Stage, Shape, TypeOK
<1>2. PICK snapshot \in [Jobs -> Contents \cup {Absent}], n \in 0 .. MaxRejected :
        /\ feed' = [feed EXCEPT ![r] = snapshot]
        /\ promo' = [q \in Runs |->
             IF q = r
             THEN [promo[q] EXCEPT !.pc = "staged", !.rejected = n, !.alone = (BusyRuns = {})]
             ELSE [promo[q] EXCEPT !.alone = @ /\ ~Working(q)]]
  BY DEF Stage
<1>3. ASSUME NEW q \in Runs
      PROVE  [promo[q] EXCEPT !.alone = @ /\ ~Working(q)] \in Promotion
  <2>1. promo[q].alone \in BOOLEAN /\ promo[q] \in Promotion
    BY <1>1 DEF Promotion
  <2>2. (promo[q].alone /\ ~Working(q)) \in BOOLEAN
    BY <2>1
  <2> QED
    BY <2>1, <2>2, AloneSet
<1>4. [promo[r] EXCEPT !.pc = "staged", !.rejected = n, !.alone = (BusyRuns = {})] \in Promotion
  BY <1>1, StagedSet
<1>5. \A q \in Runs : promo[q] \in Promotion
  BY <1>1
<1>6. promo' \in [Runs -> Promotion]
  BY <1>2, <1>3, <1>4
<1>7. TypeOK'
  BY <1>2, <1>6 DEF Stage, Shape, TypeOK, tableVars
<1>8. ASSUME NEW q \in Runs
      PROVE  /\ promo'[q].found = promo[q].found /\ promo'[q].todo = promo[q].todo
             /\ promo'[q].held = promo[q].held
             /\ q # r => promo'[q].pc = promo[q].pc /\ feed'[q] = feed[q]
  <2>1. /\ q = r => promo'[q] = [promo[q] EXCEPT !.pc = "staged", !.rejected = n,
                                                !.alone = (BusyRuns = {})]
        /\ q # r => promo'[q] = [promo[q] EXCEPT !.alone = @ /\ ~Working(q)]
    BY <1>2
  <2>2. q # r => feed'[q] = feed[q]
    BY <1>2 DEF Shape, TypeOK
  <2>3. CASE q = r
    <3>1. promo[r] \in Promotion
      BY <1>5
    <3> QED
      BY <2>1, <2>3, <3>1 DEF Promotion
  <2>4. CASE q # r
    <3>1. promo[q] \in Promotion
      BY <1>5
    <3> QED
      BY <2>1, <2>2, <2>4, <3>1 DEF Promotion
  <2> QED
    BY <2>3, <2>4
<1>9. ASSUME NEW q \in Runs PROVE TaskOK(promo[q], StagedJobs(q))'
  <2>1. TaskOK(promo[q], StagedJobs(q))
    BY DEF Shape
  <2>2. CASE q = r
    BY <1>1, <1>8, <2>1, <2>2 DEF TaskOK
  <2>3. CASE q # r
    BY <1>8, <2>1, <2>3 DEF TaskOK, StagedJobs
  <2> QED
    BY <2>2, <2>3
<1>10. ASSUME NEW q \in Runs PROVE HeldOK(q)'
  <2>1. HeldOK(q) /\ ActiveJobs' = ActiveJobs
    BY DEF Shape, Stage, tableVars, ActiveJobs, Active
  <2> QED
    BY <1>8, <2>1 DEF HeldOK
<1> QED
  BY <1>7, <1>9, <1>10 DEF Shape

\* Steps that move one task and write no table.
LEMMA QuietShape ==
  ASSUME Shape, NEW r \in Runs, NEW p \in Promotion,
         promo' = [promo EXCEPT ![r] = p],
         UNCHANGED <<clock, feed, jobs, born, torn, cleaner, overlapped>>,
         TaskOK(p, StagedJobs(r)), p.held \subseteq promo[r].held
  PROVE  Shape'
<1>1. \A q \in Runs : \A j \in promo[q].held : Active(j)'
  BY DEF Shape, HeldOK, ActiveJobs, Active
<1>2. /\ promo' \in [Runs -> Promotion]
      /\ \A q \in Runs : TaskOK(promo[q], StagedJobs(q))' /\ HeldOK(q)'
  BY <1>1, TaskStep
<1> QED
  BY <1>2 DEF Shape, TypeOK

LEMMA PromoteQuietShape ==
  ASSUME Shape, NEW r \in Runs,
         \/ BeginPromotion(r) \/ AbortAnomalous(r) \/ \E j \in Jobs : LookUp(r, j)
         \/ LinksFail(r) \/ BackfillFails(r) \/ FinishPromotion(r) \/ MarkFailed(r)
         \/ Crash(r)
  PROVE  Shape'
<1> DEFINE staged == StagedJobs(r)
<1>1. promo[r] \in Promotion /\ TaskOK(promo[r], staged)
  BY DEF Shape, TypeOK
<1>2. staged \subseteq Jobs /\ clock \in Nat
  BY DEF StagedJobs, Shape, TypeOK
<1>3. UNCHANGED <<clock, feed, jobs, born, torn, cleaner, overlapped>>
  BY DEF BeginPromotion, AbortAnomalous, LookUp, LinksFail, BackfillFails, FinishPromotion,
         MarkFailed, Crash, tableVars
<1>4. ASSUME BeginPromotion(r) PROVE Shape'
  <2> DEFINE p == [promo[r] EXCEPT !.pc = AfterBatch(staged), !.rejected = 0,
                                   !.now = clock, !.todo = staged]
  <2>1. p \in Promotion
    BY <1>1, <1>2 DEF Promotion, AfterBatch
  <2>2. TaskOK(p, staged) /\ p.held \subseteq promo[r].held
    BY <1>1, <1>4 DEF TaskOK, Promotion, AfterBatch, BeginPromotion
  <2>3. promo' = [promo EXCEPT ![r] = p]
    BY <1>4 DEF BeginPromotion, Shape, TypeOK
  <2> QED
    BY <1>3, <2>1, <2>2, <2>3, QuietShape
<1>5. ASSUME AbortAnomalous(r) \/ MarkFailed(r) \/ Crash(r) PROVE Shape'
  <2>1. promo' = [promo EXCEPT ![r] = Rest("ended")]
    BY <1>5 DEF AbortAnomalous, MarkFailed, Crash
  <2>2. Rest("ended") \in Promotion /\ Rest("ended").held = {}
    BY RestType
  <2> QED
    BY <1>3, <2>1, <2>2, RestOK, QuietShape
<1>6. ASSUME NEW j \in Jobs, LookUp(r, j) PROVE Shape'
  <2> DEFINE row == IF jobs[j] = NoRow THEN NoRow
                    ELSE [gen |-> jobs[j].gen, hash |-> jobs[j].hash, cols |-> jobs[j].cols]
             found == [promo[r].found EXCEPT ![j] = row]
             p == [promo[r] EXCEPT !.found = found]
  <2>1. row \in Loaded \cup {NoRow}
    BY DEF Shape, TypeOK, Row, Loaded
  <2>2. promo[r].found \in [Jobs -> Loaded \cup {NoRow, Unread}]
    BY <1>1 DEF Promotion
  <2>3. found \in [Jobs -> Loaded \cup {NoRow, Unread}]
    BY <2>1, <2>2
  <2>4. p \in Promotion /\ p.held = promo[r].held /\ p.pc = promo[r].pc
        /\ p.todo = promo[r].todo /\ p.found = found
    BY <1>1, <2>3 DEF Promotion
  <2>5. TaskOK(p, staged)
    BY <1>1, <1>6, <2>2, <2>4 DEF TaskOK, LookUp
  <2>6. promo' = [promo EXCEPT ![r] = p]
    BY <1>6 DEF LookUp, Shape, TypeOK
  <2> QED
    BY <1>3, <2>4, <2>5, <2>6, QuietShape
<1>7. ASSUME LinksFail(r) PROVE Shape'
  <2> DEFINE p == [promo[r] EXCEPT !.pc = AfterBatch(promo[r].todo), !.fresh = {}]
  <2>1. p \in Promotion
    BY <1>1 DEF Promotion, AfterBatch
  <2>2. TaskOK(p, staged) /\ p.held \subseteq promo[r].held
    BY <1>1, <1>7 DEF TaskOK, Promotion, AfterBatch, LinksFail
  <2>3. promo' = [promo EXCEPT ![r] = p]
    BY <1>7 DEF LinksFail, Shape, TypeOK
  <2> QED
    BY <1>3, <2>1, <2>2, <2>3, QuietShape
<1>8. ASSUME BackfillFails(r) PROVE Shape'
  <2> DEFINE p == [promo[r] EXCEPT !.pc = "finish", !.held = {}]
  <2>1. p \in Promotion
    BY <1>1 DEF Promotion
  <2>2. TaskOK(p, staged) /\ p.held \subseteq promo[r].held
    BY <1>1, <1>8 DEF TaskOK, Promotion, BackfillFails
  <2>3. promo' = [promo EXCEPT ![r] = p]
    BY <1>8 DEF BackfillFails, Shape, TypeOK
  <2> QED
    BY <1>3, <2>1, <2>2, <2>3, QuietShape
<1>9. ASSUME FinishPromotion(r) PROVE Shape'
  <2> DEFINE p == [Rest("promoted") EXCEPT !.alone = promo[r].alone,
                                           !.swept = promo[r].swept]
  <2>1. p \in Promotion /\ p.held = {}
    BY <1>1, RestType DEF Promotion
  <2>2. TaskOK(p, staged)
    BY RestType, RestOK DEF TaskOK, Promotion
  <2>3. promo' = [promo EXCEPT ![r] = p]
    BY <1>9 DEF FinishPromotion
  <2> QED
    BY <1>3, <2>1, <2>2, <2>3, QuietShape
<1> QED
  BY <1>4, <1>5, <1>6, <1>7, <1>8, <1>9
-----------------------------------------------------------------------------
\* The batch in hand: its rows are staged, unlocked, and what is written is typed.
LEMMA CommitBatchRows ==
  ASSUME Shape, NEW r \in Runs, CommitBatch(r)
  PROVE  /\ \A j \in Looked(r) : /\ feed[r][j] # Absent
                                 /\ jobs'[j] = PromoteRow(r, j)
                                 /\ jobs'[j] \in Row
                                 /\ jobs'[j].seen = r
                                 /\ jobs'[j].at = promo[r].now
         /\ \A j \in Jobs \ Looked(r) : jobs'[j] = jobs[j]
         /\ \A q \in Runs \ {r} : promo[q].held \cap Looked(r) = {}
<1>1. /\ \A j \in Looked(r) : ~Conflict(r, j)
      /\ jobs' = [j \in Jobs |-> IF j \in Looked(r) THEN PromoteRow(r, j) ELSE jobs[j]]
      /\ Looked(r) \cap LockedByOthers(r) = {}
  BY DEF CommitBatch, BatchReady
<1>2. ASSUME NEW j \in Looked(r)
      PROVE  /\ j \in Jobs /\ promo[r].found[j] # Unread /\ feed[r][j] # Absent
             /\ ~Conflict(r, j)
  BY <1>1 DEF Looked, Shape, TaskOK, StagedJobs
<1>3. ASSUME NEW j \in Looked(r)
      PROVE  /\ PromoteRow(r, j) \in Row
             /\ PromoteRow(r, j).seen = r
             /\ PromoteRow(r, j).at = promo[r].now
  BY <1>2, PromoteRowType DEF Shape
<1>4. ASSUME NEW q \in Runs \ {r} PROVE promo[q].held \cap Looked(r) = {}
  BY <1>1 DEF LockedByOthers
<1> QED
  BY <1>1, <1>2, <1>3, <1>4

LEMMA CommitBatchShape ==
  ASSUME Shape, NEW r \in Runs, CommitBatch(r)
  PROVE  Shape'
<1> DEFINE staged == StagedJobs(r)
           batch == Looked(r)
           created == {j \in batch : promo[r].found[j] = NoRow}
           rest == promo[r].todo \ batch
           p == [promo[r] EXCEPT !.pc = IF created = {} THEN AfterBatch(rest) ELSE "links",
                                 !.todo = rest,
                                 !.found = [j \in Jobs |-> Unread],
                                 !.fresh = {<<j, born[j] + 1>> : j \in created}]
<1>1. promo[r] \in Promotion /\ TaskOK(promo[r], staged) /\ batch \subseteq Jobs
  BY DEF Shape, TypeOK, Looked
<1>2. UNCHANGED clock /\ UNCHANGED feed /\ UNCHANGED cleaner /\ UNCHANGED overlapped
      /\ promo[r].pc = "batch"
  BY DEF CommitBatch, BatchReady
<1>3. \A j \in Jobs : born[j] \in Nat
  BY DEF Shape, TypeOK
<1>4. {<<j, born[j] + 1>> : j \in created} \in SUBSET (Jobs \X Nat)
  BY <1>1, <1>3
<1>5. [j \in Jobs |-> Unread] \in [Jobs -> Loaded \cup {NoRow, Unread}]
  OBVIOUS
<1>6. p \in Promotion
  BY <1>1, <1>4, <1>5 DEF Promotion, AfterBatch
<1>7. TaskOK(p, staged) /\ p.held \subseteq promo[r].held
  BY <1>1, <1>2 DEF TaskOK, Promotion, AfterBatch
<1>8. promo' = [promo EXCEPT ![r] = p]
  BY DEF CommitBatch, Shape, TypeOK
<1>9. jobs' \in [Jobs -> Row \cup {NoRow}]
  <2>1. \A j \in Jobs : jobs'[j] \in Row \cup {NoRow}
    BY CommitBatchRows DEF Shape, TypeOK
  <2> QED
    BY <2>1 DEF CommitBatch
<1>10. born' \in [Jobs -> Nat]
  <2>1. born' = [j \in Jobs |-> IF j \in created THEN born[j] + 1 ELSE born[j]]
    BY DEF CommitBatch
  <2>2. \A j \in Jobs : (IF j \in created THEN born[j] + 1 ELSE born[j]) \in Nat
    BY <1>3
  <2> HIDE DEF created
  <2> QED
    BY <2>1, <2>2
<1>10a. torn' \subseteq Jobs
  <2>1. torn' \subseteq torn \cup Looked(r)
    BY DEF CommitBatch
  <2> QED
    BY <1>1, <2>1 DEF Shape, TypeOK
<1>11. \A q \in Runs : \A j \in promo[q].held : q # r \/ j \in p.held => Active(j)'
  <2>1. promo[r].held = {} /\ p.held = {}
    BY <1>1, <1>2 DEF TaskOK, Promotion
  <2>2. ASSUME NEW q \in Runs \ {r}, NEW j \in promo[q].held PROVE Active(j)'
    <3>1. j \in Jobs \ Looked(r) /\ Active(j)
      BY CommitBatchRows DEF Shape, HeldOK, ActiveJobs
    <3> QED
      BY <3>1, CommitBatchRows DEF Active
  <2> QED
    BY <2>1, <2>2
<1>12. /\ promo' \in [Runs -> Promotion]
       /\ \A q \in Runs : TaskOK(promo[q], StagedJobs(q))' /\ HeldOK(q)'
  <2>1. TaskOK(p, StagedJobs(r)) /\ p.held \subseteq promo[r].held /\ feed' = feed
    BY <1>2, <1>7
  <2> HIDE DEF p, created, rest, batch, staged
  <2> QED
    BY <1>6, <1>8, <1>11, <2>1, TaskStep
<1> QED
  BY <1>2, <1>9, <1>10, <1>10a, <1>12 DEF Shape, TypeOK

\* Steps of a task after its batches that write jobs: what each does to a row.
Touched(j) ==
  /\ jobs[j] # NoRow
  /\ jobs'[j] \in Row
  /\ jobs'[j].seen = jobs[j].seen /\ jobs'[j].hash = jobs[j].hash
  /\ jobs'[j].cols = jobs[j].cols /\ jobs'[j].gen = jobs[j].gen
  /\ jobs'[j].at = jobs[j].at

LEMMA LinkTouch ==
  ASSUME TypeOK, NEW j \in Jobs, jobs[j] # NoRow, jobs'[j] = [jobs[j] EXCEPT !.link = TRUE]
  PROVE  Touched(j) /\ jobs'[j].active = jobs[j].active
<1>1. jobs[j] \in Row
  BY RowFields
<1>2. jobs'[j] \in Row /\ jobs'[j].active = jobs[j].active
  BY <1>1 DEF Row
<1>3. /\ jobs'[j].seen = jobs[j].seen /\ jobs'[j].hash = jobs[j].hash
      /\ jobs'[j].cols = jobs[j].cols /\ jobs'[j].gen = jobs[j].gen
      /\ jobs'[j].at = jobs[j].at
  BY <1>1 DEF Row
<1> QED
  BY <1>2, <1>3 DEF Touched

LEMMA DeactivateTouch ==
  ASSUME TypeOK, NEW j \in Jobs, jobs[j] # NoRow, NEW now \in Nat,
         jobs'[j] = Deactivated(jobs[j], now)
  PROVE  Touched(j) /\ jobs'[j].active = FALSE
<1>1. jobs[j] \in Row /\ jobs'[j] = [jobs[j] EXCEPT !.active = FALSE, !.dead = now]
  BY RowFields DEF Deactivated
<1>2. jobs'[j] \in Row /\ jobs'[j].active = FALSE
  BY <1>1 DEF Row
<1>3. /\ jobs'[j].seen = jobs[j].seen /\ jobs'[j].hash = jobs[j].hash
      /\ jobs'[j].cols = jobs[j].cols /\ jobs'[j].gen = jobs[j].gen
      /\ jobs'[j].at = jobs[j].at
  BY <1>1 DEF Row
<1> QED
  BY <1>2, <1>3 DEF Touched

LEMMA GenerateLinksRows ==
  ASSUME Shape, NEW r \in Runs, GenerateLinks(r)
  PROVE  \A j \in Jobs : \/ jobs'[j] = jobs[j]
                         \/ Touched(j) /\ jobs'[j].active = jobs[j].active
<1> SUFFICES ASSUME NEW j \in Jobs, jobs'[j] # jobs[j]
             PROVE  Touched(j) /\ jobs'[j].active = jobs[j].active
  OBVIOUS
<1>1. /\ \E id \in promo[r].fresh : id[1] = j
      /\ jobs'[j] = [jobs[j] EXCEPT !.link = TRUE]
  BY DEF GenerateLinks
<1>2. jobs[j] # NoRow
  BY <1>1 DEF GenerateLinks
<1> QED
  BY <1>1, <1>2, LinkTouch DEF Shape

LEMMA GenerateLinksShape ==
  ASSUME Shape, NEW r \in Runs, GenerateLinks(r)
  PROVE  Shape'
<1> DEFINE p == [promo[r] EXCEPT !.pc = AfterBatch(promo[r].todo), !.fresh = {}]
<1>1. promo[r] \in Promotion /\ TaskOK(promo[r], StagedJobs(r))
  BY DEF Shape, TypeOK
<1>2. UNCHANGED clock /\ UNCHANGED feed /\ UNCHANGED born /\ UNCHANGED torn
      /\ UNCHANGED cleaner /\ UNCHANGED overlapped /\ promo[r].pc = "links"
  BY DEF GenerateLinks
<1>3. p \in Promotion
  BY <1>1 DEF Promotion, AfterBatch
<1>4. TaskOK(p, StagedJobs(r)) /\ p.held \subseteq promo[r].held
  BY <1>1, <1>2 DEF TaskOK, Promotion, AfterBatch
<1>5. promo' = [promo EXCEPT ![r] = p]
  BY DEF GenerateLinks, Shape, TypeOK
<1>6. jobs' \in [Jobs -> Row \cup {NoRow}]
  <2>1. \A j \in Jobs : jobs'[j] \in Row \cup {NoRow}
    BY GenerateLinksRows DEF Shape, TypeOK, Touched
  <2> QED
    BY <2>1 DEF GenerateLinks
<1>7. \A q \in Runs : \A j \in promo[q].held : Active(j)'
  <2>1. ASSUME NEW q \in Runs, NEW j \in promo[q].held PROVE Active(j)'
    <3>1. j \in Jobs /\ Active(j)
      BY DEF Shape, HeldOK, ActiveJobs
    <3> QED
      BY <3>1, GenerateLinksRows DEF Active, Touched
  <2> QED
    BY <2>1
<1>8. /\ promo' \in [Runs -> Promotion]
      /\ \A q \in Runs : TaskOK(promo[q], StagedJobs(q))' /\ HeldOK(q)'
  BY <1>2, <1>3, <1>4, <1>5, <1>7, TaskStep
<1> QED
  BY <1>2, <1>6, <1>8 DEF Shape, TypeOK

LEMMA DeactivateStaleShape ==
  ASSUME Shape, NEW r \in Runs, DeactivateStale(r)
  PROVE  Shape'
<1> DEFINE p == [promo[r] EXCEPT !.pc = "backfill", !.held = Stale(r)]
<1>1. promo[r] \in Promotion /\ TaskOK(promo[r], StagedJobs(r)) /\ promo \in [Runs -> Promotion]
  BY DEF Shape, TypeOK
<1>2. /\ UNCHANGED clock /\ UNCHANGED feed /\ UNCHANGED jobs /\ UNCHANGED born
      /\ UNCHANGED torn /\ UNCHANGED cleaner /\ UNCHANGED overlapped
      /\ promo[r].pc = "sweep" /\ Stale(r) \cap LockedByOthers(r) = {}
  BY DEF DeactivateStale, tableVars
<1>3. Stale(r) \subseteq ActiveJobs /\ ActiveJobs \subseteq Jobs
  BY DEF Stale, ActiveJobs
<1>4. p \in Promotion /\ p.held = Stale(r) /\ p.pc = "backfill"
      /\ p.todo = promo[r].todo /\ p.found = promo[r].found
  BY <1>1, <1>3 DEF Promotion
<1>5. promo' = [promo EXCEPT ![r] = p]
  BY <1>1 DEF DeactivateStale
<1> HIDE DEF p
<1>6. promo' \in [Runs -> Promotion] /\ promo'[r] = p
      /\ \A q \in Runs \ {r} : promo'[q] = promo[q]
  BY <1>1, <1>4, <1>5
<1>7. TypeOK'
  BY <1>2, <1>6 DEF Shape, TypeOK
<1>8. ASSUME NEW q \in Runs PROVE TaskOK(promo[q], StagedJobs(q))'
  <2>1. TaskOK(promo[q], StagedJobs(q)) /\ StagedJobs(q)' = StagedJobs(q)
    BY <1>2 DEF Shape, StagedJobs
  <2>2. TaskOK(promo'[q], StagedJobs(q))
    BY <1>1, <1>2, <1>4, <1>6, <2>1 DEF TaskOK
  <2> QED
    BY <2>1, <2>2 DEF TaskOK
<1>9. \A q \in Runs \ {r} : promo[q].held \cap Stale(r) = {}
  BY <1>2 DEF LockedByOthers
<1>10. ASSUME NEW q \in Runs PROVE HeldOK(q)'
  <2>1. promo'[q].held \subseteq ActiveJobs /\ ActiveJobs' = ActiveJobs
    BY <1>2, <1>3, <1>4, <1>6 DEF Shape, HeldOK, ActiveJobs, Active
  <2>2. ASSUME NEW s \in Runs \ {q} PROVE promo'[q].held \cap promo'[s].held = {}
    <3>1. CASE q = r
      BY <1>4, <1>6, <1>9, <3>1
    <3>2. CASE s = r
      BY <1>4, <1>6, <1>9, <3>2
    <3>3. CASE q # r /\ s # r
      BY <1>6, <3>3 DEF Shape, HeldOK
    <3> QED
      BY <3>1, <3>2, <3>3
  <2> QED
    BY <2>1, <2>2 DEF HeldOK
<1> QED
  BY <1>7, <1>8, <1>10 DEF Shape

\* The backfill's commit deactivates what the task holds, and no other row.
LEMMA BackfillRows ==
  ASSUME Shape, NEW r \in Runs, Backfill(r)
  PROVE  \A j \in Jobs :
           /\ j \in promo[r].held => Touched(j) /\ jobs'[j].active = FALSE
           /\ j \notin promo[r].held =>
                \/ jobs'[j] = jobs[j]
                \/ Touched(j) /\ jobs'[j].active = jobs[j].active
<1> SUFFICES ASSUME NEW j \in Jobs
             PROVE  /\ j \in promo[r].held => Touched(j) /\ jobs'[j].active = FALSE
                    /\ j \notin promo[r].held =>
                         \/ jobs'[j] = jobs[j]
                         \/ Touched(j) /\ jobs'[j].active = jobs[j].active
  OBVIOUS
<1>1. PICK linked \in SUBSET MissingLink(r) :
        jobs' = [k \in Jobs |->
          IF k \in promo[r].held THEN Deactivated(jobs[k], promo[r].now)
          ELSE IF k \in linked THEN [jobs[k] EXCEPT !.link = TRUE]
          ELSE jobs[k]]
  BY DEF Backfill
<1>2. promo[r].now \in Nat
  BY DEF Shape, TypeOK, Promotion
<1>3. CASE j \in promo[r].held
  <2>1. jobs[j] # NoRow /\ jobs'[j] = Deactivated(jobs[j], promo[r].now)
    BY <1>1, <1>3 DEF Shape, HeldOK, ActiveJobs, Active
  <2> QED
    BY <1>2, <1>3, <2>1, DeactivateTouch DEF Shape
<1>4. CASE j \notin promo[r].held /\ j \in linked
  <2>1. jobs[j] # NoRow /\ jobs'[j] = [jobs[j] EXCEPT !.link = TRUE]
    BY <1>1, <1>4 DEF MissingLink, ActiveJobs, Active
  <2> QED
    BY <1>4, <2>1, LinkTouch DEF Shape
<1>5. CASE j \notin promo[r].held /\ j \notin linked
  BY <1>1, <1>5
<1> QED
  BY <1>3, <1>4, <1>5

LEMMA BackfillShape ==
  ASSUME Shape, NEW r \in Runs, Backfill(r)
  PROVE  Shape'
<1> DEFINE p == [promo[r] EXCEPT !.pc = "finish", !.held = {}, !.swept = TRUE]
<1>1. promo[r] \in Promotion /\ TaskOK(promo[r], StagedJobs(r))
  BY DEF Shape, TypeOK
<1>2. UNCHANGED clock /\ UNCHANGED feed /\ UNCHANGED born /\ UNCHANGED torn
      /\ UNCHANGED cleaner /\ UNCHANGED overlapped /\ promo[r].pc = "backfill"
  BY DEF Backfill
<1>3. p \in Promotion /\ p.held = {} /\ p.todo = promo[r].todo /\ p.found = promo[r].found
      /\ p.pc = "finish"
  BY <1>1 DEF Promotion
<1>4. TaskOK(p, StagedJobs(r)) /\ p.held \subseteq promo[r].held
  BY <1>1, <1>2, <1>3 DEF TaskOK
<1>5. promo' = [promo EXCEPT ![r] = p]
  BY DEF Backfill, Shape, TypeOK
<1>6. jobs' \in [Jobs -> Row \cup {NoRow}]
  <2>1. \A j \in Jobs : jobs'[j] \in Row \cup {NoRow}
    BY BackfillRows DEF Shape, TypeOK, Touched
  <2> QED
    BY <2>1 DEF Backfill
<1>7. \A q \in Runs : \A j \in promo[q].held : q # r \/ j \in p.held => Active(j)'
  <2>1. ASSUME NEW q \in Runs \ {r}, NEW j \in promo[q].held PROVE Active(j)'
    <3>1. j \in Jobs /\ Active(j) /\ j \notin promo[r].held
      BY DEF Shape, HeldOK, ActiveJobs
    <3> QED
      BY <3>1, BackfillRows DEF Active, Touched
  <2> QED
    BY <1>3, <2>1
<1>8. /\ promo' \in [Runs -> Promotion]
      /\ \A q \in Runs : TaskOK(promo[q], StagedJobs(q))' /\ HeldOK(q)'
  <2> HIDE DEF p
  <2> QED
    BY <1>2, <1>3, <1>4, <1>5, <1>7, TaskStep
<1> QED
  BY <1>2, <1>6, <1>8 DEF Shape, TypeOK

\* The cleanup and the clock leave the tasks alone; a deleted row was inactive.
LEMMA HardDeleteRows ==
  ASSUME HardDelete, NEW j \in Jobs
  PROVE  \/ jobs'[j] = jobs[j]
         \/ jobs'[j] = NoRow /\ jobs[j] # NoRow /\ ~jobs[j].active
            /\ jobs[j].dead < cleaner.cutoff
BY DEF HardDelete, Expired

LEMMA OtherShape ==
  ASSUME Shape, Cleanup \/ Tick \/ UNCHANGED vars
  PROVE  Shape'
<1>1. promo' = promo /\ feed' = feed /\ born' = born /\ torn' = torn /\ overlapped' = overlapped
  BY DEF Cleanup, StartCleanup, FindExpired, HardDelete, CleanupFails, Tick, vars, tableVars
<1>2. jobs' \in [Jobs -> Row \cup {NoRow}] /\ \A j \in ActiveJobs : jobs'[j] = jobs[j]
  <2>1. CASE HardDelete
    <3>1. \A j \in Jobs : jobs'[j] \in Row \cup {NoRow}
      BY <2>1, HardDeleteRows DEF Shape, TypeOK
    <3>2. jobs' \in [Jobs -> Row \cup {NoRow}]
      BY <2>1, <3>1 DEF HardDelete
    <3>3. \A j \in ActiveJobs : jobs'[j] = jobs[j]
      BY <2>1, HardDeleteRows DEF ActiveJobs, Active
    <3> QED
      BY <3>2, <3>3
  <2>2. CASE ~HardDelete
    BY <2>2 DEF Shape, TypeOK, Cleanup, StartCleanup, FindExpired, CleanupFails, Tick, vars,
                tableVars
  <2> QED
    BY <2>1, <2>2
<1>3. clock' \in Nat
  <2>1. clock \in Nat
    BY DEF Shape, TypeOK
  <2>2. clock' = clock \/ clock' = clock + 1
    BY DEF Cleanup, StartCleanup, FindExpired, HardDelete, CleanupFails, Tick, vars
  <2> QED
    BY <2>1, <2>2
<1>4. cleaner' \in Cleaning
  <2> USE DEF Shape, TypeOK
  <2>1. CASE StartCleanup
    BY <2>1 DEF StartCleanup, Cleaning
  <2>2. CASE FindExpired
    <3>1. CASE cleaner' = [pc |-> "idle", cutoff |-> 0, ids |-> {}]
      BY <3>1 DEF Cleaning
    <3>2. CASE cleaner' # [pc |-> "idle", cutoff |-> 0, ids |-> {}]
      <4>1. PICK batch \in SUBSET {j \in Jobs : Expired(j, cleaner.cutoff)} :
              cleaner' = [cleaner EXCEPT !.pc = "delete",
                                         !.ids = {<<j, jobs[j].gen>> : j \in batch}]
        BY <2>2, <3>2 DEF FindExpired
      <4>2. \A j \in batch : j \in Jobs /\ jobs[j].gen \in Nat
        BY RowFields DEF Expired, Row
      <4>3. {<<j, jobs[j].gen>> : j \in batch} \in SUBSET (Jobs \X Nat)
        BY <4>2
      <4> QED
        BY <4>1, <4>3 DEF Cleaning
    <3> QED
      BY <3>1, <3>2
  <2>3. CASE HardDelete
    <3>1. cleaner' = [cleaner EXCEPT !.pc = "find", !.ids = {}] /\ cleaner \in Cleaning
      BY <2>3 DEF HardDelete
    <3> QED
      BY <3>1 DEF Cleaning
  <2>4. CASE CleanupFails
    <3>1. cleaner' = [pc |-> "idle", cutoff |-> 0, ids |-> {}]
      BY <2>4 DEF CleanupFails
    <3> QED
      BY <3>1 DEF Cleaning
  <2>5. CASE Tick \/ UNCHANGED vars
    BY <2>5 DEF Tick, vars
  <2> QED
    BY <2>1, <2>2, <2>3, <2>4, <2>5 DEF Cleanup
<1>5. ASSUME NEW q \in Runs PROVE TaskOK(promo[q], StagedJobs(q))' /\ HeldOK(q)'
  <2>1. TaskOK(promo[q], StagedJobs(q)) /\ StagedJobs(q)' = StagedJobs(q)
    BY <1>1 DEF Shape, StagedJobs
  <2>2. ActiveJobs \subseteq ActiveJobs'
    BY <1>2 DEF ActiveJobs, Active
  <2>3. HeldOK(q)
    BY DEF Shape
  <2> QED
    BY <1>1, <2>1, <2>2, <2>3 DEF TaskOK, HeldOK
<1> QED
  BY <1>1, <1>2, <1>3, <1>4, <1>5 DEF Shape, TypeOK

LEMMA ShapeStep == Shape /\ [Next]_vars => Shape'
<1> SUFFICES ASSUME Shape, [Next]_vars PROVE Shape'
  OBVIOUS
<1>1. ASSUME NEW r \in Runs, Stage(r) \/ Promote(r) \/ Crash(r) PROVE Shape'
  BY <1>1, StageShape, PromoteQuietShape, CommitBatchShape, GenerateLinksShape,
     DeactivateStaleShape, BackfillShape DEF Promote
<1> QED
  BY <1>1, OtherShape DEF Next

\* Tables, tasks and history stay within their types, for every number of
\* jobs, runs and workers; in particular an inactive row of jobs always has a
\* deactivated_at, and a batch always finds the staged rows it promotes.
THEOREM TypeCorrect == Spec => []TypeOK
<1>1. Spec => []Shape
  BY ShapeInit, ShapeStep, PTL DEF Spec
<1>2. Shape => TypeOK
  BY DEF Shape
<1> QED
  BY <1>1, <1>2, PTL
-----------------------------------------------------------------------------
(***************************************************************************)
(* What a step may do to a row, and to a task                              *)
(***************************************************************************)
LEMMA RowStep ==
  ASSUME Shape, [Next]_vars, NEW j \in Jobs
  PROVE  \/ jobs'[j] = jobs[j]
         \/ Touched(j)
         \/ HardDelete /\ jobs'[j] = NoRow
         \/ \E r \in Runs : CommitBatch(r) /\ j \in Looked(r)
<1>1. ASSUME NEW r \in Runs, Stage(r) \/ Promote(r) \/ Crash(r)
      PROVE  \/ jobs'[j] = jobs[j]
             \/ Touched(j)
             \/ CommitBatch(r) /\ j \in Looked(r)
  <2>1. CASE CommitBatch(r)
    BY <2>1, CommitBatchRows
  <2>2. CASE GenerateLinks(r)
    BY <2>2, GenerateLinksRows
  <2>3. CASE Backfill(r)
    BY <2>3, BackfillRows
  <2>4. CASE ~CommitBatch(r) /\ ~GenerateLinks(r) /\ ~Backfill(r)
    BY <1>1, <2>4 DEF Stage, Promote, Crash, BeginPromotion, AbortAnomalous, LookUp, LinksFail,
       DeactivateStale, BackfillFails, FinishPromotion, MarkFailed, tableVars
  <2> QED
    BY <2>1, <2>2, <2>3, <2>4
<1>2. CASE Cleanup \/ Tick \/ UNCHANGED vars
  <2>1. HardDelete \/ jobs' = jobs
    BY <1>2 DEF Cleanup, StartCleanup, FindExpired, CleanupFails, Tick, vars, tableVars
  <2> QED
    BY <2>1, HardDeleteRows
<1> QED
  BY <1>1, <1>2 DEF Next

LEMMA TaskMoves ==
  ASSUME Shape, NEW r \in Runs, Promote(r) \/ Crash(r)
  PROVE  /\ Working(r)
         /\ \A q \in Runs \ {r} : promo'[q] = promo[q]
         /\ UNCHANGED feed /\ UNCHANGED clock /\ UNCHANGED overlapped /\ UNCHANGED cleaner
         /\ \/ /\ promo'[r].alone = promo[r].alone
               /\ promo'[r].pc \notin {"idle", "staged", "ended"}
            \/ promo'[r] = Rest("ended")
<1> USE DEF Promotion, AfterBatch, Working
<1>1. promo \in [Runs -> Promotion] /\ promo[r] \in Promotion
  BY DEF Shape, TypeOK
<1>2. CASE AbortAnomalous(r) \/ MarkFailed(r) \/ Crash(r)
  BY <1>1, <1>2 DEF AbortAnomalous, MarkFailed, Crash, tableVars
<1>3. CASE BeginPromotion(r)
  BY <1>1, <1>3 DEF BeginPromotion, tableVars
<1>3a. CASE LinksFail(r)
  BY <1>1, <1>3a DEF LinksFail, tableVars
<1>4. CASE \E j \in Jobs : LookUp(r, j)
  BY <1>1, <1>4 DEF LookUp, tableVars
<1>5. CASE CommitBatch(r)
  BY <1>1, <1>5 DEF CommitBatch, BatchReady
<1>6. CASE GenerateLinks(r)
  BY <1>1, <1>6 DEF GenerateLinks
<1>7. CASE DeactivateStale(r) \/ BackfillFails(r)
  BY <1>1, <1>7 DEF DeactivateStale, BackfillFails, tableVars
<1>8. CASE Backfill(r)
  BY <1>1, <1>8 DEF Backfill
<1>9. CASE FinishPromotion(r)
  BY <1>1, <1>9, RestType DEF FinishPromotion, tableVars
<1> QED
  BY <1>2, <1>3, <1>3a, <1>4, <1>5, <1>6, <1>7, <1>8, <1>9 DEF Promote

LEMMA StageMoves ==
  ASSUME Shape, NEW r \in Runs, Stage(r)
  PROVE  /\ promo[r].pc = "idle" /\ promo'[r].pc = "staged"
         /\ \A q \in Runs : q < r => promo[q].pc # "idle"
         /\ promo'[r].alone <=> BusyRuns = {}
         /\ \A q \in Runs \ {r} : /\ promo'[q].pc = promo[q].pc
                                  /\ promo'[q].alone <=> (promo[q].alone /\ ~Working(q))
                                  /\ feed'[q] = feed[q]
                                  /\ promo'[q].swept = promo[q].swept
         /\ \A q \in Runs : /\ promo'[q].found = promo[q].found
                            /\ promo'[q].todo = promo[q].todo
                            /\ promo'[q].held = promo[q].held
                            /\ promo'[q].now = promo[q].now
         /\ overlapped' <=> (overlapped \/ BusyRuns # {})
         /\ UNCHANGED clock /\ UNCHANGED jobs /\ UNCHANGED born /\ UNCHANGED cleaner
<1>1. PICK snapshot \in [Jobs -> Contents \cup {Absent}], n \in 0 .. MaxRejected :
        /\ feed' = [feed EXCEPT ![r] = snapshot]
        /\ promo' = [q \in Runs |->
             IF q = r
             THEN [promo[q] EXCEPT !.pc = "staged", !.rejected = n, !.alone = (BusyRuns = {})]
             ELSE [promo[q] EXCEPT !.alone = @ /\ ~Working(q)]]
  BY DEF Stage
<1>2. \A q \in Runs : promo[q] \in Promotion
  BY DEF Shape, TypeOK
<1>3. promo'[r] = [promo[r] EXCEPT !.pc = "staged", !.rejected = n, !.alone = (BusyRuns = {})]
  BY <1>1
<1>4. ASSUME NEW q \in Runs \ {r}
      PROVE  /\ promo'[q] = [promo[q] EXCEPT !.alone = @ /\ ~Working(q)]
             /\ feed'[q] = feed[q]
  BY <1>1 DEF Shape, TypeOK
<1>5. ASSUME NEW q \in Runs \ {r}
      PROVE  /\ promo'[q].pc = promo[q].pc /\ promo'[q].found = promo[q].found
             /\ promo'[q].todo = promo[q].todo /\ promo'[q].held = promo[q].held
             /\ promo'[q].now = promo[q].now /\ promo'[q].swept = promo[q].swept
             /\ promo'[q].alone <=> (promo[q].alone /\ ~Working(q))
  <2> DEFINE b == promo[q].alone /\ ~Working(q)
  <2>1. promo[q] \in Promotion /\ b \in BOOLEAN /\ promo'[q] = [promo[q] EXCEPT !.alone = b]
    BY <1>2, <1>4
  <2> HIDE DEF b
  <2>2. promo'[q].alone = b
    BY <2>1, AloneSet
  <2>3. /\ promo'[q].pc = promo[q].pc /\ promo'[q].found = promo[q].found
        /\ promo'[q].todo = promo[q].todo /\ promo'[q].held = promo[q].held
        /\ promo'[q].now = promo[q].now /\ promo'[q].swept = promo[q].swept
    BY <2>1, AloneSet
  <2> QED
    BY <2>2, <2>3 DEF b
<1>6. /\ promo'[r].pc = "staged" /\ promo'[r].found = promo[r].found
      /\ promo'[r].todo = promo[r].todo /\ promo'[r].held = promo[r].held
      /\ promo'[r].now = promo[r].now
      /\ promo'[r].alone <=> BusyRuns = {}
  BY <1>2, <1>3 DEF Promotion
<1> QED
  BY <1>4, <1>5, <1>6 DEF Stage, tableVars

\* The run that starts, and the others, one at a time.
LEMMA StageSelf ==
  ASSUME Shape, NEW r \in Runs, Stage(r)
  PROVE  /\ promo[r].pc = "idle" /\ promo'[r].pc = "staged"
         /\ promo'[r].alone <=> BusyRuns = {}
         /\ overlapped' <=> (overlapped \/ BusyRuns # {})
         /\ \A q \in Runs : q < r => promo[q].pc # "idle"
BY StageMoves

LEMMA StageBeside ==
  ASSUME Shape, NEW r \in Runs, Stage(r), NEW q \in Runs \ {r}
  PROVE  /\ promo'[q].pc = promo[q].pc
         /\ promo'[q].alone <=> (promo[q].alone /\ ~Working(q))
         /\ feed'[q] = feed[q]
BY StageMoves

LEMMA OtherMoves ==
  ASSUME Cleanup \/ Tick \/ UNCHANGED vars
  PROVE  UNCHANGED promo /\ UNCHANGED feed /\ UNCHANGED overlapped /\ UNCHANGED born
BY DEF Cleanup, StartCleanup, FindExpired, HardDelete, CleanupFails, Tick, vars, tableVars
-----------------------------------------------------------------------------
(***************************************************************************)
(* The cleanup                                                             *)
(***************************************************************************)
CutoffOK == cleaner.pc # "idle" => cleaner.cutoff + Retention <= clock

LEMMA CutoffStep ==
  ASSUME Shape, CutoffOK, [Next]_vars
  PROVE  CutoffOK'
<1>1. cleaner \in Cleaning /\ clock \in Nat /\ Retention \in Nat
  BY DEF Shape, TypeOK
<1>2. ASSUME NEW r \in Runs, Stage(r) \/ Promote(r) \/ Crash(r) PROVE CutoffOK'
  BY <1>2, StageMoves, TaskMoves DEF CutoffOK
<1>3. CASE StartCleanup
  BY <1>1, <1>3 DEF StartCleanup, CutoffOK
<1>4. CASE FindExpired \/ HardDelete
  <2>1. cleaner'.pc = "idle" \/ (cleaner.pc # "idle" /\ cleaner'.cutoff = cleaner.cutoff)
    <3>1. CASE FindExpired
      <4>1. cleaner.pc = "find"
            /\ \/ cleaner' = [pc |-> "idle", cutoff |-> 0, ids |-> {}]
               \/ \E ids : cleaner' = [cleaner EXCEPT !.pc = "delete", !.ids = ids]
        BY <3>1 DEF FindExpired
      <4>2. CASE cleaner' = [pc |-> "idle", cutoff |-> 0, ids |-> {}]
        BY <4>2
      <4>3. ASSUME NEW ids, cleaner' = [cleaner EXCEPT !.pc = "delete", !.ids = ids]
            PROVE  cleaner'.cutoff = cleaner.cutoff
        BY <1>1, <4>3 DEF Cleaning
      <4>4. cleaner.pc # "idle"
        BY <4>1
      <4> QED
        BY <4>1, <4>2, <4>3, <4>4
    <3>2. CASE HardDelete
      BY <1>1, <3>2 DEF HardDelete, Cleaning
    <3> QED
      BY <1>4, <3>1, <3>2
  <2> QED
    BY <1>4, <2>1 DEF FindExpired, HardDelete, CutoffOK
<1>5. CASE CleanupFails
  BY <1>5 DEF CleanupFails, CutoffOK
<1>6. CASE Tick
  BY <1>1, <1>6 DEF Tick, CutoffOK, Cleaning
<1>7. CASE UNCHANGED vars
  BY <1>7 DEF vars, CutoffOK
<1> QED
  BY <1>2, <1>3, <1>4, <1>5, <1>6, <1>7 DEF Next, Cleanup

\* A row of jobs, with its affiliate link and the saved jobs that refer to it,
\* only ever disappears when it has been inactive for longer than the provider
\* retains it, whatever promotions do between the cleanup's SELECT and DELETE.
THEOREM RowsVanishOnlyExpired == Spec => OnlyExpiredRowsVanish
<1>1. Init => CutoffOK
  BY DEF Init, CutoffOK
<1>2. ASSUME Shape, CutoffOK, [Next]_vars
      PROVE  [\A j \in Jobs : jobs[j] # NoRow /\ jobs'[j] = NoRow =>
                ~jobs[j].active /\ jobs[j].dead + Retention < clock]_vars
  <2> SUFFICES ASSUME NEW j \in Jobs, jobs[j] # NoRow, jobs'[j] = NoRow
               PROVE  ~jobs[j].active /\ jobs[j].dead + Retention < clock
    OBVIOUS
  <2>1. ASSUME NEW r \in Runs, CommitBatch(r), j \in Looked(r) PROVE FALSE
    BY <1>2, <2>1, CommitBatchRows
  <2>2. HardDelete
    BY <1>2, <2>1, RowStep DEF Touched
  <2>3. ~jobs[j].active /\ jobs[j].dead < cleaner.cutoff /\ cleaner.pc = "delete"
    BY <2>2, HardDeleteRows DEF HardDelete
  <2>4. jobs[j].dead \in Nat /\ cleaner.cutoff \in Int /\ clock \in Nat /\ Retention \in Nat
    BY <1>2, RowFields DEF Shape, TypeOK, Row, Cleaning
  <2> QED
    BY <1>2, <2>3, <2>4 DEF CutoffOK
<1> QED
  BY <1>1, <1>2, ShapeInit, ShapeStep, CutoffStep, PTL DEF Spec, OnlyExpiredRowsVanish
-----------------------------------------------------------------------------
(***************************************************************************)
(* Runs that nothing ran beside                                            *)
(***************************************************************************)
AloneOK(r) ==
  /\ promo[r].alone => /\ promo[r].pc \notin {"idle", "ended"}
                       /\ \A q \in Runs : q < r => ~Working(q)
                       /\ Working(r) => \A q \in Runs : q > r => promo[q].pc = "idle"
  /\ promo[r].pc # "idle" => \A q \in Runs : q < r => promo[q].pc # "idle"
  /\ Working(r) /\ ~overlapped => promo[r].alone

Solitude == \A r \in Runs : AloneOK(r)

\* While a run is alone and under way, no other task works.
LEMMA SoloRun ==
  ASSUME Shape, Solitude, NEW r \in Runs, promo[r].alone, Working(r),
         NEW q \in Runs \ {r}
  PROVE  ~Working(q)
<1>1. r \in Int /\ q \in Int
  BY DEF Runs
<1>2. q < r \/ q > r
  BY <1>1
<1> QED
  BY <1>2 DEF Solitude, AloneOK, Working

LEMMA SolitudeInit == Init => Solitude
BY RestType DEF Init, Solitude, AloneOK, Working

LEMMA SolitudeStep ==
  ASSUME Shape, Solitude, [Next]_vars
  PROVE  Solitude'
<1> Runs \subseteq Int
  BY DEF Runs
<1>1. ASSUME NEW s \in Runs, Stage(s), NEW r \in Runs PROVE AloneOK(r)'
  <2>1. AloneOK(r) /\ AloneOK(s)
    BY DEF Solitude
  <2>2. \A q \in Runs : q # s => (Working(q)' <=> Working(q))
    BY <1>1, StageMoves DEF Working
  <2>3. Working(s)' /\ ~Working(s)
    BY <1>1, StageMoves DEF Working
  <2>4. BusyRuns = {} <=> \A q \in Runs : ~Working(q)
    BY DEF BusyRuns
  <2>5. CASE r = s
    <3>1. \A q \in Runs : q > r => promo'[q].pc = "idle"
      <4>1. ASSUME NEW q \in Runs, q > r PROVE promo[q].pc = "idle"
        <5>1. AloneOK(q)
          BY DEF Solitude
        <5> QED
          BY <1>1, <2>5, <4>1, <5>1, StageSelf DEF AloneOK
      <4>2. ASSUME NEW q \in Runs, q > r PROVE promo'[q].pc = "idle"
        <5>1. q # s
          BY <2>5, <4>2
        <5> QED
          BY <1>1, <4>1, <4>2, <5>1, StageBeside
      <4> QED
        BY <4>2
    <3>2. promo'[r].alone => \A q \in Runs : q < r => ~Working(q)'
      <4>1. promo'[r].alone <=> BusyRuns = {}
        BY <1>1, <2>5, StageMoves
      <4>2. \A q \in Runs : q < r => q # s
        BY <2>5
      <4> QED
        BY <2>2, <2>4, <4>1, <4>2
    <3>3. ASSUME NEW q \in Runs, q < r PROVE promo'[q].pc # "idle"
      <4>1. q # s
        BY <2>5, <3>3
      <4>2. promo[q].pc # "idle"
        BY <1>1, <2>5, <3>3, StageSelf
      <4> QED
        BY <1>1, <4>1, <4>2, StageBeside
    <3>4. ~overlapped' => promo'[r].alone
      BY <1>1, <2>5, StageMoves
    <3> QED
      BY <1>1, <2>5, <3>1, <3>2, <3>3, <3>4, StageMoves DEF AloneOK
  <2>6. CASE r # s
    <3>1. promo'[r].pc = promo[r].pc /\ (promo'[r].alone <=> promo[r].alone /\ ~Working(r))
      BY <1>1, <2>6, StageBeside
    <3>2. promo'[r].alone => /\ promo'[r].pc \notin {"idle", "ended"}
                             /\ ~Working(r)'
      BY <2>1, <2>2, <2>6, <3>1 DEF AloneOK
    <3>3. promo'[r].alone => \A q \in Runs : q < r => ~Working(q)'
      <4>1. promo[r].pc # "idle" => ~(s < r)
        BY <1>1, <2>1, StageMoves DEF AloneOK
      <4> QED
        BY <2>1, <2>2, <3>1, <3>2, <4>1 DEF AloneOK
    <3>4. promo'[r].pc # "idle" => \A q \in Runs : q < r => promo'[q].pc # "idle"
      BY <1>1, <2>1, <3>1, StageMoves DEF AloneOK
    <3>5. Working(r)' => overlapped'
      BY <1>1, <2>2, <2>4, <2>6, StageMoves
    <3> QED
      BY <3>2, <3>3, <3>4, <3>5 DEF AloneOK
  <2> QED
    BY <2>5, <2>6
<1>2. ASSUME NEW s \in Runs, Promote(s) \/ Crash(s), NEW r \in Runs PROVE AloneOK(r)'
  <2>1. AloneOK(r) /\ AloneOK(s)
    BY DEF Solitude
  <2>2. Working(s) /\ overlapped' = overlapped /\ promo[s].pc # "idle"
    BY <1>2, TaskMoves DEF Working
  <2>3. \A q \in Runs \ {s} : promo'[q] = promo[q]
    BY <1>2, TaskMoves
  <2>4. \/ promo'[s].alone = promo[s].alone /\ promo'[s].pc \notin {"idle", "staged", "ended"}
        \/ promo'[s].alone = FALSE /\ promo'[s].pc = "ended"
    BY <1>2, TaskMoves, RestType
  <2>5. \A q \in Runs : (Working(q)' => Working(q)) /\ (promo'[q].pc = "idle" <=> promo[q].pc = "idle")
    BY <2>2, <2>3, <2>4 DEF Working
  <2>6. CASE r = s
    BY <2>1, <2>2, <2>4, <2>5, <2>6 DEF AloneOK, Working
  <2>7. CASE r # s
    BY <2>1, <2>2, <2>3, <2>5, <2>7 DEF AloneOK
  <2> QED
    BY <2>6, <2>7
<1>3. CASE Cleanup \/ Tick \/ UNCHANGED vars
  BY <1>3, OtherMoves DEF Solitude, AloneOK, Working
<1> QED
  BY <1>1, <1>2, <1>3 DEF Next, Solitude
-----------------------------------------------------------------------------
(***************************************************************************)
(* What a run has loaded, stamped and deactivated                          *)
(***************************************************************************)
\* What a lone run has loaded is what the row still holds.
LoadedOK(r) ==
  promo[r].alone =>
    \A j \in Jobs : promo[r].found[j] \in Loaded /\ jobs[j] # NoRow
                    /\ jobs[j].gen = promo[r].found[j].gen =>
      jobs[j].hash = promo[r].found[j].hash /\ jobs[j].cols = promo[r].found[j].cols

\* What a lone run has promoted carries its stamp.
SeenOK(r) ==
  promo[r].alone /\ promo[r].pc \in {"batch", "links", "sweep", "backfill"} =>
    \A j \in StagedJobs(r) \ promo[r].todo : jobs[j] # NoRow => jobs[j].seen = r

\* What a run has deactivated does not carry its stamp.
HeldStale(r) == \A j \in promo[r].held : jobs[j].seen # r

Marked == \A r \in Runs : LoadedOK(r) /\ SeenOK(r) /\ HeldStale(r)

LEMMA MarkedInit == Init => Marked
BY RestType DEF Init, Marked, LoadedOK, SeenOK, HeldStale

\* A task whose state of a batch does not change, beside a step that leaves
\* stamps and contents alone.
Kept(j) == jobs'[j] = jobs[j] \/ Touched(j) \/ jobs'[j] = NoRow

LEMMA MarkedKept ==
  ASSUME Shape, Shape', NEW r \in Runs, LoadedOK(r), SeenOK(r), HeldStale(r),
         \A j \in Jobs : Kept(j), feed'[r] = feed[r],
         promo'[r].alone => promo[r].alone,
         promo'[r].found = promo[r].found, promo'[r].held \subseteq promo[r].held,
         promo'[r].todo = promo[r].todo,
         promo'[r].pc \in {"batch", "links", "sweep", "backfill"} =>
           promo[r].pc \in {"batch", "links", "sweep", "backfill"}
  PROVE  LoadedOK(r)' /\ SeenOK(r)' /\ HeldStale(r)'
<1>1. LoadedOK(r)'
  BY DEF LoadedOK, Kept, Touched
<1>2. StagedJobs(r)' = StagedJobs(r)
  BY DEF StagedJobs
<1>3. SeenOK(r)'
  BY <1>2 DEF SeenOK, Kept, Touched, StagedJobs
<1>4. HeldStale(r)'
  <2>1. ASSUME NEW j \in promo'[r].held PROVE jobs'[j].seen # r
    <3>1. j \in Jobs /\ jobs[j].seen # r
      BY DEF HeldStale, Shape, HeldOK, ActiveJobs
    <3>2. jobs'[j] # NoRow
      BY DEF Shape, HeldOK, ActiveJobs, Active
    <3> QED
      BY <3>1, <3>2 DEF Kept, Touched
  <2> QED
    BY <2>1 DEF HeldStale
<1> QED
  BY <1>1, <1>3, <1>4

\* The task of another run moves.
LEMMA MarkedOther ==
  ASSUME Shape, Shape', Solitude, NEW r \in Runs, LoadedOK(r), SeenOK(r), HeldStale(r),
         [Next]_vars, NEW s \in Runs \ {r}, Promote(s) \/ Crash(s)
  PROVE  LoadedOK(r)' /\ SeenOK(r)' /\ HeldStale(r)'
<1>1. promo'[r] = promo[r] /\ feed' = feed /\ Working(s)
  BY TaskMoves
<1>2. CASE promo[r].alone
  <2>1. ~Working(r)
    BY <1>1, <1>2, SoloRun
  <2>2. \A j \in Jobs : promo[r].found[j] = Unread
    BY <2>1 DEF Shape, TaskOK, Working
  <2>3. promo[r].held = {}
    BY <2>1 DEF Shape, TaskOK, Working
  <2> QED
    BY <1>1, <2>1, <2>2, <2>3 DEF LoadedOK, SeenOK, HeldStale, Working
<1>3. CASE ~promo[r].alone
  <2>1. ASSUME NEW j \in promo[r].held PROVE jobs'[j].seen # r
    <3>1. j \in Jobs /\ jobs[j].seen # r /\ jobs'[j] # NoRow
      <4>1. j \in promo'[r].held
        BY <1>1
      <4> QED
        BY <4>1 DEF HeldStale, Shape, HeldOK, ActiveJobs, Active
    <3>2. \A q \in Runs : CommitBatch(q) => j \notin Looked(q)
      <4>1. ASSUME NEW q \in Runs, CommitBatch(q) PROVE j \notin Looked(q)
        <5>1. promo[r].held # {} => promo[r].pc = "backfill"
          BY DEF Shape, TaskOK
        <5>2. q # r
          BY <4>1, <5>1 DEF CommitBatch, BatchReady
        <5> QED
          BY <4>1, <5>2, CommitBatchRows
      <4> QED
        BY <4>1
    <3> QED
      BY <3>1, <3>2, RowStep DEF Touched
  <2> QED
    BY <1>1, <1>3, <2>1 DEF LoadedOK, SeenOK, HeldStale
<1> QED
  BY <1>2, <1>3

\* The run's own task moves.
LEMMA MarkedOwn ==
  ASSUME Shape, Shape', NEW r \in Runs, LoadedOK(r), SeenOK(r), HeldStale(r),
         Promote(r) \/ Crash(r)
  PROVE  LoadedOK(r)' /\ SeenOK(r)' /\ HeldStale(r)'
<1>1. promo \in [Runs -> Promotion] /\ promo[r] \in Promotion /\ feed' = feed
  BY TaskMoves DEF Shape, TypeOK
<1>2. TaskOK(promo[r], StagedJobs(r)) /\ StagedJobs(r)' = StagedJobs(r)
  BY <1>1 DEF Shape, StagedJobs
<1>3. TaskOK(promo'[r], StagedJobs(r)) /\ promo'[r] \in Promotion
  BY <1>2 DEF Shape, TaskOK, TypeOK
<1>4. CASE AbortAnomalous(r) \/ MarkFailed(r) \/ Crash(r)
  <2>1. promo'[r] = Rest("ended")
    BY <1>1, <1>4 DEF AbortAnomalous, MarkFailed, Crash
  <2> QED
    BY <2>1, RestType DEF LoadedOK, SeenOK, HeldStale
<1>5. CASE BeginPromotion(r)
  <2>1. /\ promo'[r].todo = StagedJobs(r) /\ promo'[r].found = promo[r].found
        /\ promo'[r].held = promo[r].held /\ promo[r].pc = "staged" /\ jobs' = jobs
        /\ promo'[r].alone = promo[r].alone
    BY <1>1, <1>5 DEF BeginPromotion, Promotion, tableVars
  <2> QED
    BY <1>2, <2>1 DEF LoadedOK, SeenOK, HeldStale
<1>6. ASSUME NEW j \in Jobs, LookUp(r, j) PROVE LoadedOK(r)' /\ SeenOK(r)' /\ HeldStale(r)'
  <2> DEFINE row == IF jobs[j] = NoRow THEN NoRow
                    ELSE [gen |-> jobs[j].gen, hash |-> jobs[j].hash, cols |-> jobs[j].cols]
  <2>1. /\ promo'[r] = [promo[r] EXCEPT !.found = [@ EXCEPT ![j] = row]] /\ jobs' = jobs
        /\ promo[r].pc = "batch"
    BY <1>1, <1>6 DEF LookUp, tableVars
  <2>2. /\ promo'[r].found = [promo[r].found EXCEPT ![j] = row]
        /\ promo'[r].todo = promo[r].todo /\ promo'[r].held = promo[r].held
        /\ promo'[r].pc = promo[r].pc /\ promo'[r].alone = promo[r].alone
    BY <1>1, <2>1 DEF Promotion
  <2>3. LoadedOK(r)'
    BY <1>1, <2>1, <2>2 DEF LoadedOK, Promotion
  <2> QED
    BY <1>2, <2>1, <2>2, <2>3 DEF SeenOK, HeldStale
<1>7. CASE CommitBatch(r)
  <2>1. /\ promo'[r].todo = promo[r].todo \ Looked(r) /\ promo'[r].held = promo[r].held
        /\ promo'[r].found = [j \in Jobs |-> Unread] /\ promo[r].pc = "batch"
        /\ promo'[r].alone = promo[r].alone
    BY <1>1, <1>7 DEF CommitBatch, BatchReady, Promotion
  <2>2. promo'[r].held = {}
    BY <1>2, <2>1 DEF TaskOK
  <2>3. LoadedOK(r)'
    BY <2>1 DEF LoadedOK
  <2>4. SeenOK(r)'
    <3>1. ASSUME promo[r].alone, NEW j \in StagedJobs(r) \ promo'[r].todo, jobs'[j] # NoRow
          PROVE  jobs'[j].seen = r
      <4>1. CASE j \in Looked(r)
        BY <1>7, <4>1, CommitBatchRows
      <4>2. CASE j \notin Looked(r)
        <5>1. j \in Jobs /\ j \notin promo[r].todo
          BY <2>1, <3>1, <4>2 DEF StagedJobs
        <5>2. jobs'[j] = jobs[j]
          BY <1>7, <4>2, <5>1, CommitBatchRows
        <5> QED
          BY <2>1, <3>1, <5>1, <5>2 DEF SeenOK
      <4> QED
        BY <4>1, <4>2
    <3> QED
      BY <1>2, <2>1, <3>1 DEF SeenOK
  <2> QED
    BY <2>2, <2>3, <2>4 DEF HeldStale
<1>8. CASE GenerateLinks(r) \/ LinksFail(r)
  <2>1. /\ promo'[r].todo = promo[r].todo /\ promo'[r].held = promo[r].held
        /\ promo'[r].found = promo[r].found /\ promo[r].pc = "links"
        /\ promo'[r].alone = promo[r].alone
    BY <1>1, <1>8 DEF GenerateLinks, LinksFail, Promotion
  <2>2. \A j \in Jobs : Kept(j)
    <3>1. CASE GenerateLinks(r)
      BY <3>1, GenerateLinksRows DEF Kept
    <3>2. CASE LinksFail(r)
      BY <3>2 DEF LinksFail, tableVars, Kept
    <3> QED
      BY <1>8, <3>1, <3>2
  <2> QED
    BY <1>1, <2>1, <2>2, MarkedKept
<1>9. CASE DeactivateStale(r)
  <2>1. /\ promo'[r].todo = promo[r].todo /\ promo'[r].held = Stale(r)
        /\ promo'[r].found = promo[r].found /\ promo[r].pc = "sweep"
        /\ promo'[r].alone = promo[r].alone /\ jobs' = jobs
    BY <1>1, <1>9 DEF DeactivateStale, Promotion, tableVars
  <2>2. HeldStale(r)'
    BY <2>1 DEF HeldStale, Stale
  <2> QED
    BY <1>2, <2>1, <2>2 DEF LoadedOK, SeenOK
<1>10. CASE Backfill(r) \/ BackfillFails(r) \/ FinishPromotion(r)
  <2>1. promo'[r].pc \in {"finish", "promoted"}
    <3>1. CASE Backfill(r)
      BY <1>1, <3>1 DEF Backfill, Promotion
    <3>2. CASE BackfillFails(r)
      BY <1>1, <3>2 DEF BackfillFails, Promotion
    <3>3. CASE FinishPromotion(r)
      BY <1>1, <3>3, RestType DEF FinishPromotion, Promotion
    <3> QED
      BY <1>10, <3>1, <3>2, <3>3
  <2>2. promo'[r].held = {} /\ \A j \in Jobs : promo'[r].found[j] = Unread
    BY <1>3, <2>1 DEF TaskOK
  <2> QED
    BY <2>1, <2>2 DEF LoadedOK, SeenOK, HeldStale
<1> QED
  BY <1>4, <1>5, <1>6, <1>7, <1>8, <1>9, <1>10 DEF Promote

LEMMA MarkedStep ==
  ASSUME Shape, Shape', Solitude, Marked, [Next]_vars
  PROVE  Marked'
<1> SUFFICES ASSUME NEW r \in Runs PROVE LoadedOK(r)' /\ SeenOK(r)' /\ HeldStale(r)'
  BY DEF Marked
<1>0. LoadedOK(r) /\ SeenOK(r) /\ HeldStale(r)
  BY DEF Marked
<1>1. ASSUME NEW s \in Runs, Stage(s) PROVE LoadedOK(r)' /\ SeenOK(r)' /\ HeldStale(r)'
  <2>1. CASE s = r
    <3>1. /\ \A j \in Jobs : promo'[r].found[j] = Unread
          /\ promo'[r].held = {} /\ promo'[r].pc = "staged"
      BY <1>1, <2>1, StageMoves DEF Shape, TaskOK
    <3> QED
      BY <3>1 DEF LoadedOK, SeenOK, HeldStale
  <2>2. CASE s # r
    <3>1. \A j \in Jobs : Kept(j)
      BY <1>1, StageMoves DEF Kept
    <3> QED
      BY <1>0, <1>1, <2>2, <3>1, StageMoves, MarkedKept
  <2> QED
    BY <2>1, <2>2
<1>2. ASSUME NEW s \in Runs, Promote(s) \/ Crash(s)
      PROVE  LoadedOK(r)' /\ SeenOK(r)' /\ HeldStale(r)'
  BY <1>0, <1>2, MarkedOther, MarkedOwn
<1>3. CASE Cleanup \/ Tick \/ UNCHANGED vars
  <2>1. \A j \in Jobs : Kept(j)
    <3>1. \A q \in Runs : CommitBatch(q) => promo'[q] # promo[q]
      <4>1. ASSUME NEW q \in Runs, CommitBatch(q) PROVE promo'[q] # promo[q]
        <5>1. promo'[q].found = [j \in Jobs |-> Unread]
          <6>1. promo[q] \in Promotion /\ promo \in [Runs -> Promotion]
            BY DEF Shape, TypeOK
          <6> QED
            BY <4>1, <6>1 DEF CommitBatch, Promotion
        <5>2. \E j \in Jobs : promo[q].found[j] # Unread
          BY <4>1 DEF CommitBatch, BatchReady, Looked
        <5> QED
          BY <5>1, <5>2
      <4> QED
        BY <4>1
    <3> QED
      BY <1>3, <3>1, RowStep, OtherMoves DEF Kept
  <2> QED
    BY <1>0, <1>3, <2>1, OtherMoves, MarkedKept
<1> QED
  BY <1>1, <1>2, <1>3 DEF Next

LEMMA Sweep == Shape /\ Marked => SweepSparesOwnFeed
<1> SUFFICES ASSUME Shape, Marked, NEW r \in Runs, promo[r].alone,
                    NEW j \in promo[r].held, j \in StagedJobs(r)
             PROVE  FALSE
  BY DEF SweepSparesOwnFeed
<1>1. promo[r].pc = "backfill" /\ promo[r].todo = {} /\ jobs[j] # NoRow
  BY DEF Shape, TaskOK, HeldOK, ActiveJobs, Active
<1>2. jobs[j].seen = r /\ jobs[j].seen # r
  BY <1>1 DEF Marked, SeenOK, HeldStale
<1> QED
  BY <1>2

\* The structure, the order of runs and their marks hold throughout.
LEMMA Marks == Spec => [](Shape /\ Solitude /\ Marked)
<1>1. Init => Shape /\ Solitude /\ Marked
  BY ShapeInit, SolitudeInit, MarkedInit
<1>2. Shape /\ Solitude /\ Marked /\ [Next]_vars => (Shape /\ Solitude /\ Marked)'
  BY ShapeStep, SolitudeStep, MarkedStep
<1> QED
  BY <1>1, <1>2, PTL DEF Spec

\* A run that no other import of the provider overlaps never soft-deletes a job
\* its own feed contains, whatever the cleanup, earlier failures and crashes
\* have left in the table.
THEOREM LoneSweepSparesOwnFeed == Spec => []SweepSparesOwnFeed
BY Marks, Sweep, PTL
-----------------------------------------------------------------------------
(***************************************************************************)
(* The content of rows                                                     *)
(***************************************************************************)
\* No row carries the stamp of a run still to come.
Stamped == \A j \in Jobs : jobs[j] # NoRow => promo[jobs[j].seen].pc # "idle"

LEMMA StampedStep ==
  ASSUME Shape, Stamped, [Next]_vars
  PROVE  Stamped'
<1> SUFFICES ASSUME NEW j \in Jobs, jobs'[j] # NoRow
             PROVE  promo'[jobs'[j].seen].pc # "idle"
  BY DEF Stamped
<1>1. \A r \in Runs : promo[r].pc # "idle" => promo'[r].pc # "idle"
  <2>1. ASSUME NEW s \in Runs, Stage(s), NEW r \in Runs, promo[r].pc # "idle"
        PROVE  promo'[r].pc # "idle"
    BY <2>1, StageMoves
  <2>2. ASSUME NEW s \in Runs, Promote(s) \/ Crash(s), NEW r \in Runs, promo[r].pc # "idle"
        PROVE  promo'[r].pc # "idle"
    BY <2>2, TaskMoves, RestType
  <2> QED
    BY <2>1, <2>2, OtherMoves DEF Next
<1>2. CASE jobs'[j] = jobs[j] \/ Touched(j)
  <2>1. jobs[j] # NoRow /\ jobs'[j].seen = jobs[j].seen
    BY <1>2 DEF Touched
  <2>2. jobs[j].seen \in Runs
    BY <2>1, RowFields DEF Shape, Row
  <2> QED
    BY <1>1, <2>1, <2>2 DEF Stamped
<1>3. ASSUME NEW r \in Runs, CommitBatch(r), j \in Looked(r) PROVE promo'[jobs'[j].seen].pc # "idle"
  <2>1. jobs'[j].seen = r
    BY <1>3, CommitBatchRows
  <2>2. promo[r].pc # "idle"
    BY <1>3 DEF CommitBatch, BatchReady
  <2> QED
    BY <1>1, <2>1, <2>2
<1> QED
  BY <1>2, <1>3, RowStep

\* A batch of a lone run writes rows that show its snapshot.
LEMMA LoneBatch ==
  ASSUME Shape, Marked, NEW r \in Runs, promo[r].alone, CommitBatch(r), NEW j \in Looked(r)
  PROVE  /\ jobs'[j].hash = feed[r][j]
         /\ (jobs[j] # NoRow => jobs[j].cols = jobs[j].hash) => jobs'[j].cols = feed[r][j]
<1>1. /\ j \in Jobs /\ promo[r].found[j] # Unread /\ feed[r][j] # Absent
      /\ ~Conflict(r, j) /\ jobs'[j] = PromoteRow(r, j)
  BY CommitBatchRows DEF Looked, CommitBatch
<1>2. promo[r].found[j] \in Loaded \cup {NoRow} /\ feed[r][j] \in [Columns -> Values]
  BY <1>1 DEF Shape, TypeOK, Promotion
<1>3. CASE promo[r].found[j] = NoRow
  BY <1>1, <1>3 DEF PromoteRow, CreateJob
<1>4. CASE promo[r].found[j] # NoRow
  <2>1. jobs[j] \in Row /\ promo[r].found[j] \in Loaded /\ jobs[j].gen = promo[r].found[j].gen
    BY <1>1, <1>2, <1>4, RowFields DEF Conflict, Shape
  <2>2. jobs[j].hash = promo[r].found[j].hash /\ jobs[j].cols = promo[r].found[j].cols
    BY <1>1, <2>1 DEF Marked, LoadedOK
  <2>3. CASE promo[r].found[j].hash # feed[r][j]
    <3>1. jobs'[j] = UpdateJob(r, j)
      BY <1>1, <1>4, <2>3 DEF PromoteRow
    <3>2. [c \in Columns |-> IF feed[r][j][c] # promo[r].found[j].cols[c]
                             THEN feed[r][j][c] ELSE jobs[j].cols[c]] = feed[r][j]
      BY <1>2, <2>2
    <3> QED
      BY <2>1, <3>1, <3>2 DEF UpdateJob, Row
  <2>4. CASE promo[r].found[j].hash = feed[r][j]
    <3>1. jobs'[j] = MarkJobSeen(r, j)
      BY <1>1, <1>4, <2>4 DEF PromoteRow
    <3> QED
      BY <2>1, <2>2, <2>4, <3>1 DEF MarkJobSeen, Row
  <2> QED
    BY <2>3, <2>4
<1> QED
  BY <1>3, <1>4

LEMMA ContentStep ==
  ASSUME Shape, Solitude, Marked, Stamped, RowShowsLastSeenSnapshot, [Next]_vars
  PROVE  RowShowsLastSeenSnapshot'
<1> SUFFICES ASSUME ~overlapped', NEW j \in Jobs, jobs'[j] # NoRow
             PROVE  /\ jobs'[j].hash = feed'[jobs'[j].seen][j]
                    /\ jobs'[j].cols = jobs'[j].hash
  BY DEF RowShowsLastSeenSnapshot
<1>1. ~overlapped /\ \A r \in Runs : promo[r].pc # "idle" => feed'[r] = feed[r]
  BY StageMoves, TaskMoves, OtherMoves DEF Next
<1>2. CASE jobs'[j] = jobs[j] \/ Touched(j)
  <2>1. /\ jobs[j] # NoRow /\ jobs'[j].seen = jobs[j].seen
        /\ jobs'[j].hash = jobs[j].hash /\ jobs'[j].cols = jobs[j].cols
    BY <1>2 DEF Touched
  <2>2. jobs[j].seen \in Runs /\ promo[jobs[j].seen].pc # "idle"
    BY <2>1, RowFields DEF Shape, Row, Stamped
  <2> QED
    BY <1>1, <2>1, <2>2 DEF RowShowsLastSeenSnapshot
<1>3. ASSUME NEW r \in Runs, CommitBatch(r), j \in Looked(r)
      PROVE  /\ jobs'[j].hash = feed'[jobs'[j].seen][j]
             /\ jobs'[j].cols = jobs'[j].hash
  <2>1. promo[r].alone /\ feed' = feed
    BY <1>1, <1>3 DEF Solitude, AloneOK, Working, CommitBatch, BatchReady
  <2>2. jobs'[j].seen = r
    BY <1>3, CommitBatchRows
  <2>3. jobs[j] # NoRow => jobs[j].cols = jobs[j].hash
    BY <1>1 DEF RowShowsLastSeenSnapshot
  <2> QED
    BY <1>3, <2>1, <2>2, <2>3, LoneBatch
<1> QED
  BY <1>2, <1>3, RowStep

\* While imports of the provider do not overlap, a row shows, in its hash and in
\* every column, what the run named in last_seen_import_run_id sent, although the
\* unit of work writes only the columns that differ from what it had loaded and
\* any batch may fail or be the last one before a crash.
THEOREM RowsShowSnapshots == Spec => []RowShowsLastSeenSnapshot
<1>1. Init => Stamped /\ RowShowsLastSeenSnapshot
  BY DEF Init, Stamped, RowShowsLastSeenSnapshot
<1>2. /\ Shape /\ Solitude /\ Marked /\ Stamped /\ RowShowsLastSeenSnapshot
      /\ [Next]_vars
      => (Stamped /\ RowShowsLastSeenSnapshot)'
  BY StampedStep, ContentStep
<1> QED
  BY <1>1, <1>2, Marks, PTL DEF Spec
-----------------------------------------------------------------------------
(***************************************************************************)
(* Time                                                                    *)
(***************************************************************************)
TimeOK ==
  /\ \A j \in Jobs : jobs[j] # NoRow => jobs[j].at <= clock
  /\ \A r \in Runs : /\ promo[r].now <= clock
                     /\ promo[r].alone /\ Working(r) /\ promo[r].pc # "staged" =>
                          \A j \in Jobs : jobs[j] # NoRow => jobs[j].at <= promo[r].now

LEMMA ClockStep ==
  ASSUME Shape, [Next]_vars
  PROVE  clock \in Nat /\ clock' \in Nat /\ clock <= clock'
<1>1. clock \in Nat
  BY DEF Shape, TypeOK
<1>2. clock' = clock \/ clock' = clock + 1
  <2>1. ASSUME NEW r \in Runs, Stage(r) \/ Promote(r) \/ Crash(r) PROVE clock' = clock
    BY <2>1, StageMoves, TaskMoves
  <2> QED
    BY <2>1 DEF Next, Cleanup, StartCleanup, FindExpired, HardDelete, CleanupFails, Tick, vars
<1> QED
  BY <1>1, <1>2

LEMMA NowMoves ==
  ASSUME Shape, NEW r \in Runs, Promote(r) \/ Crash(r)
  PROVE  \/ promo'[r].now = promo[r].now /\ promo[r].pc # "staged"
         \/ promo'[r].now = clock /\ promo[r].pc = "staged" /\ jobs' = jobs
         \/ promo'[r].now = 0 /\ ~Working(r)'
<1>1. promo \in [Runs -> Promotion] /\ promo[r] \in Promotion
  BY DEF Shape, TypeOK
<1>2. CASE AbortAnomalous(r) \/ MarkFailed(r) \/ Crash(r)
  BY <1>1, <1>2 DEF AbortAnomalous, MarkFailed, Crash, Rest, Working
<1>3. CASE BeginPromotion(r)
  BY <1>1, <1>3 DEF BeginPromotion, tableVars, Promotion
<1>4. CASE LinksFail(r)
  BY <1>1, <1>4 DEF LinksFail, Promotion
<1>5. CASE \E j \in Jobs : LookUp(r, j)
  BY <1>1, <1>5 DEF LookUp, Promotion
<1>6. CASE CommitBatch(r)
  BY <1>1, <1>6 DEF CommitBatch, BatchReady, Promotion
<1>7. CASE GenerateLinks(r)
  BY <1>1, <1>7 DEF GenerateLinks, Promotion
<1>8. CASE DeactivateStale(r) \/ BackfillFails(r)
  BY <1>1, <1>8 DEF DeactivateStale, BackfillFails, Promotion
<1>9. CASE Backfill(r)
  BY <1>1, <1>9 DEF Backfill, Promotion
<1>10. CASE FinishPromotion(r)
  BY <1>1, <1>10, RestType DEF FinishPromotion, Rest, Working
<1> QED
  BY <1>2, <1>3, <1>4, <1>5, <1>6, <1>7, <1>8, <1>9, <1>10 DEF Promote

LEMMA RowTime ==
  ASSUME Shape, TimeOK, [Next]_vars, NEW j \in Jobs, jobs'[j] # NoRow
  PROVE  \/ jobs[j] # NoRow /\ jobs'[j].at = jobs[j].at
         \/ \E r \in Runs : CommitBatch(r) /\ jobs'[j].at = promo[r].now
<1>1. CASE jobs'[j] = jobs[j] \/ Touched(j)
  BY <1>1 DEF Touched
<1>2. ASSUME NEW r \in Runs, CommitBatch(r), j \in Looked(r)
      PROVE  jobs'[j].at = promo[r].now
  BY <1>2, CommitBatchRows
<1> QED
  BY <1>1, <1>2, RowStep

LEMMA TimeStep ==
  ASSUME Shape, Shape', Solitude, TimeOK, [Next]_vars
  PROVE  TimeOK'
<1>1. clock \in Nat /\ clock' \in Nat /\ clock <= clock'
  BY ClockStep
<1>2. \A r \in Runs : promo[r].now \in Nat /\ promo'[r].now \in Nat
  BY DEF Shape, TypeOK, Promotion
<1>3. \A j \in Jobs : /\ jobs[j] # NoRow => jobs[j].at \in Nat
                      /\ jobs'[j] # NoRow => jobs'[j].at \in Nat
  BY DEF Shape, TypeOK, Row
<1>4. ASSUME NEW j \in Jobs, jobs'[j] # NoRow PROVE jobs'[j].at <= clock'
  <2>1. jobs'[j].at <= clock
    BY <1>4, RowTime DEF TimeOK
  <2> QED
    BY <1>1, <1>3, <1>4, <2>1
<1>5. ASSUME NEW r \in Runs PROVE promo'[r].now <= clock'
  <2>1. promo'[r].now = promo[r].now \/ promo'[r].now = clock \/ promo'[r].now = 0
    BY StageMoves, TaskMoves, NowMoves, OtherMoves DEF Next
  <2>2. promo'[r].now <= clock
    BY <1>1, <2>1 DEF TimeOK
  <2> QED
    BY <1>1, <1>2, <2>2
<1>6. ASSUME NEW r \in Runs, promo'[r].alone, Working(r)', promo'[r].pc # "staged",
             NEW j \in Jobs, jobs'[j] # NoRow
      PROVE  jobs'[j].at <= promo'[r].now
  <2>1. ASSUME NEW s \in Runs, Stage(s) PROVE jobs'[j].at <= promo'[r].now
    <3>1. r # s /\ promo[r].alone /\ Working(r) /\ promo[r].pc # "staged"
      BY <1>6, <2>1, StageMoves DEF Working
    <3> QED
      BY <1>6, <2>1, <3>1, StageMoves DEF TimeOK
  <2>2. ASSUME Promote(r) \/ Crash(r) PROVE jobs'[j].at <= promo'[r].now
    <3>1. Working(r) /\ promo[r].alone
      BY <1>6, <2>2, TaskMoves, RestType DEF Working
    <3>2. CASE promo[r].pc # "staged"
      <4>1. promo'[r].now = promo[r].now
        BY <1>6, <2>2, <3>2, NowMoves
      <4>2. \A s \in Runs : CommitBatch(s) => s = r
        BY <3>1, SoloRun DEF CommitBatch, BatchReady, Working
      <4>3. jobs'[j].at <= promo[r].now
        BY <1>2, <1>6, <3>1, <3>2, <4>2, RowTime DEF TimeOK
      <4> QED
        BY <4>1, <4>3
    <3>3. CASE promo[r].pc = "staged"
      BY <1>6, <2>2, <3>3, NowMoves DEF TimeOK
    <3> QED
      BY <3>2, <3>3
  <2>3. ASSUME NEW s \in Runs \ {r}, Promote(s) \/ Crash(s) PROVE FALSE
    <3>1. promo'[r] = promo[r] /\ Working(s)
      BY <2>3, TaskMoves
    <3> QED
      BY <1>6, <3>1, SoloRun DEF Working
  <2>4. CASE Cleanup \/ Tick \/ UNCHANGED vars
    <3>1. promo' = promo /\ promo[r].alone /\ Working(r) /\ promo[r].pc # "staged"
      BY <1>6, <2>4, OtherMoves DEF Working
    <3>2. jobs'[j] = jobs[j]
      BY <1>6, <2>4, HardDeleteRows
         DEF Cleanup, StartCleanup, FindExpired, CleanupFails, Tick, vars, tableVars
    <3> QED
      BY <1>6, <3>1, <3>2 DEF TimeOK
  <2> QED
    BY <2>1, <2>2, <2>3, <2>4 DEF Next
<1> QED
  BY <1>4, <1>5, <1>6 DEF TimeOK

\* While imports of the provider do not overlap, the last_imported_at and the last
\* seen run of a row only advance, though each promotion reads the clock once,
\* before it waits for anything.
THEOREM TimestampsOnlyAdvance == Spec => TimestampsAdvance
<1>1. Init => TimeOK /\ Stamped
  BY RestType DEF Init, TimeOK, Stamped, Rest
<1>2. ASSUME Shape, Solitude, Stamped, TimeOK, [Next]_vars
      PROVE  [~overlapped' => \A j \in Jobs :
                jobs[j] # NoRow /\ jobs'[j] # NoRow /\ jobs'[j].gen = jobs[j].gen =>
                  jobs'[j].at >= jobs[j].at /\ jobs'[j].seen >= jobs[j].seen]_vars
  <2> SUFFICES ASSUME ~overlapped', NEW j \in Jobs, jobs[j] # NoRow, jobs'[j] # NoRow
               PROVE  jobs'[j].at >= jobs[j].at /\ jobs'[j].seen >= jobs[j].seen
    OBVIOUS
  <2>1. jobs[j].at \in Int /\ jobs[j].seen \in Runs /\ Runs \subseteq Int
    <3>1. jobs[j] \in Row
      BY <1>2, RowFields DEF Shape
    <3> QED
      BY <3>1 DEF Row, Runs
  <2>2. CASE jobs'[j] = jobs[j] \/ Touched(j)
    <3>1. jobs'[j].at = jobs[j].at /\ jobs'[j].seen = jobs[j].seen
      BY <2>2 DEF Touched
    <3>2. jobs[j].seen \in Int
      BY <2>1
    <3> QED
      BY <2>1, <3>1, <3>2
  <2>3. ASSUME NEW r \in Runs, CommitBatch(r), j \in Looked(r)
        PROVE  jobs'[j].at >= jobs[j].at /\ jobs'[j].seen >= jobs[j].seen
    <3>1. promo[r].pc = "batch" /\ Working(r) /\ ~overlapped
      BY <2>3 DEF CommitBatch, BatchReady, Working
    <3>2. promo[r].alone
      BY <1>2, <3>1 DEF Solitude, AloneOK
    <3>3. jobs'[j].at = promo[r].now /\ jobs'[j].seen = r
      BY <1>2, <2>3, CommitBatchRows
    <3>4. jobs[j].at <= promo[r].now
      BY <1>2, <3>1, <3>2 DEF TimeOK
    <3>5. ~(jobs[j].seen > r)
      BY <1>2, <2>1, <3>1, <3>2 DEF Solitude, AloneOK, Stamped
    <3>6. promo[r].now \in Int
      BY <1>2 DEF Shape, TypeOK, Promotion
    <3>7. r \in Int /\ jobs[j].seen \in Int
      BY <2>1
    <3> QED
      BY <2>1, <3>3, <3>4, <3>5, <3>6, <3>7
  <2> QED
    BY <1>2, <2>2, <2>3, RowStep
<1>3. /\ Shape /\ Shape' /\ Solitude /\ Stamped /\ TimeOK /\ [Next]_vars
      => (TimeOK /\ Stamped)'
  BY TimeStep, StampedStep
<1> QED
  BY <1>1, <1>2, <1>3, Marks, PTL DEF Spec, TimestampsAdvance
-----------------------------------------------------------------------------
(***************************************************************************)
(* What a finished promotion leaves                                        *)
(***************************************************************************)
\* Rows with the stamp of a lone run have the content it sent.
HashOK ==
  \A j \in Jobs : jobs[j] # NoRow /\ promo[jobs[j].seen].alone =>
    jobs[j].hash = feed[jobs[j].seen][j]

\* Between the sweep's UPDATE and its commit, what it spares carries its stamp.
SparedOK(r) ==
  promo[r].alone /\ promo[r].pc = "backfill" =>
    \A j \in Jobs \ promo[r].held : Active(j) => jobs[j].seen = r

DoneOK(r) ==
  /\ promo[r].swept => promo[r].pc \in {"finish", "promoted"}
  /\ Settled(r) =>
       \A j \in Jobs : jobs[j] # NoRow =>
         /\ jobs[j].active \/ j \in StagedJobs(r) => jobs[j].seen = r
         /\ jobs[j].active /\ Cardinality(Jobs) <= LinkLimit => jobs[j].link

Repaired == \A r \in Runs : SparedOK(r) /\ DoneOK(r)

LEMMA HashStep ==
  ASSUME Shape, Marked, Stamped, HashOK, [Next]_vars
  PROVE  HashOK'
<1> SUFFICES ASSUME NEW j \in Jobs, jobs'[j] # NoRow, promo'[jobs'[j].seen].alone
             PROVE  jobs'[j].hash = feed'[jobs'[j].seen][j]
  BY DEF HashOK
<1>1. ASSUME NEW r \in Runs, promo[r].pc # "idle", promo'[r].alone
      PROVE  feed'[r] = feed[r] /\ promo[r].alone
  BY <1>1, StageMoves, TaskMoves, OtherMoves, RestType DEF Next
<1>2. CASE jobs'[j] = jobs[j] \/ Touched(j)
  <2>1. jobs[j] # NoRow /\ jobs'[j].seen = jobs[j].seen /\ jobs'[j].hash = jobs[j].hash
    BY <1>2 DEF Touched
  <2>2. jobs[j].seen \in Runs /\ promo[jobs[j].seen].pc # "idle"
    BY <2>1, RowFields DEF Shape, Row, Stamped
  <2> QED
    BY <1>1, <2>1, <2>2 DEF HashOK
<1>3. ASSUME NEW r \in Runs, CommitBatch(r), j \in Looked(r)
      PROVE  jobs'[j].hash = feed'[jobs'[j].seen][j]
  <2>1. jobs'[j].seen = r /\ promo[r].pc # "idle"
    BY <1>3, CommitBatchRows DEF CommitBatch, BatchReady
  <2>2. promo[r].alone /\ feed'[r] = feed[r]
    BY <1>1, <2>1
  <2> QED
    BY <1>3, <2>1, <2>2, LoneBatch
<1> QED
  BY <1>2, <1>3, RowStep

\* A row that no stale update has torn has the columns its hash was taken of,
\* whoever wrote it.
WholeOK == \A j \in Jobs \ torn : jobs[j] # NoRow => jobs[j].cols = jobs[j].hash

\* Only a batch tears or mends a row, and only one of its own.
LEMMA TornMoves ==
  ASSUME Shape, [Next]_vars, NEW j \in Jobs, ~\E r \in Runs : CommitBatch(r) /\ j \in Looked(r)
  PROVE  j \in torn' <=> j \in torn
<1>1. ASSUME NEW r \in Runs, Stage(r) \/ Promote(r) \/ Crash(r) PROVE j \in torn' <=> j \in torn
  <2>1. CASE CommitBatch(r)
    <3>1. \A k \in Jobs \ Looked(r) : k \in torn' <=> k \in torn
      BY <2>1 DEF CommitBatch
    <3> QED
      BY <2>1, <3>1
  <2>2. CASE ~CommitBatch(r)
    BY <1>1, <2>2 DEF Stage, Promote, Crash, BeginPromotion, AbortAnomalous, LookUp, LinksFail,
       GenerateLinks, DeactivateStale, Backfill, BackfillFails, FinishPromotion, MarkFailed,
       tableVars
  <2> QED
    BY <2>1, <2>2
<1>2. CASE Cleanup \/ Tick \/ UNCHANGED vars
  BY <1>2 DEF Cleanup, StartCleanup, FindExpired, HardDelete, CleanupFails, Tick, vars, tableVars
<1> QED
  BY <1>1, <1>2 DEF Next

\* A batch leaves each of its rows whole or torn: a row it creates is the record;
\* one it updates is, when no other has changed the columns since it was loaded;
\* one it marks as seen is left as it was.
LEMMA BatchWhole ==
  ASSUME Shape, WholeOK, NEW r \in Runs, CommitBatch(r), NEW j \in Looked(r), j \notin torn'
  PROVE  jobs'[j].cols = jobs'[j].hash
<1> DEFINE created == {k \in Looked(r) : promo[r].found[k] = NoRow}
           updated == {k \in Looked(r) \ created : promo[r].found[k].hash # feed[r][k]}
           crossed == {k \in updated : promo[r].found[k].cols # jobs[k].cols}
<1>1. /\ j \in Jobs /\ promo[r].found[j] # Unread /\ feed[r][j] # Absent
      /\ ~Conflict(r, j) /\ jobs'[j] = PromoteRow(r, j)
  BY CommitBatchRows DEF Looked, CommitBatch
<1>2. promo[r].found[j] \in Loaded \cup {NoRow} /\ feed[r][j] \in [Columns -> Values]
  BY <1>1 DEF Shape, TypeOK, Promotion
<1>3. torn' = (torn \ (created \cup updated)) \cup crossed
  BY DEF CommitBatch
<1>4. j \notin crossed /\ (j \in created \cup updated \/ j \notin torn)
  BY <1>3
<1>5. CASE promo[r].found[j] = NoRow
  BY <1>1, <1>5 DEF PromoteRow, CreateJob
<1>6. CASE promo[r].found[j] # NoRow /\ promo[r].found[j].hash # feed[r][j]
  <2>1. jobs[j] \in Row /\ promo[r].found[j] \in Loaded
    BY <1>1, <1>2, <1>6, RowFields DEF Conflict, Shape
  <2>2. promo[r].found[j].cols = jobs[j].cols
    BY <1>4, <1>6
  <2>3. jobs'[j] = UpdateJob(r, j)
    BY <1>1, <1>6 DEF PromoteRow
  <2>4. [c \in Columns |-> IF feed[r][j][c] # promo[r].found[j].cols[c]
                           THEN feed[r][j][c] ELSE jobs[j].cols[c]] = feed[r][j]
    BY <1>2, <2>2
  <2> QED
    BY <2>1, <2>3, <2>4 DEF UpdateJob, Row
<1>7. CASE promo[r].found[j] # NoRow /\ promo[r].found[j].hash = feed[r][j]
  <2>1. jobs[j] \in Row /\ jobs'[j] = MarkJobSeen(r, j)
    BY <1>1, <1>2, <1>7, RowFields DEF Conflict, Shape, PromoteRow
  <2>2. j \notin torn
    BY <1>4, <1>7
  <2> QED
    BY <1>1, <2>1, <2>2 DEF MarkJobSeen, Row, WholeOK, Conflict
<1> QED
  BY <1>5, <1>6, <1>7

LEMMA WholeStep ==
  ASSUME Shape, WholeOK, [Next]_vars
  PROVE  WholeOK'
<1> SUFFICES ASSUME NEW j \in Jobs, j \notin torn', jobs'[j] # NoRow
             PROVE  jobs'[j].cols = jobs'[j].hash
  BY DEF WholeOK
<1>1. ASSUME NEW r \in Runs, CommitBatch(r), j \in Looked(r)
      PROVE  jobs'[j].cols = jobs'[j].hash
  BY <1>1, BatchWhole
<1>2. CASE ~\E r \in Runs : CommitBatch(r) /\ j \in Looked(r)
  <2>1. j \notin torn
    BY <1>2, TornMoves
  <2>2. jobs'[j] = jobs[j] \/ Touched(j)
    BY <1>2, RowStep
  <2> QED
    BY <2>1, <2>2 DEF WholeOK, Touched
<1> QED
  BY <1>1, <1>2

LEMMA BackfillEntered ==
  ASSUME Shape, NEW r \in Runs, Promote(r) \/ Crash(r)
  PROVE  promo'[r].pc = "backfill" => DeactivateStale(r)
<1> USE DEF Promotion, AfterBatch
<1>1. promo \in [Runs -> Promotion] /\ promo[r] \in Promotion
  BY DEF Shape, TypeOK
<1>2. CASE AbortAnomalous(r) \/ MarkFailed(r) \/ Crash(r)
  BY <1>1, <1>2, RestType DEF AbortAnomalous, MarkFailed, Crash
<1>3. CASE BeginPromotion(r)
  BY <1>1, <1>3 DEF BeginPromotion
<1>4. CASE LinksFail(r)
  BY <1>1, <1>4 DEF LinksFail
<1>5. CASE \E j \in Jobs : LookUp(r, j)
  BY <1>1, <1>5 DEF LookUp
<1>6. CASE CommitBatch(r)
  BY <1>1, <1>6 DEF CommitBatch, BatchReady
<1>7. CASE GenerateLinks(r)
  BY <1>1, <1>7 DEF GenerateLinks
<1>8. CASE Backfill(r)
  BY <1>1, <1>8 DEF Backfill
<1>9. CASE BackfillFails(r)
  BY <1>1, <1>9 DEF BackfillFails
<1>10. CASE FinishPromotion(r)
  BY <1>1, <1>10, RestType DEF FinishPromotion
<1> QED
  BY <1>2, <1>3, <1>4, <1>5, <1>6, <1>7, <1>8, <1>9, <1>10 DEF Promote

LEMMA SparedStep ==
  ASSUME Shape, Solitude, NEW r \in Runs, SparedOK(r), [Next]_vars
  PROVE  SparedOK(r)'
<1> SUFFICES ASSUME promo'[r].alone, promo'[r].pc = "backfill",
                    NEW j \in Jobs \ promo'[r].held, Active(j)'
             PROVE  jobs'[j].seen = r
  BY DEF SparedOK
<1>1. ASSUME NEW s \in Runs, Stage(s) PROVE FALSE
  BY <1>1, StageMoves DEF Working
<1>2. ASSUME NEW s \in Runs \ {r}, Promote(s) \/ Crash(s) PROVE FALSE
  BY <1>2, TaskMoves, SoloRun DEF Working
<1>3. ASSUME Promote(r) \/ Crash(r) PROVE jobs'[j].seen = r
  <2>1. promo \in [Runs -> Promotion] /\ promo[r] \in Promotion
    BY DEF Shape, TypeOK
  <2>2. DeactivateStale(r)
    BY <1>3, BackfillEntered
  <2>3. jobs' = jobs /\ promo'[r].held = Stale(r)
    BY <2>1, <2>2 DEF DeactivateStale, tableVars, Promotion
  <2> QED
    BY <2>3 DEF Stale, ActiveJobs, Active
<1>4. CASE Cleanup \/ Tick \/ UNCHANGED vars
  <2>1. jobs'[j] = jobs[j]
    BY <1>4, HardDeleteRows
       DEF Active, Cleanup, StartCleanup, FindExpired, CleanupFails, Tick, vars, tableVars
  <2> QED
    BY <1>4, <2>1, OtherMoves DEF SparedOK, Active
<1> QED
  BY <1>1, <1>2, <1>3, <1>4 DEF Next

\* When the limit covers the provider's jobs, the backfill leaves none without.
LEMMA BackfillLinks ==
  ASSUME Shape, NEW r \in Runs, Backfill(r), Cardinality(Jobs) <= LinkLimit,
         NEW j \in Jobs \ promo[r].held, jobs[j] # NoRow, jobs[j].active
  PROVE  jobs'[j].link
<1>1. PICK linked \in SUBSET MissingLink(r) :
        /\ \/ Cardinality(linked) = LinkLimit
           \/ linked = MissingLink(r) /\ Cardinality(linked) < LinkLimit
        /\ jobs' = [k \in Jobs |->
             IF k \in promo[r].held THEN Deactivated(jobs[k], promo[r].now)
             ELSE IF k \in linked THEN [jobs[k] EXCEPT !.link = TRUE]
             ELSE jobs[k]]
  BY DEF Backfill
<1>2. linked \subseteq Jobs /\ MissingLink(r) \subseteq Jobs
  BY <1>1 DEF MissingLink, ActiveJobs
<1>3. Cardinality(linked) = LinkLimit => linked = Jobs
  <2>1. /\ IsFiniteSet(linked) /\ Cardinality(linked) <= Cardinality(Jobs)
        /\ Cardinality(linked) = Cardinality(Jobs) => linked = Jobs
    BY <1>2, FS_Subset
  <2>2. Cardinality(linked) \in Nat /\ Cardinality(Jobs) \in Nat
    BY <2>1, FS_CardinalityType
  <2> QED
    BY <2>1, <2>2
<1>4. MissingLink(r) \subseteq linked
  BY <1>1, <1>2, <1>3
<1>5. jobs[j] \in Row
  BY RowFields DEF Shape
<1>6. CASE jobs[j].link
  BY <1>1, <1>5, <1>6 DEF Row
<1>7. CASE ~jobs[j].link
  <2>1. j \in linked
    BY <1>4, <1>7 DEF MissingLink, ActiveJobs, Active
  <2>2. jobs'[j] = [jobs[j] EXCEPT !.link = TRUE]
    BY <1>1, <2>1
  <2> QED
    BY <1>5, <2>2 DEF Row
<1> QED
  BY <1>6, <1>7

\* A finished promotion stays settled while no other run starts.
LEMMA SettledBefore ==
  ASSUME Shape, Solitude, NEW r \in Runs, [Next]_vars, Settled(r)'
  PROVE  \/ Promote(r) \/ Crash(r)
         \/ (Cleanup \/ Tick \/ UNCHANGED vars) /\ Settled(r)
<1> Runs \subseteq Int
  BY DEF Runs
<1>1. /\ promo'[r].alone /\ promo'[r].pc \in {"finish", "promoted"}
      /\ \A q \in Runs : q > r => promo'[q].pc = "idle"
  BY DEF Settled
<1>2. ASSUME NEW s \in Runs, Stage(s) PROVE FALSE
  <2>1. s # r /\ ~(s > r)
    BY <1>1, <1>2, StageMoves
  <2>2. s \in Int /\ r \in Int
    OBVIOUS
  <2>3. s < r
    BY <2>1, <2>2
  <2>4. promo[r].pc # "idle"
    BY <1>1, <1>2, <2>1, StageMoves
  <2> QED
    BY <1>2, <2>3, <2>4, StageMoves DEF Solitude, AloneOK
<1>3. ASSUME NEW s \in Runs \ {r}, Promote(s) \/ Crash(s) PROVE FALSE
  <2>1. Working(s) /\ promo'[r] = promo[r] /\ promo'[s].pc # "idle"
    BY <1>3, TaskMoves, RestType
  <2>2. s \in Int /\ r \in Int /\ s # r
    OBVIOUS
  <2>3. ~(s > r)
    BY <1>1, <2>1
  <2>4. s < r
    BY <2>2, <2>3
  <2> QED
    BY <1>1, <2>1, <2>4 DEF Solitude, AloneOK
<1>4. CASE Cleanup \/ Tick \/ UNCHANGED vars
  BY <1>4, OtherMoves DEF Settled
<1> QED
  BY <1>2, <1>3, <1>4 DEF Next

LEMMA SweptMoves ==
  ASSUME Shape, NEW r \in Runs, Promote(r) \/ Crash(r),
         promo[r].swept => promo[r].pc \in {"finish", "promoted"}
  PROVE  /\ promo'[r].swept => promo'[r].pc \in {"finish", "promoted"}
         /\ promo'[r].swept => \/ Backfill(r)
                               \/ promo[r].swept /\ promo[r].pc = "finish" /\ jobs' = jobs
<1> USE DEF Promotion, AfterBatch
<1>1. promo \in [Runs -> Promotion] /\ promo[r] \in Promotion
  BY DEF Shape, TypeOK
<1>2. CASE AbortAnomalous(r) \/ MarkFailed(r) \/ Crash(r)
  BY <1>1, <1>2, RestType DEF AbortAnomalous, MarkFailed, Crash
<1>3. CASE BeginPromotion(r)
  BY <1>1, <1>3 DEF BeginPromotion
<1>4. CASE LinksFail(r)
  BY <1>1, <1>4 DEF LinksFail
<1>5. CASE \E j \in Jobs : LookUp(r, j)
  BY <1>1, <1>5 DEF LookUp
<1>6. CASE CommitBatch(r)
  BY <1>1, <1>6 DEF CommitBatch, BatchReady
<1>7. CASE GenerateLinks(r)
  BY <1>1, <1>7 DEF GenerateLinks
<1>8. CASE Backfill(r)
  BY <1>1, <1>8 DEF Backfill
<1>9. CASE BackfillFails(r) \/ DeactivateStale(r)
  BY <1>1, <1>9 DEF BackfillFails, DeactivateStale
<1>10. CASE FinishPromotion(r)
  BY <1>1, <1>10, RestType DEF FinishPromotion, tableVars
<1> QED
  BY <1>2, <1>3, <1>4, <1>5, <1>6, <1>7, <1>8, <1>9, <1>10 DEF Promote

LEMMA StageSwept ==
  ASSUME Shape, NEW r \in Runs, Stage(r)
  PROVE  promo'[r].swept = promo[r].swept
<1>1. PICK n \in 0 .. MaxRejected :
        promo'[r] = [promo[r] EXCEPT !.pc = "staged", !.rejected = n, !.alone = (BusyRuns = {})]
  BY DEF Stage
<1>2. promo[r] \in Promotion
  BY DEF Shape, TypeOK
<1> QED
  BY <1>1, <1>2 DEF Promotion

LEMMA DoneStep ==
  ASSUME Shape, Shape', Solitude, Marked, NEW r \in Runs, SparedOK(r), DoneOK(r), [Next]_vars
  PROVE  DoneOK(r)'
<1>1. promo'[r].swept => promo'[r].pc \in {"finish", "promoted"}
  <2>1. ASSUME NEW s \in Runs, Stage(s) PROVE promo'[r].swept => promo'[r].pc \in {"finish", "promoted"}
    <3>1. CASE s # r
      BY <2>1, <3>1, StageMoves DEF DoneOK
    <3>2. CASE s = r
      BY <2>1, <3>2, StageSwept, StageMoves DEF DoneOK
    <3> QED
      BY <3>1, <3>2
  <2>2. ASSUME NEW s \in Runs, Promote(s) \/ Crash(s)
        PROVE  promo'[r].swept => promo'[r].pc \in {"finish", "promoted"}
    BY <2>2, TaskMoves, SweptMoves DEF DoneOK
  <2> QED
    BY <2>1, <2>2, OtherMoves DEF Next, DoneOK
<1>2. ASSUME Settled(r)', NEW j \in Jobs, jobs'[j] # NoRow
      PROVE  /\ jobs'[j].active \/ j \in StagedJobs(r)' => jobs'[j].seen = r
             /\ jobs'[j].active /\ Cardinality(Jobs) <= LinkLimit => jobs'[j].link
  <2>1. CASE Backfill(r)
    <3>1. promo[r].pc = "backfill" /\ feed' = feed
      BY <2>1 DEF Backfill
    <3>2. promo[r].alone /\ promo[r].todo = {} /\ StagedJobs(r)' = StagedJobs(r)
      BY <1>2, <2>1, <3>1, TaskMoves, RestType DEF Settled, Promote, Shape, TaskOK, StagedJobs
    <3>3. jobs[j] # NoRow /\ jobs'[j].seen = jobs[j].seen
      BY <1>2, <2>1, BackfillRows DEF Touched
    <3>4. j \in StagedJobs(r) => jobs[j].seen = r
      BY <3>1, <3>2, <3>3 DEF Marked, SeenOK
    <3>5. ASSUME jobs'[j].active PROVE j \notin promo[r].held /\ jobs[j].active
      BY <2>1, <3>5, BackfillRows
    <3> QED
      BY <2>1, <3>1, <3>2, <3>3, <3>4, <3>5, BackfillLinks DEF SparedOK, Active
  <2>2. CASE (Promote(r) \/ Crash(r)) /\ ~Backfill(r)
    <3>1. promo[r].swept /\ promo[r].pc = "finish" /\ jobs' = jobs
      BY <1>2, <2>2, SweptMoves DEF Settled, DoneOK
    <3>2. Settled(r) /\ StagedJobs(r)' = StagedJobs(r)
      <4>1. promo'[r].alone = promo[r].alone /\ feed' = feed
        BY <1>2, <2>2, TaskMoves, RestType DEF Settled
      <4>2. \A q \in Runs : q > r => promo[q].pc = "idle"
        <5>1. \A q \in Runs : q > r => q # r
          BY DEF Runs
        <5> QED
          BY <1>2, <2>2, <5>1, TaskMoves DEF Settled
      <4> QED
        BY <1>2, <3>1, <4>1, <4>2 DEF Settled, StagedJobs
    <3> QED
      BY <1>2, <3>1, <3>2 DEF DoneOK
  <2>3. CASE (Cleanup \/ Tick \/ UNCHANGED vars) /\ Settled(r)
    <3>1. jobs'[j] = jobs[j]
      BY <1>2, <2>3, HardDeleteRows
         DEF Cleanup, StartCleanup, FindExpired, CleanupFails, Tick, vars, tableVars
    <3> QED
      BY <1>2, <2>3, <3>1, OtherMoves DEF DoneOK, StagedJobs
  <2> QED
    BY <1>2, <2>1, <2>2, <2>3, SettledBefore
<1> QED
  BY <1>1, <1>2 DEF DoneOK

LEMMA Repairs == Spec => [](HashOK /\ WholeOK /\ Repaired)
<1>1. Init => Stamped /\ HashOK /\ WholeOK /\ Repaired
  <2> SUFFICES ASSUME Init PROVE Stamped /\ HashOK /\ WholeOK /\ Repaired
    OBVIOUS
  <2>1. Stamped /\ HashOK /\ WholeOK
    BY DEF Init, Stamped, HashOK, WholeOK
  <2>2. \A r \in Runs : promo[r].pc = "idle" /\ promo[r].alone = FALSE /\ promo[r].swept = FALSE
    BY RestType DEF Init
  <2> QED
    BY <2>1, <2>2 DEF Repaired, SparedOK, DoneOK, Settled
<1>2. /\ Shape /\ Shape' /\ Solitude /\ Marked /\ Stamped /\ HashOK /\ WholeOK /\ Repaired
      /\ [Next]_vars
      => (Stamped /\ HashOK /\ WholeOK /\ Repaired)'
  BY StampedStep, HashStep, WholeStep, SparedStep, DoneStep DEF Repaired
<1> QED
  BY <1>1, <1>2, Marks, PTL DEF Spec

\* After a promotion whose sweep committed and that no other import overlapped,
\* every row that is active or in its feed carries its stamp, the hash of what it
\* sent and, unless the row's columns were last updated over a stale load, what it
\* sent in every column: so much of what crashes, failed batches and overlapping
\* imports before it have left is repaired.
THEOREM FinishedPromotionMirrorsFeed == Spec => []CatalogueMirrorsFeed
<1>1. HashOK /\ WholeOK /\ Repaired => CatalogueMirrorsFeed
  <2> SUFFICES ASSUME HashOK, WholeOK, Repaired, NEW r \in Runs, Settled(r), NEW j \in Jobs,
                      jobs[j] # NoRow, jobs[j].active \/ j \in StagedJobs(r)
               PROVE  /\ jobs[j].seen = r
                      /\ jobs[j].hash = feed[r][j]
                      /\ j \notin torn => jobs[j].cols = feed[r][j]
    BY DEF CatalogueMirrorsFeed
  <2>1. jobs[j].seen = r
    BY DEF Repaired, DoneOK
  <2>2. jobs[j].hash = feed[r][j]
    BY <2>1 DEF HashOK, Settled
  <2>3. j \notin torn => jobs[j].cols = feed[r][j]
    BY <2>2 DEF WholeOK
  <2> QED
    BY <2>1, <2>2, <2>3
<1> QED
  BY <1>1, Repairs, PTL

\* The backfill of such a promotion leaves no active job without its affiliate
\* link, as long as its limit covers the jobs of the provider.
THEOREM FinishedPromotionHasLinks == Spec => []PromotedJobsHaveLinks
<1>1. Repaired => PromotedJobsHaveLinks
  BY DEF Repaired, DoneOK, PromotedJobsHaveLinks, Active
<1> QED
  BY <1>1, Repairs, PTL
=============================================================================
