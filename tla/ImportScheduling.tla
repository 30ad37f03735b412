--------------------------- MODULE ImportScheduling ---------------------------
(***************************************************************************)
(* When a provider's feed is imported: Celery Beat and the dispatcher      *)
(* (app/tasks/scheduler_tasks.py, app/imports/scheduler.py), the manual    *)
(* trigger (app/api/routers/admin_imports.py), and the import task with    *)
(* its retries and its record in import_runs (app/tasks/import_tasks.py,   *)
(* app/services/import_orchestration_service.py, app/imports/importer.py). *)
(* What an import does to the catalogue is in ImportCatalog.               *)
(*                                                                         *)
(* Time is the age of what the dispatcher looks at, counted in ticks up to *)
(* the provider's interval: older is due, and so is never.                 *)
(*                                                                         *)
(* A task is acknowledged when a worker takes it (Celery's default), so a  *)
(* worker that dies loses the task in hand.                                *)
(***************************************************************************)
EXTENDS Integers, FiniteSets

CONSTANTS
  Providers,
  Workers,          \* the processes of the Celery pool
  Interval,         \* schedule_interval_minutes in ticks, or Unconfigured
  Unconfigured,     \* the column is NULL
  MaxRetries,       \* max_retries of run_provider_import
  MaxQueue,         \* bound: equal messages waiting in the broker
  MaxLost           \* bound: runs whose outcome is never recorded

ASSUME SchedulingAssumption ==
  /\ \A p \in Providers : Interval[p] # Unconfigured => Interval[p] \in Nat \ {0}
  /\ IsFiniteSet(Workers)
  /\ MaxRetries \in Nat
  /\ MaxQueue \in Nat \ {0}
  /\ MaxLost \in Nat

VARIABLES
  active,           \* providers.is_active
  age,              \* of the newest "completed" run no task works on
  processing,       \* import_runs: how many are "processing"
  queue,            \* messages by provider and retry count
  worker,           \* what each worker executes
  lost              \* history: runs whose outcome was never recorded

vars == <<active, age, processing, queue, worker, lost>>

Configured == {p \in Providers : Interval[p] # Unconfigured}
OldAge(p) == IF p \in Configured THEN Interval[p] ELSE 0
Older(p, a) == IF a < OldAge(p) THEN a + 1 ELSE a
Younger(a, b) == IF a < b THEN a ELSE b

Idle == [pc |-> "idle"]
Import(p, n) == [pc |-> "start", provider |-> p, retries |-> n]

\* Workers that execute an import of p, those with a run in "processing", and
\* those that promote a run already "completed".
Importing(p) == {w \in Workers : worker[w].pc \in {"start", "stage", "promote"}
                                 /\ worker[w].provider = p}
Staging(p) == {w \in Importing(p) : worker[w].pc = "stage"}
Promoting(p) == {w \in Importing(p) : worker[w].pc = "promote"}

Init ==
  /\ active = [p \in Providers |-> TRUE]
  /\ age = [p \in Providers |-> OldAge(p)]
  /\ processing = [p \in Providers |-> 0]
  /\ queue = [p \in Providers |-> [n \in 0 .. MaxRetries |-> 0]]
  /\ worker = [w \in Workers |-> Idle]
  /\ lost = [p \in Providers |-> 0]

\* A message beyond MaxQueue equal ones is not told apart from them.
Enqueue(p, n) == queue' = [queue EXCEPT ![p][n] = Younger(@ + 1, MaxQueue)]
-----------------------------------------------------------------------------
(***************************************************************************)
(* The dispatcher                                                          *)
(***************************************************************************)
\* Mutant: inactive providers are scheduled as well.
DueThoughInactive(p) ==
  /\ processing[p] = 0
  /\ p \in Configured
  /\ age[p] = Interval[p] /\ \A w \in Promoting(p) : worker[w].age = Interval[p]

\* build_dispatch_plan over list_active_provider_schedules, one SELECT.
Due(p) ==
  /\ active[p]
  /\ processing[p] = 0
  /\ p \in Configured
  /\ age[p] = Interval[p] /\ \A w \in Promoting(p) : worker[w].age = Interval[p]

\* Beat enqueues the dispatcher every two minutes; a worker takes it.
BuildPlan(w) ==
  /\ worker[w] = Idle
  /\ worker' = [worker EXCEPT ![w] = [pc |-> "send", due |-> {p \in Providers : Due(p)}]]
  /\ UNCHANGED <<active, age, processing, queue, lost>>

Send(w, p) ==
  /\ worker[w].pc = "send"
  /\ p \in worker[w].due
  /\ Enqueue(p, 0)
  /\ worker' = [worker EXCEPT ![w].due = @ \ {p}]
  /\ UNCHANGED <<active, age, processing, lost>>

\* The plan is sent, or the broker refuses a message and the rest is dropped,
\* or the worker dies.
EndDispatch(w) ==
  /\ worker[w].pc = "send"
  /\ worker' = [worker EXCEPT ![w] = Idle]
  /\ UNCHANGED <<active, age, processing, queue, lost>>

\* POST /providers/{id}/trigger looks at is_active only.
Trigger(p) ==
  /\ active[p]
  /\ Enqueue(p, 0)
  /\ UNCHANGED <<active, age, processing, worker, lost>>

SetActive(p) ==
  /\ active' = [active EXCEPT ![p] = ~@]
  /\ UNCHANGED <<age, processing, queue, worker, lost>>
-----------------------------------------------------------------------------
(***************************************************************************)
(* The import task                                                         *)
(***************************************************************************)
Take(w, p, n) ==
  /\ worker[w] = Idle
  /\ queue[p][n] > 0
  /\ queue' = [queue EXCEPT ![p][n] = @ - 1]
  /\ worker' = [worker EXCEPT ![w] = Import(p, n)]
  /\ UNCHANGED <<active, age, processing, lost>>

\* The task ends for good, or publishes its successor: autoretry_for, unless
\* retries_exhausted.
EndTask(w) ==
  /\ worker' = [worker EXCEPT ![w] = Idle]
  /\ UNCHANGED queue

EndAttempt(w) ==
  LET p == worker[w].provider
      n == worker[w].retries
  IN  \/ EndTask(w)
      \/ /\ n < MaxRetries
         /\ Enqueue(p, n + 1)
         /\ worker' = [worker EXCEPT ![w] = Idle]

\* ImportService.start_run commits a run in "processing".
StartRun(w) ==
  LET p == worker[w].provider IN
  /\ worker[w].pc = "start"
  /\ active[p]
  /\ processing' = [processing EXCEPT ![p] = @ + 1]
  /\ worker' = [worker EXCEPT ![w].pc = "stage"]
  /\ UNCHANGED <<active, age, queue, lost>>

\* The provider is inactive: ValueError, no run, no retry.
RefuseInactive(w) ==
  /\ worker[w].pc = "start"
  /\ ~active[worker[w].provider]
  /\ EndTask(w)
  /\ UNCHANGED <<active, age, processing, lost>>

\* The database fails before there is a run.
StartFails(w) ==
  /\ worker[w].pc = "start"
  /\ EndAttempt(w)
  /\ UNCHANGED <<active, age, processing, lost>>

\* Mutant: the time the run completed at is not kept.
StageUndated(w) ==
  LET p == worker[w].provider IN
  /\ worker[w].pc = "stage"
  /\ processing' = [processing EXCEPT ![p] = @ - 1]
  /\ worker' = [worker EXCEPT ![w].pc = "promote"]
  /\ UNCHANGED <<active, age, queue, lost>>

\* Download and ImportService.run: the run is "completed" from here on.
Stage(w) ==
  LET p == worker[w].provider IN
  /\ worker[w].pc = "stage"
  /\ processing' = [processing EXCEPT ![p] = @ - 1]
  /\ worker' = [worker EXCEPT ![w] = [pc |-> "promote", provider |-> p,
                                      retries |-> worker[w].retries, age |-> 0]]
  /\ UNCHANGED <<active, age, queue, lost>>

\* Mutant: only the retried attempt records its failure.
StageFailsUnmarked(w) ==
  LET p == worker[w].provider IN
  /\ worker[w].pc = "stage"
  /\ processing' = [processing EXCEPT ![p] = IF worker[w].retries > 0 THEN @ - 1 ELSE @]
  /\ EndAttempt(w)
  /\ UNCHANGED <<active, age, lost>>

\* Either fails, transiently or not, and mark_failed records it.
StageFails(w) ==
  LET p == worker[w].provider IN
  /\ worker[w].pc = "stage"
  /\ processing' = [processing EXCEPT ![p] = @ - 1]
  /\ EndAttempt(w)
  /\ UNCHANGED <<active, age, lost>>

\* The worker dies, or mark_failed cannot reach the database: the run stays
\* "processing".
StageLost(w) ==
  LET p == worker[w].provider IN
  /\ worker[w].pc = "stage"
  /\ lost[p] < MaxLost
  /\ lost' = [lost EXCEPT ![p] = @ + 1]
  /\ EndAttempt(w)
  /\ UNCHANGED <<active, age, processing>>

\* The run stays "completed": the promotion went well, or the worker died, or
\* no failure could be recorded.
Completed(w) ==
  LET p == worker[w].provider IN
  /\ worker[w].pc = "promote"
  /\ age' = [age EXCEPT ![p] = Younger(@, worker[w].age)]
  /\ EndAttempt(w)
  /\ UNCHANGED <<active, processing, lost>>

\* PromotionService fails or aborts, and the run turns from "completed" to
\* "failed": for the dispatcher it never happened.
PromoteFails(w) ==
  /\ worker[w].pc = "promote"
  /\ EndAttempt(w)
  /\ UNCHANGED <<active, age, processing, lost>>

Tick ==
  /\ age' = [p \in Providers |-> Older(p, age[p])]
  /\ worker' = [w \in Workers |->
       IF worker[w].pc = "promote"
       THEN [worker[w] EXCEPT !.age = Older(worker[w].provider, @)]
       ELSE worker[w]]
  /\ UNCHANGED <<active, processing, queue, lost>>
-----------------------------------------------------------------------------
Dispatch(w) == BuildPlan(w) \/ (\E p \in Providers : Send(w, p)) \/ EndDispatch(w)

RunImport(w) ==
  \/ StartRun(w) \/ RefuseInactive(w) \/ StartFails(w)
  \/ Stage(w) \/ StageFails(w) \/ StageLost(w)
  \/ Completed(w) \/ PromoteFails(w)

Next ==
  \/ \E w \in Workers :
       \/ Dispatch(w)
       \/ \E p \in Providers, n \in 0 .. MaxRetries : Take(w, p, n)
       \/ RunImport(w)
  \/ \E p \in Providers : Trigger(p) \/ SetActive(p)
  \/ Tick

Spec == Init /\ [][Next]_vars

\* Time passes, a task in hand comes to an end (its downloads and its retries
\* are bounded), the broker delivers in order, so a message or a dispatcher
\* run is not passed over for ever, and it accepts a message now and then.
Fairness ==
  /\ WF_vars(Tick)
  /\ \A w \in Workers : WF_vars(RunImport(w)) /\ WF_vars(EndDispatch(w))
  /\ SF_vars(\E w \in Workers : BuildPlan(w))
  /\ \A p \in Providers : SF_vars(\E w \in Workers : Send(w, p))
  /\ \A p \in Providers, n \in 0 .. MaxRetries : SF_vars(\E w \in Workers : Take(w, p, n))

FairSpec == Spec /\ Fairness
-----------------------------------------------------------------------------
(***************************************************************************)
(* Properties                                                              *)
(***************************************************************************)
WorkerState ==
  {Idle}
  \cup [pc : {"send"}, due : SUBSET Providers]
  \cup [pc : {"start", "stage"}, provider : Providers, retries : 0 .. MaxRetries]
  \cup [pc : {"promote"}, provider : Providers, retries : 0 .. MaxRetries, age : Nat]

\* Types: in particular no attempt is made beyond the retry limit.
TypeOK ==
  /\ active \in [Providers -> BOOLEAN]
  /\ age \in [Providers -> Nat]
  /\ processing \in [Providers -> Nat]
  /\ queue \in [Providers -> [0 .. MaxRetries -> 0 .. MaxQueue]]
  /\ worker \in [Workers -> WorkerState]
  /\ lost \in [Providers -> 0 .. MaxLost]

\* Whatever way an attempt ends, its run leaves "processing", save the runs
\* whose outcome could not be recorded.
ProcessingRunsHaveTask ==
  \A p \in Providers : processing[p] = Cardinality(Staging(p)) + lost[p]

\* A provider that stays active and configured is imported again and again,
\* whatever fails, as long as none of its runs is left in "processing".
KeepsBeingImported ==
  \A p \in Configured :
    <>[](active[p] /\ lost[p] = 0) => []<>(Importing(p) # {})

\* Once a provider stays inactive, queued tasks, retries and stale dispatch
\* plans for it die out and no run of it is started any more.
DeactivationIsFinal ==
  \A p \in Providers : <>[]~active[p] => <>[](Importing(p) = {})
-----------------------------------------------------------------------------
\* app/tasks/scheduler_tasks.py:20: "Enqueue active providers whose configured
\* import interval has elapsed": an active provider does not drop out.
ActiveProvidersImported ==
  \A p \in Configured : <>[]active[p] => []<>(Importing(p) # {})
=============================================================================
