----------------------- MODULE ImportScheduling_proofs -----------------------
(***************************************************************************)
(* Proofs about ImportScheduling, for any number of providers and workers, *)
(* any retry limit and any number of lost outcomes: the runs left in       *)
(* "processing" are accounted for.                                         *)
(***************************************************************************)
EXTENDS ImportScheduling, FiniteSetTheorems, TLAPS

USE SchedulingAssumption

-----------------------------------------------------------------------------
(***************************************************************************)
(* Helpers.                                                                *)
(***************************************************************************)

LEMMA OldAgeType == ASSUME NEW p \in Providers PROVE OldAge(p) \in Nat
  BY DEF OldAge, Configured

LEMMA OlderType == ASSUME NEW p \in Providers, NEW a \in Nat PROVE Older(p, a) \in Nat
  BY OldAgeType DEF Older

LEMMA EnqueueType ==
  ASSUME TypeOK, NEW p \in Providers, NEW n \in 0 .. MaxRetries, Enqueue(p, n)
  PROVE  queue' \in [Providers -> [0 .. MaxRetries -> 0 .. MaxQueue]]
<1>1. queue[p][n] \in 0 .. MaxQueue
  BY DEF TypeOK
<1>2. Younger(queue[p][n] + 1, MaxQueue) \in 0 .. MaxQueue
  BY <1>1 DEF Younger
<1>3. [queue[p] EXCEPT ![n] = Younger(@ + 1, MaxQueue)] \in [0 .. MaxRetries -> 0 .. MaxQueue]
  BY <1>2 DEF TypeOK
<1> QED
  BY <1>3 DEF TypeOK, Enqueue

\* What a worker holds, by what it does.
LEMMA WorkerShape ==
  ASSUME TypeOK, NEW w \in Workers
  PROVE  /\ worker[w] \in WorkerState
         /\ worker[w].pc = "send" => worker[w] \in [pc : {"send"}, due : SUBSET Providers]
         /\ worker[w].pc \in {"start", "stage"} =>
              worker[w] \in [pc : {"start", "stage"}, provider : Providers, retries : 0 .. MaxRetries]
         /\ worker[w].pc = "promote" =>
              worker[w] \in [pc : {"promote"}, provider : Providers, retries : 0 .. MaxRetries, age : Nat]
  BY DEF TypeOK, WorkerState, Idle

LEMMA AttemptFields ==
  ASSUME TypeOK, NEW w \in Workers, worker[w].pc \in {"start", "stage", "promote"}
  PROVE  worker[w].provider \in Providers /\ worker[w].retries \in 0 .. MaxRetries
  BY WorkerShape

\* A worker's own step.
Moves(w, new) == new \in WorkerState /\ worker' = [worker EXCEPT ![w] = new]

LEMMA MovesType ==
  ASSUME TypeOK, NEW w \in Workers, NEW new, Moves(w, new)
  PROVE  worker' \in [Workers -> WorkerState]
  BY DEF Moves, TypeOK

LEMMA IdleType == Idle \in WorkerState /\ Idle.pc = "idle"
  BY DEF Idle, WorkerState

\* An attempt ends with or without a successor.
LEMMA AttemptEnds ==
  ASSUME TypeOK, NEW w \in Workers, worker[w].pc \in {"start", "stage", "promote"}, EndAttempt(w)
  PROVE  Moves(w, Idle) /\ queue' \in [Providers -> [0 .. MaxRetries -> 0 .. MaxQueue]]
<1> DEFINE p == worker[w].provider
           n == worker[w].retries
<1>1. p \in Providers /\ n \in 0 .. MaxRetries
  BY AttemptFields
<1>2. Moves(w, Idle)
  BY IdleType DEF EndAttempt, EndTask, Moves
<1>3. CASE EndTask(w)
  BY <1>2, <1>3 DEF EndTask, TypeOK
<1>4. CASE n < MaxRetries /\ Enqueue(p, n + 1)
  <2>1. n + 1 \in 0 .. MaxRetries
    BY <1>1, <1>4
  <2> QED
    BY <2>1, <1>1, <1>2, <1>4, EnqueueType
<1> QED
  BY <1>2, <1>3, <1>4 DEF EndAttempt

-----------------------------------------------------------------------------
(***************************************************************************)
(* The workers that download and stage.                                    *)
(***************************************************************************)

StageCount(p) == Cardinality(Staging(p))

LEMMA StagingIs ==
  ASSUME NEW p
  PROVE  /\ Staging(p) = {v \in Workers : worker[v].pc = "stage" /\ worker[v].provider = p}
         /\ IsFiniteSet(Staging(p))
         /\ StageCount(p) \in Nat
<1>1. Staging(p) = {v \in Workers : worker[v].pc = "stage" /\ worker[v].provider = p}
  BY DEF Staging, Importing
<1>2. Staging(p) \in SUBSET Workers
  BY <1>1
<1>3. IsFiniteSet(Staging(p))
  BY <1>2, FS_Subset
<1> QED
  BY <1>1, <1>3, FS_CardinalityType DEF StageCount

LEMMA OtherMoves ==
  ASSUME TypeOK, NEW w \in Workers, NEW new, Moves(w, new),
         worker[w].pc # "stage", new.pc # "stage", NEW p
  PROVE  StageCount(p)' = StageCount(p)
<1>1. Staging(p)' = {v \in Workers : worker'[v].pc = "stage" /\ worker'[v].provider = p}
  BY DEF Staging, Importing
<1>2. Staging(p)' = Staging(p)
  BY <1>1, StagingIs DEF Moves, TypeOK
<1> QED
  BY <1>2 DEF StageCount

LEMMA StagingBegins ==
  ASSUME TypeOK, NEW w \in Workers, NEW new, Moves(w, new),
         worker[w].pc # "stage", new.pc = "stage", NEW p
  PROVE  StageCount(p)' = IF p = new.provider THEN StageCount(p) + 1 ELSE StageCount(p)
<1>1. Staging(p)' = {v \in Workers : worker'[v].pc = "stage" /\ worker'[v].provider = p}
  BY DEF Staging, Importing
<1>2. w \notin Staging(p)
  BY StagingIs
<1>3. CASE p = new.provider
  <2>1. Staging(p)' = Staging(p) \cup {w}
    BY <1>1, <1>3, StagingIs DEF Moves, TypeOK
  <2> QED
    BY <2>1, <1>2, <1>3, StagingIs, FS_AddElement DEF StageCount
<1>4. CASE p # new.provider
  <2>1. Staging(p)' = Staging(p)
    BY <1>1, <1>4, StagingIs DEF Moves, TypeOK
  <2> QED
    BY <2>1, <1>4 DEF StageCount
<1> QED
  BY <1>3, <1>4

LEMMA StagingEnds ==
  ASSUME TypeOK, NEW w \in Workers, NEW new, Moves(w, new),
         worker[w].pc = "stage", new.pc # "stage", NEW p
  PROVE  /\ StageCount(p)' = IF p = worker[w].provider THEN StageCount(p) - 1 ELSE StageCount(p)
         /\ p = worker[w].provider => StageCount(p) > 0
<1>1. Staging(p)' = {v \in Workers : worker'[v].pc = "stage" /\ worker'[v].provider = p}
  BY DEF Staging, Importing
<1>2. CASE p = worker[w].provider
  <2>1. Staging(p)' = Staging(p) \ {w}
    BY <1>1, <1>2, StagingIs DEF Moves, TypeOK
  <2>2. w \in Staging(p)
    BY <1>2, StagingIs
  <2>3. StageCount(p)' = StageCount(p) - 1
    BY <2>1, <2>2, StagingIs, FS_RemoveElement DEF StageCount
  <2>4. StageCount(p) # 0
    BY <2>2, StagingIs, FS_EmptySet DEF StageCount
  <2> QED
    BY <2>3, <2>4, <1>2, StagingIs
<1>3. CASE p # worker[w].provider
  <2>1. Staging(p)' = Staging(p)
    BY <1>1, <1>3, StagingIs DEF Moves, TypeOK
  <2> QED
    BY <2>1, <1>3 DEF StageCount
<1> QED
  BY <1>2, <1>3

-----------------------------------------------------------------------------
(***************************************************************************)
(* The invariant: TypeOK would not be inductive alone, for a run that ends *)
(* takes one off a count that only the workers keep above zero.            *)
(***************************************************************************)

Accounted == \A p \in Providers : processing[p] = StageCount(p) + lost[p]

IInv == TypeOK /\ Accounted

LEMMA AccountedIsProperty == Accounted <=> ProcessingRunsHaveTask
  BY DEF Accounted, ProcessingRunsHaveTask, StageCount

LEMMA InitIInv == Init => IInv
<1> SUFFICES ASSUME Init PROVE IInv
  OBVIOUS
<1>1. TypeOK
  BY OldAgeType, IdleType DEF Init, TypeOK
<1>2. ASSUME NEW p \in Providers PROVE StageCount(p) = 0
  <2>1. Staging(p) = {}
    BY StagingIs, IdleType DEF Init
  <2> QED
    BY <2>1, FS_EmptySet DEF StageCount
<1>3. Accounted
  BY <1>2 DEF Accounted, Init
<1> QED
  BY <1>1, <1>3 DEF IInv

\* A step of a worker that neither starts nor ends a run.
LEMMA QuietMove ==
  ASSUME IInv, NEW w \in Workers, NEW new, Moves(w, new),
         worker[w].pc # "stage", new.pc # "stage",
         active' \in [Providers -> BOOLEAN], age' \in [Providers -> Nat],
         queue' \in [Providers -> [0 .. MaxRetries -> 0 .. MaxQueue]],
         UNCHANGED <<processing, lost>>
  PROVE  IInv'
<1>1. TypeOK'
  BY MovesType DEF IInv, TypeOK
<1>2. \A p \in Providers : StageCount(p)' = StageCount(p)
  BY OtherMoves DEF IInv
<1> QED
  BY <1>1, <1>2 DEF IInv, Accounted

\* A run that ends, recorded or not.
LEMMA RunEnds ==
  ASSUME IInv, NEW w \in Workers, NEW new, Moves(w, new),
         worker[w].pc = "stage", new.pc # "stage",
         queue' \in [Providers -> [0 .. MaxRetries -> 0 .. MaxQueue]],
         UNCHANGED <<active, age>>,
         \/ /\ processing' = [processing EXCEPT ![worker[w].provider] = @ - 1]
            /\ UNCHANGED lost
         \/ /\ lost[worker[w].provider] < MaxLost
            /\ lost' = [lost EXCEPT ![worker[w].provider] = @ + 1]
            /\ UNCHANGED processing
  PROVE  IInv'
<1>1. TypeOK /\ worker[w].provider \in Providers
  BY AttemptFields DEF IInv
<1>2. PICK q \in Providers : q = worker[w].provider
  BY <1>1
<1>3. TypeOK /\ q \in Providers /\ worker' \in [Workers -> WorkerState]
  BY <1>1, MovesType
<1>4. /\ StageCount(q) > 0 /\ StageCount(q) \in Nat
      /\ lost[q] \in 0 .. MaxLost
      /\ processing[q] = StageCount(q) + lost[q]
  BY <1>3, <1>2, StagingEnds, StagingIs DEF IInv, Accounted, TypeOK
<1>5. \A p \in Providers :
        StageCount(p)' = IF p = q THEN StageCount(p) - 1 ELSE StageCount(p)
  BY <1>3, <1>2, StagingEnds
<1>6. /\ processing' \in [Providers -> Nat]
      /\ lost' \in [Providers -> 0 .. MaxLost]
      /\ \A p \in Providers \ {q} : processing'[p] = processing[p] /\ lost'[p] = lost[p]
      /\ processing'[q] - lost'[q] = processing[q] - lost[q] - 1
  <2>1. CASE processing' = [processing EXCEPT ![q] = @ - 1] /\ UNCHANGED lost
    <3>1. processing[q] - 1 \in Nat
      BY <1>4
    <3>2. processing' \in [Providers -> Nat] /\ processing'[q] = processing[q] - 1
      BY <3>1, <2>1, <1>3 DEF TypeOK
    <3>3. \A p \in Providers \ {q} : processing'[p] = processing[p]
      BY <2>1, <1>3 DEF TypeOK
    <3> QED
      BY <3>2, <3>3, <2>1, <1>3, <1>4 DEF TypeOK
  <2>2. CASE lost[q] < MaxLost /\ lost' = [lost EXCEPT ![q] = @ + 1] /\ UNCHANGED processing
    <3>1. lost[q] + 1 \in 0 .. MaxLost
      BY <1>4, <2>2
    <3>2. lost' \in [Providers -> 0 .. MaxLost] /\ lost'[q] = lost[q] + 1
      BY <3>1, <2>2, <1>3 DEF TypeOK
    <3>3. \A p \in Providers \ {q} : lost'[p] = lost[p]
      BY <2>2, <1>3 DEF TypeOK
    <3>4. processing' \in [Providers -> Nat] /\ \A p \in Providers : processing'[p] = processing[p]
      BY <2>2, <1>3 DEF TypeOK
    <3>5. processing[q] \in Nat /\ lost[q] \in Nat
      BY <1>3 DEF TypeOK
    <3>6. processing'[q] - lost'[q] = processing[q] - lost[q] - 1
      BY <3>2, <3>4, <3>5
    <3> QED
      BY <3>2, <3>3, <3>4, <3>6
  <2> QED
    BY <2>1, <2>2, <1>2
<1>7. TypeOK'
  BY <1>3, <1>6 DEF TypeOK
<1>8. Accounted'
  <2> SUFFICES ASSUME NEW p \in Providers
               PROVE  processing'[p] = StageCount(p)' + lost'[p]
    BY DEF Accounted
  <2>1. processing[p] = StageCount(p) + lost[p] /\ StageCount(p) \in Nat /\ lost[p] \in Nat
    BY StagingIs DEF IInv, Accounted, TypeOK
  <2>2. CASE p = q
    <3>1. processing'[q] \in Nat /\ lost'[q] \in Nat /\ processing[q] \in Nat
      BY <1>3, <1>6 DEF TypeOK
    <3>2. StageCount(q)' = StageCount(q) - 1
      BY <1>3, <1>5
    <3>3. processing'[q] - lost'[q] = processing[q] - lost[q] - 1
      BY <1>6
    <3>4. processing'[q] = StageCount(q)' + lost'[q]
      BY <3>1, <3>2, <3>3, <2>1, <2>2
    <3> QED
      BY <3>4, <2>2
  <2>3. CASE p # q
    BY <2>1, <2>3, <1>5, <1>6
  <2> QED
    BY <2>2, <2>3
<1> QED
  BY <1>7, <1>8 DEF IInv

-----------------------------------------------------------------------------
(***************************************************************************)
(* The actions.                                                            *)
(***************************************************************************)

LEMMA DispatchKeeps == ASSUME IInv, NEW w \in Workers, Dispatch(w) PROVE IInv'
<1>1. TypeOK
  BY DEF IInv
<1>2. CASE BuildPlan(w)
  <2> DEFINE new == [pc |-> "send", due |-> {p \in Providers : Due(p)}]
  <2>1. Moves(w, new) /\ new.pc = "send" /\ worker[w].pc = "idle"
    BY <1>2, IdleType DEF BuildPlan, Moves, WorkerState
  <2> HIDE DEF new
  <2> QED
    BY <2>1, <1>1, <1>2, QuietMove DEF BuildPlan, TypeOK
<1>3. ASSUME NEW p \in Providers, Send(w, p) PROVE IInv'
  <2> DEFINE new == [worker[w] EXCEPT !.due = @ \ {p}]
  <2>1. worker[w] \in [pc : {"send"}, due : SUBSET Providers]
    BY <1>1, <1>3, WorkerShape DEF Send
  <2>2. new \in WorkerState /\ new.pc = "send"
    BY <2>1 DEF WorkerState
  <2>3. Moves(w, new)
    BY <2>2, <1>3 DEF Send, Moves
  <2>4. queue' \in [Providers -> [0 .. MaxRetries -> 0 .. MaxQueue]]
    BY <1>1, <1>3, EnqueueType DEF Send
  <2>5. worker[w].pc # "stage" /\ UNCHANGED <<active, age, processing, lost>>
    BY <1>3 DEF Send
  <2> HIDE DEF new
  <2> QED
    BY <2>2, <2>3, <2>4, <2>5, <1>1, QuietMove DEF TypeOK
<1>4. CASE EndDispatch(w)
  BY <1>1, <1>4, IdleType, QuietMove DEF EndDispatch, Moves, TypeOK
<1> QED
  BY <1>2, <1>3, <1>4 DEF Dispatch

LEMMA TakeKeeps ==
  ASSUME IInv, NEW w \in Workers, NEW p \in Providers, NEW n \in 0 .. MaxRetries, Take(w, p, n)
  PROVE  IInv'
<1>1. TypeOK
  BY DEF IInv
<1>2. Import(p, n) \in WorkerState /\ Import(p, n).pc = "start"
  BY DEF Import, WorkerState
<1>3. Moves(w, Import(p, n)) /\ worker[w].pc = "idle"
  BY <1>2, IdleType DEF Take, Moves
<1>4. queue[p][n] \in 0 .. MaxQueue /\ queue[p][n] > 0
  BY <1>1 DEF Take, TypeOK
<1>5. [queue[p] EXCEPT ![n] = @ - 1] \in [0 .. MaxRetries -> 0 .. MaxQueue]
  BY <1>1, <1>4 DEF TypeOK
<1>6. queue' \in [Providers -> [0 .. MaxRetries -> 0 .. MaxQueue]]
  BY <1>1, <1>5 DEF Take, TypeOK
<1> QED
  BY <1>1, <1>2, <1>3, <1>6, QuietMove DEF Take, TypeOK

LEMMA StartRunKeeps == ASSUME IInv, NEW w \in Workers, StartRun(w) PROVE IInv'
<1> DEFINE new == [worker[w] EXCEPT !.pc = "stage"]
<1>1. TypeOK /\ Accounted
  BY DEF IInv
<1>2. worker[w] \in [pc : {"start", "stage"}, provider : Providers, retries : 0 .. MaxRetries]
      /\ worker[w].pc = "start"
  BY <1>1, WorkerShape DEF StartRun
<1>3. new \in WorkerState /\ new.pc = "stage" /\ new.provider = worker[w].provider
  BY <1>2 DEF WorkerState
<1>4. Moves(w, new)
  BY <1>3 DEF StartRun, Moves
<1> HIDE DEF new
<1>5. PICK q \in Providers : q = worker[w].provider
  BY <1>2
<1>6. \A p : StageCount(p)' = IF p = q THEN StageCount(p) + 1 ELSE StageCount(p)
  BY <1>1, <1>2, <1>3, <1>4, <1>5, StagingBegins
<1>7. q \in Providers /\ processing' = [processing EXCEPT ![q] = @ + 1]
      /\ UNCHANGED <<active, age, queue, lost>>
  BY <1>5 DEF StartRun
<1>8. TypeOK'
  <2>1. processing[q] + 1 \in Nat
    BY <1>1 DEF TypeOK
  <2>2. processing' \in [Providers -> Nat]
    BY <2>1, <1>1, <1>7 DEF TypeOK
  <2>3. worker' \in [Workers -> WorkerState]
    BY <1>1, <1>4, MovesType
  <2> QED
    BY <2>2, <2>3, <1>1, <1>7 DEF TypeOK
<1>9. Accounted'
  <2> SUFFICES ASSUME NEW p \in Providers
               PROVE  processing'[p] = StageCount(p)' + lost'[p]
    BY DEF Accounted
  <2>1. processing[p] = StageCount(p) + lost[p] /\ StageCount(p) \in Nat /\ lost[p] \in Nat
    BY <1>1, StagingIs DEF Accounted, TypeOK
  <2>2. CASE p = q
    BY <2>1, <2>2, <1>1, <1>6, <1>7 DEF TypeOK
  <2>3. CASE p # q
    BY <2>1, <2>3, <1>1, <1>6, <1>7 DEF TypeOK
  <2> QED
    BY <2>2, <2>3
<1> QED
  BY <1>8, <1>9 DEF IInv

LEMMA StageKeeps == ASSUME IInv, NEW w \in Workers, Stage(w) PROVE IInv'
<1> DEFINE new == [pc |-> "promote", provider |-> worker[w].provider,
                   retries |-> worker[w].retries, age |-> 0]
<1>1. TypeOK /\ worker[w].pc = "stage"
  BY DEF IInv, Stage
<1>2. new \in WorkerState /\ new.pc = "promote"
  BY <1>1, AttemptFields DEF WorkerState
<1>3. Moves(w, new)
  BY <1>2 DEF Stage, Moves
<1> HIDE DEF new
<1> QED
  BY <1>1, <1>2, <1>3, RunEnds DEF Stage, TypeOK

LEMMA RunImportKeeps == ASSUME IInv, NEW w \in Workers, RunImport(w) PROVE IInv'
<1>1. TypeOK
  BY DEF IInv
<1>2. CASE StartRun(w)
  BY <1>2, StartRunKeeps
<1>3. CASE RefuseInactive(w)
  BY <1>1, <1>3, IdleType, QuietMove DEF RefuseInactive, EndTask, Moves, TypeOK
<1>4. CASE StartFails(w)
  <2>1. Moves(w, Idle) /\ queue' \in [Providers -> [0 .. MaxRetries -> 0 .. MaxQueue]]
    BY <1>1, <1>4, AttemptEnds DEF StartFails
  <2> QED
    BY <2>1, <1>1, <1>4, IdleType, QuietMove DEF StartFails, TypeOK
<1>5. CASE Stage(w)
  BY <1>5, StageKeeps
<1>6. CASE StageFails(w)
  <2>1. Moves(w, Idle) /\ queue' \in [Providers -> [0 .. MaxRetries -> 0 .. MaxQueue]]
    BY <1>1, <1>6, AttemptEnds DEF StageFails
  <2> QED
    BY <2>1, <1>6, IdleType, RunEnds DEF StageFails
<1>7. CASE StageLost(w)
  <2>1. Moves(w, Idle) /\ queue' \in [Providers -> [0 .. MaxRetries -> 0 .. MaxQueue]]
    BY <1>1, <1>7, AttemptEnds DEF StageLost
  <2> QED
    BY <2>1, <1>7, IdleType, RunEnds DEF StageLost
<1>8. CASE Completed(w)
  <2>1. Moves(w, Idle) /\ queue' \in [Providers -> [0 .. MaxRetries -> 0 .. MaxQueue]]
    BY <1>1, <1>8, AttemptEnds DEF Completed
  <2>2. worker[w].provider \in Providers /\ worker[w].age \in Nat
    BY <1>1, <1>8, WorkerShape DEF Completed
  <2>3. age' \in [Providers -> Nat]
    BY <2>2, <1>1, <1>8 DEF Completed, TypeOK, Younger
  <2> QED
    BY <2>1, <2>3, <1>1, <1>8, IdleType, QuietMove DEF Completed, TypeOK
<1>9. CASE PromoteFails(w)
  <2>1. Moves(w, Idle) /\ queue' \in [Providers -> [0 .. MaxRetries -> 0 .. MaxQueue]]
    BY <1>1, <1>9, AttemptEnds DEF PromoteFails
  <2> QED
    BY <2>1, <1>1, <1>9, IdleType, QuietMove DEF PromoteFails, TypeOK
<1> QED
  BY <1>2, <1>3, <1>4, <1>5, <1>6, <1>7, <1>8, <1>9 DEF RunImport

LEMMA RequestKeeps ==
  ASSUME IInv, NEW p \in Providers, Trigger(p) \/ SetActive(p)
  PROVE  IInv'
<1>1. TypeOK
  BY DEF IInv
<1>2. UNCHANGED <<age, processing, worker, lost>>
  BY DEF Trigger, SetActive
<1>3. CASE Trigger(p)
  <2>1. queue' \in [Providers -> [0 .. MaxRetries -> 0 .. MaxQueue]]
    BY <1>1, <1>3, EnqueueType DEF Trigger
  <2> QED
    BY <2>1, <1>1, <1>2, <1>3 DEF Trigger, IInv, TypeOK, Accounted, StageCount, Staging, Importing
<1>4. CASE SetActive(p)
  <2>1. active' \in [Providers -> BOOLEAN]
    BY <1>1, <1>4 DEF SetActive, TypeOK
  <2>2. UNCHANGED <<age, processing, queue, worker, lost>>
    BY <1>4 DEF SetActive
  <2>3. TypeOK'
    BY <2>1, <2>2, <1>1 DEF TypeOK
  <2>4. Accounted'
    BY <2>2 DEF IInv, Accounted, StageCount, Staging, Importing
  <2> QED
    BY <2>3, <2>4 DEF IInv
<1> QED
  BY <1>3, <1>4

LEMMA TickKeeps == IInv /\ Tick => IInv'
<1> SUFFICES ASSUME IInv, Tick PROVE IInv'
  OBVIOUS
<1>1. TypeOK
  BY DEF IInv
<1>2. age' \in [Providers -> Nat]
  BY <1>1, OlderType DEF Tick, TypeOK
<1>3. ASSUME NEW v \in Workers
      PROVE  worker'[v] \in WorkerState /\ worker'[v].pc = worker[v].pc
             /\ (worker[v].pc = "stage" => worker'[v] = worker[v])
  <2>1. CASE worker[v].pc = "promote"
    <3>1. worker[v] \in [pc : {"promote"}, provider : Providers, retries : 0 .. MaxRetries, age : Nat]
      BY <2>1, <1>1, WorkerShape
    <3>2. Older(worker[v].provider, worker[v].age) \in Nat
      BY <3>1, OlderType
    <3>3. worker'[v] = [worker[v] EXCEPT !.age = Older(worker[v].provider, worker[v].age)]
      BY <2>1 DEF Tick
    <3>4. worker'[v] \in [pc : {"promote"}, provider : Providers, retries : 0 .. MaxRetries, age : Nat]
      BY <3>1, <3>2, <3>3
    <3> QED
      BY <3>4, <2>1 DEF WorkerState
  <2>2. CASE worker[v].pc # "promote"
    BY <2>2, <1>1, WorkerShape DEF Tick
  <2> QED
    BY <2>1, <2>2
<1>4. worker' \in [Workers -> WorkerState]
  <2>1. worker' = [v \in Workers |-> worker'[v]]
    BY DEF Tick
  <2> QED
    BY <2>1, <1>3
<1>5. ASSUME NEW p \in Providers PROVE StageCount(p)' = StageCount(p)
  <2>1. Staging(p)' = {v \in Workers : worker'[v].pc = "stage" /\ worker'[v].provider = p}
    BY DEF Staging, Importing
  <2>2. Staging(p)' = Staging(p)
    BY <2>1, <1>3, StagingIs
  <2> QED
    BY <2>2 DEF StageCount
<1>6. TypeOK'
  BY <1>1, <1>2, <1>4 DEF Tick, TypeOK
<1>7. Accounted'
  BY <1>5 DEF IInv, Accounted, Tick
<1> QED
  BY <1>6, <1>7 DEF IInv

LEMMA NextKeepsIInv == IInv /\ [Next]_vars => IInv'
<1> SUFFICES ASSUME IInv, [Next]_vars PROVE IInv'
  OBVIOUS
<1>1. ASSUME NEW w \in Workers, Dispatch(w) PROVE IInv'
  BY <1>1, DispatchKeeps
<1>2. ASSUME NEW w \in Workers, NEW p \in Providers, NEW n \in 0 .. MaxRetries, Take(w, p, n)
      PROVE  IInv'
  BY <1>2, TakeKeeps
<1>3. ASSUME NEW w \in Workers, RunImport(w) PROVE IInv'
  BY <1>3, RunImportKeeps
<1>4. ASSUME NEW p \in Providers, Trigger(p) \/ SetActive(p) PROVE IInv'
  BY <1>4, RequestKeeps
<1>5. CASE Tick
  BY <1>5, TickKeeps
<1>6. CASE UNCHANGED vars
  BY <1>6 DEF vars, IInv, TypeOK, Accounted, StageCount, Staging, Importing
<1> QED
  BY <1>1, <1>2, <1>3, <1>4, <1>5, <1>6 DEF Next

\* The inductive invariant.
THEOREM IInvHolds == Spec => []IInv
<1>1. Init => IInv
  BY InitIInv
<1>2. IInv /\ [Next]_vars => IInv'
  BY NextKeepsIInv
<1> QED
  BY <1>1, <1>2, PTL DEF Spec

\* The types: no attempt is made beyond the retry limit, and no run is closed
\* that was not open.
THEOREM TypeCorrect == Spec => []TypeOK
<1>1. IInv => TypeOK
  BY DEF IInv
<1> QED
  BY <1>1, IInvHolds, PTL

\* For any number of providers and workers: whatever way an attempt ends, the
\* runs of a provider left in "processing" are those some worker is staging and
\* those whose outcome could not be recorded.
THEOREM RunsAccountedFor == Spec => []ProcessingRunsHaveTask
<1>1. IInv => ProcessingRunsHaveTask
  BY AccountedIsProperty DEF IInv
<1> QED
  BY <1>1, IInvHolds, PTL
=============================================================================
