---------------------------- MODULE ProviderAdmin ----------------------------
(***************************************************************************)
(* Administrators' requests about providers, and the audit trail they      *)
(* leave: edits and (de)activation (app/api/routers/admin_providers.py,    *)
(* app/db/provider_repositories.py) and the manual trigger of an import    *)
(* (app/api/routers/admin_imports.py), served at the same time.            *)
(*                                                                         *)
(* An edit locks the provider's row, changes it and records it in one      *)
(* transaction.  A trigger reads the row without a lock and enqueues its   *)
(* task before it is recorded.  One action is one statement, call to the   *)
(* broker or commit.  The ids of the audit trail come from a sequence,     *)
(* which a rollback does not turn back.                                    *)
(***************************************************************************)
EXTENDS Integers

CONSTANTS
  Providers,        \* ids that requests name
  Existing,         \* those with a row; nothing in the API adds or removes one
  Settings,         \* values of the columns ProviderUpdate may change
  Refused,          \* those a constraint of the table refuses
  Requests,         \* requests the API serves at a time
  MaxActions        \* bound: requests ever made

AdminAssumption ==
  /\ Existing \subseteq Providers
  /\ Settings \ Refused # {}
  /\ MaxActions \in Nat

VARIABLES
  provider,         \* each row of providers
  audit,            \* committed rows of admin_audit_logs
  lastId,           \* the sequence of their ids
  sent,             \* tasks enqueued, each named for its request
  request,          \* each request
  made              \* requests made so far

vars == <<provider, audit, lastId, sent, request, made>>

State == [setting : Settings, active : BOOLEAN]
Default == [setting |-> CHOOSE s \in Settings \ Refused : TRUE, active |-> TRUE]

\* What a request asks for: a setting, an activation, or an import.
Change ==
  [kind : {"setting"}, value : Settings] \cup [kind : {"active"}, value : BOOLEAN]
  \cup [kind : {"import"}]
Import == [kind |-> "import"]

Request ==
  [pc : {"idle", "lock", "flush", "audit", "audited", "check", "enqueue", "answered"},
   provider : Providers, change : Change, number : 0 .. MaxActions,
   before : State, after : State, id : Nat,
   outcome : {"none", "done", "not_found", "inactive", "error"}]

Idle == [pc |-> "idle", provider |-> CHOOSE p \in Providers : TRUE, change |-> Import,
         number |-> 0, before |-> Default, after |-> Default, id |-> 0, outcome |-> "none"]

\* A row of the trail: of a trigger it names the task.
Entry == [id : Nat \ {0}, provider : Providers, kind : {"edit", "import"},
          before : State, after : State, task : 0 .. MaxActions]

Init ==
  /\ provider = [p \in Existing |-> Default]
  /\ audit = {}
  /\ lastId = 0
  /\ sent = {}
  /\ request = [q \in Requests |-> Idle]
  /\ made = 0

Goto(q, pc) == request' = [request EXCEPT ![q].pc = pc]
Answer(q, outcome) == request' = [request EXCEPT ![q].pc = "answered", ![q].outcome = outcome]
tables == <<provider, audit, lastId, sent>>

Ask(q, p, change) ==
  /\ request[q].pc \in {"idle", "answered"}
  /\ made < MaxActions
  /\ made' = made + 1
  /\ request' = [request EXCEPT ![q] =
       [Idle EXCEPT !.pc = IF change = Import THEN "check" ELSE "lock",
                    !.provider = p, !.change = change, !.number = made + 1]]
  /\ UNCHANGED tables

-----------------------------------------------------------------------------
(***************************************************************************)
(* update_provider and set_provider_active.                                *)
(***************************************************************************)

Edited(row, change) ==
  IF change.kind = "setting" THEN [row EXCEPT !.setting = change.value]
  ELSE [row EXCEPT !.active = change.value]

Holds(q, p) ==
  /\ request[q].provider = p
  /\ request[q].change # Import
  /\ request[q].pc \in {"flush", "audit", "audited"}

\* Mutant: without FOR UPDATE.
ReadRow(q) ==
  LET p == request[q].provider
  IN  /\ request[q].pc = "lock"
      /\ IF p \notin Existing THEN Answer(q, "not_found")
         ELSE request' = [request EXCEPT
                ![q].pc = "flush", ![q].before = provider[p],
                ![q].after = Edited(provider[p], request[q].change)]
      /\ UNCHANGED <<tables, made>>

\* _get_for_update waits for whoever holds the row and reads what it committed.
LockRow(q) ==
  LET p == request[q].provider
  IN  /\ request[q].pc = "lock"
      /\ ~\E other \in Requests \ {q} : Holds(other, p)
      /\ IF p \notin Existing THEN Answer(q, "not_found")
         ELSE request' = [request EXCEPT
                ![q].pc = "flush", ![q].before = provider[p],
                ![q].after = Edited(provider[p], request[q].change)]
      /\ UNCHANGED <<tables, made>>

\* The UPDATE: a check or a NOT NULL constraint may refuse it.
Flush(q) ==
  /\ request[q].pc = "flush"
  /\ IF request[q].after.setting \in Refused THEN Answer(q, "error") ELSE Goto(q, "audit")
  /\ UNCHANGED <<tables, made>>

-----------------------------------------------------------------------------
(***************************************************************************)
(* trigger_provider_import.                                                *)
(***************************************************************************)

CheckActive(q) ==
  LET p == request[q].provider
  IN  /\ request[q].pc = "check"
      /\ IF p \notin Existing THEN Answer(q, "not_found")
         ELSE IF ~provider[p].active THEN Answer(q, "inactive")
         ELSE Goto(q, "enqueue")
      /\ UNCHANGED <<tables, made>>

\* Mutant: a broker that cannot be reached goes unnoticed.
EnqueueUnnoticed(q) ==
  /\ request[q].pc = "enqueue"
  /\ sent' \in {sent, sent \cup {request[q].number}}
  /\ Goto(q, "audit")
  /\ UNCHANGED <<provider, audit, lastId, made>>

\* delay(), or the broker cannot be reached.
Enqueue(q) ==
  /\ request[q].pc = "enqueue"
  /\ \/ sent' = sent \cup {request[q].number} /\ Goto(q, "audit")
     \/ Answer(q, "error") /\ UNCHANGED sent
  /\ UNCHANGED <<provider, audit, lastId, made>>

-----------------------------------------------------------------------------
\* record_admin_action, in the transaction of the caller.
Record(q) ==
  /\ request[q].pc = "audit"
  /\ lastId' = lastId + 1
  /\ request' = [request EXCEPT ![q].pc = "audited", ![q].id = lastId + 1]
  /\ UNCHANGED <<provider, audit, sent, made>>

EntryOf(q) ==
  [id |-> request[q].id, provider |-> request[q].provider,
   kind |-> IF request[q].change = Import THEN "import" ELSE "edit",
   before |-> request[q].before, after |-> request[q].after,
   task |-> IF request[q].change = Import THEN request[q].number ELSE 0]

\* The UPDATE sets the changed columns only.
Commit(q) ==
  LET p == request[q].provider
  IN  /\ request[q].pc = "audited"
      /\ audit' = audit \cup {EntryOf(q)}
      /\ provider' = IF request[q].change = Import THEN provider
                     ELSE [provider EXCEPT ![p] = Edited(@, request[q].change)]
      /\ Answer(q, "done")
      /\ UNCHANGED <<lastId, sent, made>>

\* The connection is lost: the transaction is rolled back, the task is not.
Cut(q) ==
  /\ request[q].pc \in {"lock", "flush", "check", "audit", "audited"}
  /\ Answer(q, "error")
  /\ UNCHANGED <<tables, made>>

Step(q) ==
  \/ \E p \in Providers, change \in Change : Ask(q, p, change)
  \/ LockRow(q) \/ Flush(q) \/ CheckActive(q) \/ Enqueue(q)
  \/ Record(q) \/ Commit(q) \/ Cut(q)

Next == \E q \in Requests : Step(q)

Spec == Init /\ [][Next]_vars

-----------------------------------------------------------------------------
\* Types, and that an id is given once.
TypeOK ==
  /\ provider \in [Existing -> State]
  /\ audit \subseteq Entry
  /\ \A e, f \in audit : e.id = f.id => e = f
  /\ lastId \in Nat
  /\ sent \subseteq 1 .. MaxActions
  /\ request \in [Requests -> Request]
  /\ made \in 0 .. MaxActions

Edits(p) == {e \in audit : e.provider = p /\ e.kind = "edit"}

\* The last of some edits has left the row in this state.
Leave(edits, row) ==
  IF edits = {} THEN row = Default
  ELSE \E e \in edits : e.after = row /\ \A f \in edits : f.id <= e.id

\* In the order of their ids the edits of a provider follow one another: each
\* begins with what the last one left, and the last one left the row.
EditsChain ==
  \A p \in Existing :
    /\ \A e \in Edits(p) : Leave({f \in Edits(p) : f.id < e.id}, e.before)
    /\ Leave(Edits(p), provider[p])

\* A trigger that is recorded was enqueued; what was enqueued and is not
\* recorded belongs to a request that was not answered as done.
TriggersRecorded ==
  /\ \A e \in audit : e.kind = "import" => e.task \in sent
  /\ \A q \in Requests :
       request[q].outcome = "done" => \E e \in audit : e = EntryOf(q)

\* The audit trail tells what happened to each provider, whatever requests
\* overlap, are refused by the table or are cut off.
AuditTrailTrue == EditsChain /\ TriggersRecorded
=============================================================================
