------------------------------- MODULE Members -------------------------------
(***************************************************************************)
(* What job seekers own: the account a Google sign-in finds or makes       *)
(* (app/services/auth/google_oauth_service.py, get_or_create_user) and the *)
(* name they give themselves and the jobs they save (app/api/v1/me.py,     *)
(* app/db/saved_job_repositories.py), on PostgreSQL under READ COMMITTED,  *)
(* by concurrent requests, beside the removal of jobs.                     *)
(*                                                                         *)
(* One action is one statement of a request, its commit included when      *)
(* nobody sees the statement's effects before it.  A row inserted and not  *)
(* committed makes an INSERT of the same key wait, and the job it names    *)
(* cannot be deleted.  Tokens are left out.                                *)
(***************************************************************************)
EXTENDS FiniteSets

CONSTANTS
  Subjects,         \* Google's subject ids
  Emails,           \* normalised: stripped and in lower case
  Jobs,             \* ids of jobs
  Requests          \* requests the API serves at a time

MembersAssumption == Subjects # {} /\ Emails # {} /\ Jobs # {}

VARIABLES
  user,             \* committed rows of users
  job,              \* each row of jobs
  saved,            \* committed rows of saved_jobs
  request,          \* each request
  kept,             \* history: saves that were answered and not undone since
  renamed           \* history: subjects told that they gave themselves a name

vars == <<user, job, saved, request, kept, renamed>>

\* A display name is Google's or the member's own.
User == [subject : Subjects, email : Emails, name : {"given", "own"}]
Bookmark == Subjects \X Jobs

Request ==
  [pc : {"idle", "identity", "email", "insert", "inserted",
         "check", "save", "held", "existing", "answered"},
   subject : Subjects, email : Emails, job : Jobs,
   again : BOOLEAN,                 \* after an IntegrityError
   outcome : {"none", "in", "collision", "saved", "unavailable", "error"},
   crossed : BOOLEAN]               \* history: undone while it was under way

Someone == CHOOSE s \in Subjects : TRUE
SomeMail == CHOOSE e \in Emails : TRUE
SomeJob == CHOOSE j \in Jobs : TRUE
Idle == [pc |-> "idle", subject |-> Someone, email |-> SomeMail, job |-> SomeJob,
         again |-> FALSE, outcome |-> "none", crossed |-> FALSE]

Known(s) == \E u \in user : u.subject = s
Taken(e) == \E u \in user : u.email = e

Init ==
  /\ user = {}
  /\ job = [j \in Jobs |-> "active"]
  /\ saved = {}
  /\ request = [q \in Requests |-> Idle]
  /\ kept = {}
  /\ renamed = {}

Goto(q, pc) == request' = [request EXCEPT ![q].pc = pc]

Answer(q, outcome) ==
  request' = [request EXCEPT ![q].pc = "answered", ![q].outcome = outcome]

tables == <<user, job, saved, kept, renamed>>

-----------------------------------------------------------------------------
(***************************************************************************)
(* get_or_create_user.                                                     *)
(***************************************************************************)

\* A callback with a verified profile; an address may move between subjects.
Callback(q, s, e) ==
  /\ request[q].pc = "idle"
  /\ request' = [request EXCEPT ![q] =
       [Idle EXCEPT !.pc = "identity", !.subject = s, !.email = e]]
  /\ UNCHANGED tables

FindIdentity(q) ==
  /\ request[q].pc = "identity"
  /\ IF Known(request[q].subject) THEN Answer(q, "in") ELSE Goto(q, "email")
  /\ UNCHANGED tables

\* Nobody has the address: an INSERT, or, after an IntegrityError, its raise.
FindEmail(q) ==
  /\ request[q].pc = "email"
  /\ IF Taken(request[q].email) THEN Answer(q, "collision")
     ELSE IF request[q].again THEN Answer(q, "error")
     ELSE Goto(q, "insert")
  /\ UNCHANGED tables

\* Inserted and not committed, with the identity or the address of q's row.
Rivals(q) ==
  {p \in Requests \ {q} : /\ request[p].pc = "inserted"
                          /\ \/ request[p].subject = request[q].subject
                             \/ request[p].email = request[q].email}

\* Mutant: only the address is looked for again.
CreateUserThenEmail(q) ==
  /\ request[q].pc = "insert"
  /\ Rivals(q) = {}
  /\ IF Known(request[q].subject) \/ Taken(request[q].email)
     THEN request' = [request EXCEPT ![q].pc = "email", ![q].again = TRUE]
     ELSE Goto(q, "inserted")
  /\ UNCHANGED tables

\* create_user: the flush raises IntegrityError on either unique index.
CreateUser(q) ==
  /\ request[q].pc = "insert"
  /\ Rivals(q) = {}
  /\ IF Known(request[q].subject) \/ Taken(request[q].email)
     THEN request' = [request EXCEPT ![q].pc = "identity", ![q].again = TRUE]
     ELSE Goto(q, "inserted")
  /\ UNCHANGED tables

CommitUser(q) ==
  /\ request[q].pc = "inserted"
  /\ user' = user \cup {[subject |-> request[q].subject, email |-> request[q].email,
                      name |-> "given"]}
  /\ Answer(q, "in")
  /\ UNCHANGED <<job, saved, kept, renamed>>

\* update_display_name: the row is found by its id and answered as it is now.
Rename(s) ==
  /\ Known(s)
  /\ user' = {IF u.subject = s THEN [u EXCEPT !.name = "own"] ELSE u : u \in user}
  /\ renamed' = renamed \cup {s}
  /\ UNCHANGED <<job, saved, request, kept>>

-----------------------------------------------------------------------------
(***************************************************************************)
(* The saved jobs of a member.                                             *)
(***************************************************************************)

Pair(q) == <<request[q].subject, request[q].job>>
Undo(pairs) ==
  /\ saved' = saved \ pairs
  /\ kept' = kept \ pairs

Crossed(pairs) ==
  [q \in Requests |-> [request[q] EXCEPT !.crossed = @ \/ Pair(q) \in pairs]]

Ask(q, s, j) ==
  /\ request[q].pc = "idle"
  /\ Known(s)
  /\ request' = [request EXCEPT ![q] = [Idle EXCEPT !.pc = "check", !.subject = s, !.job = j]]
  /\ UNCHANGED tables

CheckActive(q) ==
  /\ request[q].pc = "check"
  /\ IF job[request[q].job] = "active" THEN Goto(q, "save") ELSE Answer(q, "unavailable")
  /\ UNCHANGED tables

\* Mutant: a plain INSERT.
InsertSavedStrictly(q) ==
  /\ request[q].pc = "save"
  /\ ~\E p \in Requests \ {q} : request[p].pc = "held" /\ Pair(p) = Pair(q)
  /\ IF Pair(q) \in saved \/ job[request[q].job] = "gone" THEN Answer(q, "error")
     ELSE Goto(q, "held")
  /\ UNCHANGED tables

\* ON CONFLICT DO NOTHING waits for a row of the same key that is not
\* committed.  A job that is gone violates the foreign key, which ends q.
InsertSaved(q) ==
  /\ request[q].pc = "save"
  /\ ~\E p \in Requests \ {q} : request[p].pc = "held" /\ Pair(p) = Pair(q)
  /\ IF Pair(q) \in saved THEN Goto(q, "existing")
     ELSE IF job[request[q].job] = "gone" THEN Answer(q, "error")
     ELSE Goto(q, "held")
  /\ UNCHANGED tables

\* The row another request has inserted; one() raises when it is gone by now.
FindExisting(q) ==
  /\ request[q].pc = "existing"
  /\ IF Pair(q) \in saved
     THEN /\ Answer(q, "saved")
          /\ kept' = IF request[q].crossed THEN kept ELSE kept \cup {Pair(q)}
     ELSE Answer(q, "error") /\ UNCHANGED kept
  /\ UNCHANGED <<user, job, saved, renamed>>

\* Mutant: the request ends without its commit.
AnswerUncommitted(q) ==
  /\ request[q].pc = "held"
  /\ kept' = IF request[q].crossed THEN kept ELSE kept \cup {Pair(q)}
  /\ Answer(q, "saved")
  /\ UNCHANGED <<user, job, saved, renamed>>

CommitSaved(q) ==
  /\ request[q].pc = "held"
  /\ saved' = saved \cup {Pair(q)}
  /\ kept' = IF request[q].crossed THEN kept ELSE kept \cup {Pair(q)}
  /\ Answer(q, "saved")
  /\ UNCHANGED <<user, job, renamed>>

\* delete_saved_job, which does not see what is not committed.
Unsave(q, s, j) ==
  /\ request[q].pc = "idle"
  /\ Known(s)
  /\ Undo({<<s, j>>})
  /\ request' = Crossed({<<s, j>>})
  /\ UNCHANGED <<user, job, renamed>>

-----------------------------------------------------------------------------
(***************************************************************************)
(* What happens beside the requests.                                       *)
(***************************************************************************)

\* The sweep of an import; no import makes the row active again.
Sweep(j) ==
  /\ job[j] = "active"
  /\ job' = [job EXCEPT ![j] = "inactive"]
  /\ UNCHANGED <<user, saved, request, kept, renamed>>

\* Mutant: the saved rows are left.
HardDeleteAlone(j) ==
  /\ job[j] = "inactive"
  /\ ~\E q \in Requests : request[q].pc = "held" /\ request[q].job = j
  /\ job' = [job EXCEPT ![j] = "gone"]
  /\ UNCHANGED <<user, saved, request, kept, renamed>>

\* The cleanup waits for rows that refer to the job and takes the saved ones
\* with it (ON DELETE CASCADE).
HardDelete(j) ==
  LET pairs == {p \in Bookmark : p[2] = j} IN
  /\ job[j] = "inactive"
  /\ ~\E q \in Requests : request[q].pc = "held" /\ request[q].job = j
  /\ job' = [job EXCEPT ![j] = "gone"]
  /\ Undo(pairs)
  /\ request' = Crossed(pairs)
  /\ UNCHANGED <<user, renamed>>

\* The answer is sent; or an exception, a lost connection, the end of the
\* process: rollback.
Leave(q) ==
  /\ request[q].pc # "idle"
  /\ request' = [request EXCEPT ![q] = Idle]
  /\ UNCHANGED tables

-----------------------------------------------------------------------------
SignIn(q) ==
  \/ \E s \in Subjects, e \in Emails : Callback(q, s, e)
  \/ FindIdentity(q) \/ FindEmail(q) \/ CreateUser(q) \/ CommitUser(q)

SavedJobs(q) ==
  \/ \E s \in Subjects, j \in Jobs : Ask(q, s, j) \/ Unsave(q, s, j)
  \/ CheckActive(q) \/ InsertSaved(q) \/ FindExisting(q) \/ CommitSaved(q)

Next ==
  \/ \E q \in Requests : SignIn(q) \/ SavedJobs(q) \/ Leave(q)
  \/ \E s \in Subjects : Rename(s)
  \/ \E j \in Jobs : Sweep(j) \/ HardDelete(j)

Spec == Init /\ [][Next]_vars

-----------------------------------------------------------------------------
(***************************************************************************)
(* Properties.                                                             *)
(***************************************************************************)

\* Types; an identity and an address belong to one account each, and a saved
\* job is that of an account and a row.
TypeOK ==
  /\ user \subseteq User
  /\ job \in [Jobs -> {"active", "inactive", "gone"}]
  /\ saved \subseteq Bookmark /\ kept \subseteq Bookmark
  /\ renamed \subseteq Subjects
  /\ request \in [Requests -> Request]
  /\ \A u, v \in user : u.subject = v.subject \/ u.email = v.email => u = v
  /\ \A p \in saved : Known(p[1]) /\ job[p[2]] # "gone"

Other(q) == \E u \in user : u.email = request[q].email /\ u.subject # request[q].subject

\* Callbacks that insert the same account at the same time are told the truth:
\* one whose INSERT is refused ends with the account of its identity, or with a
\* collision when the address is another identity's.
RefusedInsertsResolved ==
  \A q \in Requests : request[q].pc = "answered" /\ request[q].again =>
    \/ request[q].outcome = "in" /\ Known(request[q].subject)
    \/ request[q].outcome = "collision" /\ Other(q)

\* Saving is idempotent also for requests at the same time: one fails only when
\* what it was to save was removed while it was under way.
SavesFailOnlyIfUndone ==
  \A q \in Requests : request[q].outcome = "error" => request[q].crossed

\* list_saved_jobs: the saved jobs that are active.
Listed(s) == {j \in Jobs : <<s, j>> \in saved /\ job[j] = "active"}

\* What a member was answered to be stored stays: a save, which is listed while
\* its job is active, until the member or the cleanup undoes it, and a name,
\* through the sign-ins that follow.
AnsweredEditsKept ==
  /\ kept \subseteq saved
  /\ \A p \in kept : job[p[2]] = "active" => p[2] \in Listed(p[1])
  /\ \A u \in user : u.subject \in renamed => u.name = "own"
=============================================================================
