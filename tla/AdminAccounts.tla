---------------------------- MODULE AdminAccounts ----------------------------
(***************************************************************************)
(* The accounts of administrators: signing in with a password              *)
(* (app/services/auth/admin_auth_service.py, app/auth/admin_router.py,     *)
(* admin_login), and the commands that create an account and reset its     *)
(* password (scripts/create_admin.py, scripts/reset_admin_password.py),    *)
(* run at the same time.                                                   *)
(*                                                                         *)
(* A sign-in is two transactions: one checks the password and records the  *)
(* time, the next inserts the session's refresh token.  One action is one  *)
(* statement, its commit included when nobody can come in between.         *)
(*                                                                         *)
(* A session has one token that counts, the newest: its client rotates it, *)
(* which takes the lock of its row, spends it and inserts its successor.   *)
(* The UPDATE of a reset matches the rows there are when it begins, locks  *)
(* them one by one, waits for those that others hold, and leaves out those *)
(* that are spent by then: it does not see a successor committed in the    *)
(* meantime.  Whatever else ends a session (logging out, a replayed token, *)
(* a disabled account, its age) is RefreshTokens'.                         *)
(***************************************************************************)
EXTENDS Integers, FiniteSets

CONSTANTS
  Emails,           \* normalised: stripped and in lower case
  Passwords,
  Requests,         \* sign-ins
  Commands          \* runs of the two scripts

AccountsAssumption == Emails # {} /\ Passwords # {}

VARIABLES
  account,          \* rows of admin_users
  chosen,           \* history: the password last set, by which command that ended well
  session,          \* the newest refresh token of each sign-in
  request,          \* each sign-in
  command           \* each run of a script

vars == <<account, chosen, session, request, command>>

Account == [email : Emails, password : Passwords, active : BOOLEAN, logins : SUBSET Requests]

Request ==
  [pc : {"idle", "lookup", "login", "issue", "answered"},
   email : Emails, password : Passwords,
   loaded : SUBSET Account,       \* the row the lookup left in the session
   crossed : SUBSET Commands,     \* history: resets beside which it, or a rotation, ran
   outcome : {"none", "in", "refused", "error"}]

Command ==
  [pc : {"idle", "exists", "insert", "find", "revoke", "update", "commit", "ended"},
   email : Emails, password : Passwords,
   matched : SUBSET Requests,     \* rows its UPDATE has yet to lock
   revoking : SUBSET Requests,    \* rows it has locked
   outcome : {"none", "done", "error"}]

\* A token whose rotation is under way is not yet spent for anybody else.
Tokens == {"none", "live", "rotating", "revoked"}
Last == [password : Passwords, by : Commands]

SomeEmail == CHOOSE e \in Emails : TRUE
SomePassword == CHOOSE p \in Passwords : TRUE

NewAccount(e, p) == [email |-> e, password |-> p, active |-> TRUE, logins |-> {}]

Init ==
  /\ account = {}
  /\ chosen = [e \in Emails |-> {}]
  /\ session = [q \in Requests |-> "none"]
  /\ request = [q \in Requests |-> [pc |-> "idle", email |-> SomeEmail, password |-> SomePassword,
                                    loaded |-> {}, crossed |-> {}, outcome |-> "none"]]
  /\ command = [c \in Commands |-> [pc |-> "idle", email |-> SomeEmail, password |-> SomePassword,
                                    matched |-> {}, revoking |-> {}, outcome |-> "none"]]

Of(e) == {a \in account : a.email = e}
Goto(q, pc) == request' = [request EXCEPT ![q].pc = pc]
Answer(q, outcome) == request' = [request EXCEPT ![q].pc = "answered", ![q].outcome = outcome]
Proceed(c, pc) == command' = [command EXCEPT ![c].pc = pc]
End(c, outcome) ==
  command' = [command EXCEPT ![c].pc = "ended", ![c].outcome = outcome,
                             ![c].matched = {}, ![c].revoking = {}]

-----------------------------------------------------------------------------
(***************************************************************************)
(* authenticate_admin, then issue_refresh_token.                           *)
(***************************************************************************)

SignIn(q, e, p) ==
  /\ request[q].pc = "idle"
  /\ request' = [request EXCEPT ![q].pc = "lookup", ![q].email = e, ![q].password = p]
  /\ UNCHANGED <<account, chosen, session, command>>

\* get_admin_by_email; nobody learns which of the reasons refused it.
Lookup(q) ==
  LET found == Of(request[q].email)
  IN  /\ request[q].pc = "lookup"
      /\ IF \E a \in found : a.active /\ a.password = request[q].password
         THEN request' = [request EXCEPT ![q].pc = "login", ![q].loaded = found]
         ELSE Answer(q, "refused")
      /\ UNCHANGED <<account, chosen, session, command>>

\* Mutant: the whole row is written back as it was loaded.
RecordLoginOfLoaded(q) ==
  /\ request[q].pc = "login"
  /\ account' = (account \ Of(request[q].email))
                  \cup {[a EXCEPT !.logins = @ \cup {q}] : a \in request[q].loaded}
  /\ Goto(q, "issue")
  /\ UNCHANGED <<chosen, session, command>>

\* update_admin_last_login and the commit: the row is not read again, and the
\* UPDATE sets last_login_at only.
RecordLogin(q) ==
  /\ request[q].pc = "login"
  /\ account' = (account \ Of(request[q].email))
                  \cup {[a EXCEPT !.logins = @ \cup {q}] : a \in Of(request[q].email)}
  /\ Goto(q, "issue")
  /\ UNCHANGED <<chosen, session, command>>

\* A reset whose UPDATE of the tokens has begun does not see this one.
Unseen(e) == {c \in Commands : command[c].pc \in {"update", "commit"} /\ command[c].email = e}

IssueToken(q) ==
  /\ request[q].pc = "issue"
  /\ session' = [session EXCEPT ![q] = "live"]
  /\ request' = [request EXCEPT ![q].pc = "answered", ![q].outcome = "in",
                                ![q].crossed = @ \cup Unseen(request[q].email)]
  /\ UNCHANGED <<account, chosen, command>>

\* The database fails: what was committed stays.
Fail(q) ==
  /\ request[q].pc \in {"lookup", "login", "issue"}
  /\ Answer(q, "error")
  /\ UNCHANGED <<account, chosen, session, command>>

-----------------------------------------------------------------------------
(***************************************************************************)
(* rotate_refresh_token, of the newest token of a session.                 *)
(***************************************************************************)

\* Commands that have locked the row.
Holders(q) == {c \in Commands : q \in command[c].revoking}

\* The SELECT ... FOR UPDATE, which waits for a reset that holds the row, finds
\* it good and its owner enabled.
BeginRotation(q) ==
  /\ session[q] = "live"
  /\ Holders(q) = {}
  /\ \E a \in Of(request[q].email) : a.active
  /\ session' = [session EXCEPT ![q] = "rotating"]
  /\ UNCHANGED <<account, chosen, request, command>>

\* An UPDATE that waits for the row finds it spent; of the successor it knows
\* nothing.
CommitRotation(q) ==
  /\ session[q] = "rotating"
  /\ session' = [session EXCEPT ![q] = "live"]
  /\ request' = [request EXCEPT
       ![q].crossed = @ \cup {c \in Commands : q \in command[c].matched}]
  /\ command' = [c \in Commands |-> [command[c] EXCEPT !.matched = @ \ {q}]]
  /\ UNCHANGED <<account, chosen>>

\* Rolled back: the token is as good as before.
RotationFails(q) ==
  /\ session[q] = "rotating"
  /\ session' = [session EXCEPT ![q] = "live"]
  /\ UNCHANGED <<account, chosen, request, command>>

-----------------------------------------------------------------------------
(***************************************************************************)
(* create_admin.                                                           *)
(***************************************************************************)

Create(c, e, p) ==
  /\ command[c].pc = "idle"
  /\ command' = [command EXCEPT ![c].pc = "exists", ![c].email = e, ![c].password = p]
  /\ UNCHANGED <<account, chosen, session, request>>

CheckExists(c) ==
  /\ command[c].pc = "exists"
  /\ IF Of(command[c].email) # {} THEN End(c, "error") ELSE Proceed(c, "insert")
  /\ UNCHANGED <<account, chosen, session, request>>

Chosen(c) ==
  chosen' = [chosen EXCEPT ![command[c].email] =
    {[password |-> command[c].password, by |-> c]}]

\* The commit: IntegrityError when another run has created the account.
InsertAccount(c) ==
  LET e == command[c].email
  IN  /\ command[c].pc = "insert"
      /\ IF Of(e) # {} THEN End(c, "error") /\ UNCHANGED <<account, chosen>>
         ELSE /\ account' = account \cup {NewAccount(e, command[c].password)}
              /\ Chosen(c)
              /\ End(c, "done")
      /\ UNCHANGED <<session, request>>

-----------------------------------------------------------------------------
(***************************************************************************)
(* reset_admin_password.                                                   *)
(***************************************************************************)

Reset(c, e, p) ==
  /\ command[c].pc = "idle"
  /\ command' = [command EXCEPT ![c].pc = "find", ![c].email = e, ![c].password = p]
  /\ UNCHANGED <<account, chosen, session, request>>

FindAccount(c) ==
  /\ command[c].pc = "find"
  /\ IF Of(command[c].email) = {} THEN End(c, "error") ELSE Proceed(c, "revoke")
  /\ UNCHANGED <<account, chosen, session, request>>

Open(q) == session[q] \in {"live", "rotating"}
OpenOf(e) == {q \in Requests : Open(q) /\ request[q].email = e}
UnderWay(e) == {q \in Requests : request[q].email = e /\ request[q].pc \in {"login", "issue"}}

\* The UPDATE of the tokens matches the rows there are ...
BeginUpdate(c) ==
  /\ command[c].pc = "revoke"
  /\ command' = [command EXCEPT ![c].pc = "update", ![c].matched = OpenOf(command[c].email)]
  /\ UNCHANGED <<account, chosen, session, request>>

\* ... locks each when nobody else holds it, unless it is revoked by then ...
LockToken(c, q) ==
  /\ q \in command[c].matched
  /\ Holders(q) = {} /\ session[q] # "rotating"
  /\ command' = [command EXCEPT ![c].matched = @ \ {q},
                                ![c].revoking = IF session[q] = "live" THEN @ \cup {q} ELSE @]
  /\ UNCHANGED <<account, chosen, session, request>>

\* ... and is done.
EndUpdate(c) ==
  /\ command[c].pc = "update"
  /\ command[c].matched = {}
  /\ Proceed(c, "commit")
  /\ UNCHANGED <<account, chosen, session, request>>

\* The new password is flushed by the commit, after the tokens.
CommitReset(c) ==
  LET e == command[c].email
      revoked == command[c].revoking
  IN  /\ command[c].pc = "commit"
      /\ account' = (account \ Of(e))
                      \cup {[a EXCEPT !.password = command[c].password] : a \in Of(e)}
      /\ session' = [q \in Requests |-> IF q \in revoked THEN "revoked" ELSE session[q]]
      /\ request' = [q \in Requests |-> [request[q] EXCEPT
           !.crossed = IF q \in UnderWay(e) THEN @ \cup {c} ELSE @]]
      /\ Chosen(c)
      /\ End(c, "done")

\* SQLAlchemyError at the commit, or at the UPDATE: two that wait for each other's
\* rows are not both let through.
ResetFails(c) ==
  /\ command[c].pc \in {"update", "commit"}
  /\ End(c, "error")
  /\ UNCHANGED <<account, chosen, session, request>>

\* is_active is cleared in the database: there is no command for it.
Disable(e) ==
  /\ \E a \in Of(e) : a.active
  /\ account' = (account \ Of(e)) \cup {[a EXCEPT !.active = FALSE] : a \in Of(e)}
  /\ UNCHANGED <<chosen, session, request, command>>

Next ==
  \/ \E e \in Emails : Disable(e)
  \/ \E q \in Requests :
       \/ \E e \in Emails, p \in Passwords : SignIn(q, e, p)
       \/ Lookup(q) \/ RecordLogin(q) \/ IssueToken(q) \/ Fail(q)
       \/ BeginRotation(q) \/ CommitRotation(q) \/ RotationFails(q)
  \/ \E c \in Commands :
       \/ \E e \in Emails, p \in Passwords : Create(c, e, p) \/ Reset(c, e, p)
       \/ CheckExists(c) \/ InsertAccount(c)
       \/ FindAccount(c) \/ BeginUpdate(c) \/ EndUpdate(c)
       \/ \E q \in Requests : LockToken(c, q)
       \/ CommitReset(c) \/ ResetFails(c)

Spec == Init /\ [][Next]_vars

-----------------------------------------------------------------------------
TypeOK ==
  /\ account \subseteq Account
  /\ \A a, b \in account : a.email = b.email => a = b
  /\ chosen \in [Emails -> SUBSET Last]
  /\ session \in [Requests -> Tokens]
  /\ request \in [Requests -> Request]
  /\ command \in [Commands -> Command]

\* An account has the password that was set last, whatever sign-ins and other
\* commands wrote its row in the meantime.
LastPasswordStands == \A a \in account : {l.password : l \in chosen[a.email]} = {a.password}

\* A session is open under the current password only, unless its sign-in, or a
\* rotation of its token, was under way beside the very reset that set it: that
\* one may have missed its token, the next reset ends the session.
ResetsEndSessions ==
  \A q \in Requests :
    Open(q) =>
      \/ \E a \in Of(request[q].email) : a.password = request[q].password
      \/ \E l \in chosen[request[q].email] : l.by \in request[q].crossed

\* A reset holds: nothing that ran beside it brings the old password back, and
\* the sessions opened with it before are over but for those that a sign-in or a
\* rotation beside it gave a token it did not see.
ResetsHold == LastPasswordStands /\ ResetsEndSessions
=============================================================================
