----------------------------- MODULE RefreshTokens -----------------------------
(***************************************************************************)
(* Refresh tokens (app/services/auth/jwt_service.py on                     *)
(* app/db/auth_repositories.py): concurrent requests that sign in, refresh *)
(* and log out, on PostgreSQL under READ COMMITTED.                        *)
(*                                                                         *)
(* One action is one statement of a request, its commit included when the  *)
(* statement's effects are seen by nobody before it.  A request that has   *)
(* read its token with SELECT ... FOR UPDATE holds the row until it ends.  *)
(* Signing, hashing and cookies are left out: a token is its row.  The     *)
(* time is left out too: expires_at never changes, so what a request that  *)
(* took `now` finds expired is what had expired when it took it.           *)
(***************************************************************************)
EXTENDS Integers, FiniteSets

CONSTANTS
  Users,            \* rows of users
  Admins,           \* rows of admin_users
  Requests,         \* requests the API serves at a time
  MaxTokens         \* bound: refresh tokens ever issued

ASSUME TokenAssumption ==
  /\ MaxTokens \in Nat \ {0}
  /\ IsFiniteSet(Requests)
  /\ Users \cap Admins = {}
  /\ Users \cup Admins # {}

VARIABLES
  row,              \* refresh_tokens, by order of insertion
  issued,           \* how many rows there are
  enabled,          \* accounts that are not deleted or deactivated
  request,          \* each request
  ended             \* history: tokens a finished family revocation was to end

vars == <<row, issued, enabled, request, ended>>

Owners == Users \cup Admins
Tokens == 1 .. MaxTokens
Rows == 1 .. issued

Row == [owner : Owners, revoked : BOOLEAN, expired : BOOLEAN,
        session : Tokens]           \* history: the token of the sign-in

Request ==
  [pc : {"idle", "issue", "select", "held", "sweep"},
   op : {"signin", "refresh", "logout"},
   owner : Owners,                  \* whom a sign-in has authenticated
   token : Tokens,                  \* the row it has asked for
   scoped : BOOLEAN,                \* of the subject type the endpoint expects
   enabled : BOOLEAN,               \* owner_is_enabled, as of the SELECT
   fresh : BOOLEAN,                 \* now < expires_at
   revoked : BOOLEAN,               \* stored.revoked_at is not None
   targets : SUBSET Tokens,         \* rows the family's UPDATE matches
   family : SUBSET Tokens]          \* history: rows there were when it began

Someone == CHOOSE o \in Owners : TRUE
Idle == [pc |-> "idle", op |-> "signin", owner |-> Someone,
         token |-> 1, scoped |-> FALSE, enabled |-> FALSE, fresh |-> FALSE,
         revoked |-> FALSE, targets |-> {}, family |-> {}]

\* _new_refresh_token and create_refresh_token.
Fresh(o, session) ==
  [owner |-> o, revoked |-> FALSE, expired |-> FALSE, session |-> session]

Kind(o) == IF o \in Users THEN "user" ELSE "admin"
Busy == {q \in Requests : request[q].pc # "idle"}
Family(o) == {t \in Rows : row[t].owner = o}

\* Requests that hold the lock of a row.
Holders(t) == {q \in Requests : request[q].pc \in {"held", "sweep"} /\ request[q].token = t}

Live(t) == t \in Rows /\ ~row[t].revoked

-----------------------------------------------------------------------------
Init ==
  /\ row = [t \in Tokens |-> Fresh(Someone, 1)]
  /\ issued = 0
  /\ enabled = Owners
  /\ request = [q \in Requests |-> Idle]
  /\ ended = {}

End(q) == request' = [request EXCEPT ![q] = Idle]

\* Bound: a request under way may still insert a row.
Room == issued + Cardinality(Busy) < MaxTokens

-----------------------------------------------------------------------------
(***************************************************************************)
(* Signing in: an authentication, then a transaction of issue_refresh_token*)
(* of its own.                                                             *)
(***************************************************************************)

\* GoogleOAuthService.get_or_create_user returns a deleted user as it does any
\* other; AdminAuthService.authenticate_admin refuses a deactivated one.
SignIn(q, o) ==
  /\ request[q].pc = "idle"
  /\ o \in Admins => o \in enabled
  /\ Room
  /\ request' = [request EXCEPT ![q] = [Idle EXCEPT !.pc = "issue", !.owner = o]]
  /\ UNCHANGED <<row, issued, enabled, ended>>

Issue(q) ==
  /\ request[q].pc = "issue"
  /\ issued' = issued + 1
  /\ row' = [row EXCEPT ![issued + 1] = Fresh(request[q].owner, issued + 1)]
  /\ End(q)
  /\ UNCHANGED <<enabled, ended>>

-----------------------------------------------------------------------------
(***************************************************************************)
(* rotate_refresh_token and revoke_refresh_token.  A token nobody issued   *)
(* ends a request like one of the wrong scope: see Reject.                 *)
(***************************************************************************)

\* The request takes `now` and sends its SELECT ... FOR UPDATE.  The account
\* is joined in as of this moment: only the token's row is locked.
Ask(q, op, t, kind) ==
  /\ request[q].pc = "idle"
  /\ t \in Rows
  /\ Room
  /\ request' = [request EXCEPT ![q] =
       [Idle EXCEPT !.pc = "select", !.op = op, !.token = t,
                    !.scoped = (Kind(row[t].owner) = kind),
                    !.enabled = (row[t].owner \in enabled),
                    !.fresh = ~row[t].expired]]
  /\ UNCHANGED <<row, issued, enabled, ended>>

\* Mutant: the SELECT does not lock.
LockNothing(q) ==
  LET t == request[q].token IN
  /\ request[q].pc = "select"
  /\ request' = [request EXCEPT ![q].pc = "held", ![q].revoked = row[t].revoked]
  /\ UNCHANGED <<row, issued, enabled, ended>>

\* It waits for whoever holds the row and then reads it as it is.
Lock(q) ==
  LET t == request[q].token IN
  /\ request[q].pc = "select"
  /\ Holders(t) = {}
  /\ request' = [request EXCEPT ![q].pc = "held", ![q].revoked = row[t].revoked]
  /\ UNCHANGED <<row, issued, enabled, ended>>

Held(q, op) ==
  /\ request[q].pc = "held"
  /\ request[q].op = op
  /\ request[q].scoped

\* Mutant: the transaction is left open.
RejectUnfinished(q) ==
  /\ request[q].pc = "held"
  /\ ~request[q].scoped
  /\ UNCHANGED vars

\* The wrong scope, or a token that is good but for its age: rollback.
Reject(q) ==
  /\ request[q].pc = "held"
  /\ \/ ~request[q].scoped
     \/ /\ Held(q, "refresh")
        /\ request[q].enabled /\ ~request[q].revoked /\ ~request[q].fresh
  /\ End(q)
  /\ UNCHANGED <<row, issued, enabled, ended>>

\* The token is spent and its successor inserted in one transaction.
Rotate(q) ==
  LET t == request[q].token IN
  /\ Held(q, "refresh")
  /\ request[q].enabled
  /\ ~request[q].revoked
  /\ request[q].fresh
  /\ issued' = issued + 1
  /\ row' = [row EXCEPT
       ![t].revoked = TRUE,
       ![issued + 1] = Fresh(row[t].owner, row[t].session)]
  /\ End(q)
  /\ UNCHANGED <<enabled, ended>>

\* Mutant: the UPDATE does not name the account.
MatchedAnywhere(o) == {t \in Tokens : ~row[t].revoked}

\* A disabled owner or a spent token: revoke_all_refresh_tokens.  Its UPDATE
\* matches the rows there are when it begins ...
Matched(o) == {t \in Family(o) : ~row[t].revoked}

StartSweep(q) ==
  LET o == row[request[q].token].owner IN
  /\ Held(q, "refresh")
  /\ ~request[q].enabled \/ request[q].revoked
  /\ request' = [request EXCEPT ![q].pc = "sweep", ![q].targets = Matched(o),
                                ![q].family = Family(o)]
  /\ UNCHANGED <<row, issued, enabled, ended>>

\* ... waits for those that others hold, tests them again, and commits.
Blockers(q) == (UNION {Holders(t) : t \in request[q].targets}) \ {q}

\* Mutant: only the token that was presented is revoked.
EndSweepOfOne(q) ==
  /\ request[q].pc = "sweep"
  /\ Blockers(q) = {}
  /\ row' = [row EXCEPT ![request[q].token].revoked = TRUE]
  /\ ended' = ended \cup request[q].family
  /\ End(q)
  /\ UNCHANGED <<issued, enabled>>

EndSweep(q) ==
  /\ request[q].pc = "sweep"
  /\ Blockers(q) = {}
  /\ row' = [t \in Tokens |->
       IF t \in request[q].targets THEN [row[t] EXCEPT !.revoked = TRUE] ELSE row[t]]
  /\ ended' = ended \cup request[q].family
  /\ End(q)
  /\ UNCHANGED <<issued, enabled>>

\* Logging out looks neither at the account nor at the token's age.
LogOut(q) ==
  /\ Held(q, "logout")
  /\ row' = [row EXCEPT ![request[q].token].revoked = TRUE]
  /\ End(q)
  /\ UNCHANGED <<issued, enabled, ended>>

\* An exception, a lost connection, the end of the process: rollback.  A client
\* whose reply is lost sees the same and may ask again with the old token.
Fail(q) ==
  /\ request[q].pc # "idle"
  /\ End(q)
  /\ UNCHANGED <<row, issued, enabled, ended>>

\* Two families' updates that wait for each other's row: PostgreSQL aborts one.
Deadlocked(q) ==
  \E p \in Blockers(q) : request[p].pc = "sweep" /\ q \in Blockers(p)

Abort(q) ==
  /\ request[q].pc = "sweep"
  /\ Deadlocked(q)
  /\ End(q)
  /\ UNCHANGED <<row, issued, enabled, ended>>

-----------------------------------------------------------------------------
(***************************************************************************)
(* What happens beside the requests.                                       *)
(***************************************************************************)

\* The age of a spent token is never looked at: reuse is found before it.
Expire(t) ==
  /\ Live(t)
  /\ ~row[t].expired
  /\ row' = [row EXCEPT ![t].expired = TRUE]
  /\ UNCHANGED <<issued, enabled, request, ended>>

\* Nothing in the API sets deleted_at or is_active of an account.
SetEnabled(o, on) ==
  /\ enabled' = IF on THEN enabled \cup {o} ELSE enabled \ {o}
  /\ UNCHANGED <<row, issued, request, ended>>

-----------------------------------------------------------------------------
Arrive(q) ==
  \/ \E o \in Owners : SignIn(q, o)
  \/ \E op \in {"refresh", "logout"}, t \in Tokens, kind \in {"user", "admin"} :
       Ask(q, op, t, kind)

Proceed(q) ==
  \/ Issue(q) \/ Lock(q) \/ Reject(q) \/ Rotate(q)
  \/ StartSweep(q) \/ EndSweep(q) \/ LogOut(q) \/ Abort(q)

Next ==
  \/ \E q \in Requests : Arrive(q) \/ Proceed(q) \/ Fail(q)
  \/ \E t \in Tokens : Expire(t)
  \/ \E o \in Owners, on \in BOOLEAN : SetEnabled(o, on)

Spec == Init /\ [][Next]_vars

(***************************************************************************)
(* A request that can go on does.  The fairness is strong because requests *)
(* for a row's lock come and go: PostgreSQL grants it in the order in      *)
(* which it was asked for, and finds its deadlocks.                        *)
(***************************************************************************)
FairSpec ==
  /\ Spec
  /\ \A q \in Requests : SF_vars(Proceed(q))

-----------------------------------------------------------------------------
(***************************************************************************)
(* Properties.                                                             *)
(***************************************************************************)

\* Types; a sweep is to end no rows but those of the account it found.
TypeOK ==
  /\ row \in [Tokens -> Row]
  /\ issued \in 0 .. MaxTokens
  /\ enabled \in SUBSET Owners
  /\ request \in [Requests -> Request]
  /\ ended \subseteq Rows
  /\ \A q \in Requests :
       /\ request[q].targets \subseteq request[q].family
       /\ request[q].pc = "sweep" =>
            request[q].family \subseteq Family(row[request[q].token].owner)

\* However many requests present a token at the same time, and whatever fails in
\* between, a session has one token that is not spent: it is redeemed once
\* (rotate_refresh_token, which reads the row FOR UPDATE and revokes it in the
\* transaction that inserts the successor).
OneLiveTokenPerSession ==
  \A t, u \in Rows :
    row[t].session = row[u].session /\ t # u => row[t].revoked \/ row[u].revoked

\* When the presentation of a spent token has been answered, no token its account
\* had when the family's update began is alive, those of its other sessions
\* included, also if requests were rotating them or other updates were under
\* way.  (A rotation or a sign-in that commits after that moment is not
\* covered, see the README.)
EndedFamiliesStayEnded == \A t \in ended : ~Live(t)

\* Every request is answered: no lock is kept, and updates of families that wait
\* for each other are broken up.
RequestsEnd == \A q \in Requests : request[q].pc # "idle" ~> request[q].pc = "idle"
=============================================================================
