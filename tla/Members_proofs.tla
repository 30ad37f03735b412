---------------------------- MODULE Members_proofs ----------------------------
(***************************************************************************)
(* Proofs about Members, for any number of identities, addresses, jobs and *)
(* concurrent requests.                                                    *)
(***************************************************************************)
EXTENDS Members, TLAPS

-----------------------------------------------------------------------------
(***************************************************************************)
(* The inductive invariant, in parts.                                      *)
(***************************************************************************)

Typed ==
  /\ user \subseteq User
  /\ job \in [Jobs -> {"active", "inactive", "gone"}]
  /\ saved \subseteq Bookmark /\ kept \subseteq Bookmark
  /\ renamed \subseteq Subjects
  /\ request \in [Requests -> Request]

\* An identity and an address belong to one account each, and who has given
\* himself a name has one.
AccountsUnique ==
  /\ \A u, v \in user : u.subject = v.subject \/ u.email = v.email => u = v
  /\ \A s \in renamed : Known(s)
  /\ \A u \in user : u.subject \in renamed => u.name = "own"

\* A row that is inserted and not committed has no rival, committed or not.
InsertsExclude ==
  /\ \A q \in Requests : request[q].pc = "inserted" =>
       ~Known(request[q].subject) /\ ~Taken(request[q].email)
  /\ \A p, q \in Requests :
       request[p].pc = "inserted" /\ request[q].pc = "inserted" /\ p # q =>
         request[p].subject # request[q].subject /\ request[p].email # request[q].email

\* What an IntegrityError has told a request stays true.
RefusalsKnown ==
  \A q \in Requests : request[q].again =>
    /\ request[q].pc \in {"idle", "identity", "email", "answered"}
    /\ Known(request[q].subject) \/ Taken(request[q].email)
    /\ request[q].pc = "email" => Other(q)
    /\ request[q].pc = "answered" =>
         \/ request[q].outcome = "in" /\ Known(request[q].subject)
         \/ request[q].outcome = "collision" /\ Other(q)

SavedRowsRefer ==
  /\ \A p \in saved : Known(p[1]) /\ job[p[2]] # "gone"
  /\ kept \subseteq saved
  /\ \A q \in Requests :
       /\ request[q].pc \in {"check", "save", "held", "existing"} => Known(request[q].subject)
       /\ request[q].pc = "held" => job[request[q].job] # "gone"

\* What a save needs is there unless something has crossed it.
CrossingsSeen ==
  \A q \in Requests :
    /\ request[q].outcome = "error" => request[q].crossed
    /\ request[q].pc = "save" /\ job[request[q].job] = "gone" => request[q].crossed
    /\ request[q].pc = "existing" /\ Pair(q) \notin saved => request[q].crossed
    /\ request[q].pc # "answered" => request[q].outcome = "none"

IInv ==
  /\ Typed /\ AccountsUnique /\ InsertsExclude /\ RefusalsKnown /\ SavedRowsRefer
  /\ CrossingsSeen

-----------------------------------------------------------------------------
LEMMA IdleTyped ==
  ASSUME MembersAssumption
  PROVE  Idle \in Request
BY DEF MembersAssumption, Idle, Request, Someone, SomeMail, SomeJob

LEMMA RequestParts ==
  ASSUME NEW q \in Requests, Typed
  PROVE  /\ request[q] \in Request
         /\ request[q].subject \in Subjects /\ request[q].email \in Emails
         /\ request[q].job \in Jobs /\ request[q].again \in BOOLEAN
         /\ request[q].crossed \in BOOLEAN /\ Pair(q) \in Bookmark
BY DEF Typed, Request, Pair, Bookmark

LEMMA InitHolds ==
  ASSUME MembersAssumption, Init
  PROVE  IInv
<1>1. \A q \in Requests : request[q] = Idle
  BY DEF Init
<1>2. Typed
  BY IdleTyped DEF Init, Typed
<1>3. AccountsUnique /\ SavedRowsRefer
  BY <1>1 DEF Init, AccountsUnique, SavedRowsRefer, Idle
<1>4. InsertsExclude /\ RefusalsKnown /\ CrossingsSeen
  BY <1>1 DEF InsertsExclude, RefusalsKnown, CrossingsSeen, Idle
<1> QED
  BY <1>2, <1>3, <1>4 DEF IInv

(***************************************************************************)
(* Steps that only move a request.  The request that moves says how; the   *)
(* rest of the invariant is about rows that stay.                          *)
(***************************************************************************)
LEMMA RequestStep ==
  ASSUME IInv, UNCHANGED tables, NEW q \in Requests, NEW r \in Request,
         request' = [request EXCEPT ![q] = r],
         r.pc = "inserted" =>
           /\ ~Known(r.subject) /\ ~Taken(r.email)
           /\ \A p \in Requests \ {q} : request[p].pc = "inserted" =>
                request[p].subject # r.subject /\ request[p].email # r.email,
         r.again =>
           /\ r.pc \in {"idle", "identity", "email", "answered"}
           /\ Known(r.subject) \/ Taken(r.email)
           /\ r.pc = "email" => \E u \in user : u.email = r.email /\ u.subject # r.subject
           /\ r.pc = "answered" =>
                \/ r.outcome = "in" /\ Known(r.subject)
                \/ /\ r.outcome = "collision"
                   /\ \E u \in user : u.email = r.email /\ u.subject # r.subject,
         r.pc \in {"check", "save", "held", "existing"} => Known(r.subject),
         r.pc = "held" => job[r.job] # "gone",
         r.outcome = "error" => r.crossed,
         r.pc = "save" /\ job[r.job] = "gone" => r.crossed,
         r.pc = "existing" /\ <<r.subject, r.job>> \notin saved => r.crossed,
         r.pc # "answered" => r.outcome = "none"
  PROVE  IInv'
<1>1. Typed /\ AccountsUnique /\ InsertsExclude /\ RefusalsKnown /\ SavedRowsRefer
      /\ CrossingsSeen
  BY DEF IInv
<1>2. UNCHANGED <<user, job, saved, kept, renamed>>
  BY DEF tables
<1>3. \A p \in Requests : request'[p] = IF p = q THEN r ELSE request[p]
  BY <1>1 DEF Typed
<1>4. Typed'
  BY <1>1, <1>2 DEF Typed
<1>5. AccountsUnique'
  BY <1>1, <1>2 DEF AccountsUnique, Known
<1>6. InsertsExclude'
  BY <1>1, <1>2, <1>3 DEF InsertsExclude, Known, Taken
<1>7. RefusalsKnown'
  BY <1>1, <1>2, <1>3 DEF RefusalsKnown, Known, Taken, Other
<1>8. SavedRowsRefer'
  BY <1>1, <1>2, <1>3 DEF SavedRowsRefer, Known
<1>9. CrossingsSeen'
  BY <1>1, <1>2, <1>3 DEF CrossingsSeen, Pair
<1> QED
  BY <1>4, <1>5, <1>6, <1>7, <1>8, <1>9 DEF IInv

LEMMA FreshStep ==
  ASSUME IInv, MembersAssumption, UNCHANGED tables, NEW q \in Requests,
         NEW r \in Request, request' = [request EXCEPT ![q] = r],
         r.again = FALSE, r.outcome = "none",
         r.pc \in {"idle", "identity"} \/ (r.pc = "check" /\ Known(r.subject))
  PROVE  IInv'
BY RequestStep

LEMMA CallbackKeeps ==
  ASSUME IInv, MembersAssumption, NEW q \in Requests, NEW s \in Subjects, NEW e \in Emails,
         Callback(q, s, e)
  PROVE  IInv'
<1> DEFINE r == [Idle EXCEPT !.pc = "identity", !.subject = s, !.email = e]
<1>1. r \in Request /\ r.again = FALSE /\ r.outcome = "none" /\ r.pc = "identity"
  BY IdleTyped DEF Idle, Request
<1>2. UNCHANGED tables /\ request' = [request EXCEPT ![q] = r]
  BY DEF Callback
<1> QED
  BY <1>1, <1>2, FreshStep

LEMMA AskKeeps ==
  ASSUME IInv, MembersAssumption, NEW q \in Requests, NEW s \in Subjects, NEW j \in Jobs,
         Ask(q, s, j)
  PROVE  IInv'
<1> DEFINE r == [Idle EXCEPT !.pc = "check", !.subject = s, !.job = j]
<1>1. r \in Request /\ r.again = FALSE /\ r.outcome = "none" /\ r.pc = "check" /\ r.subject = s
  BY IdleTyped DEF Idle, Request
<1>2. UNCHANGED tables /\ request' = [request EXCEPT ![q] = r] /\ Known(s)
  BY DEF Ask
<1> QED
  BY <1>1, <1>2, FreshStep

LEMMA LeaveKeeps ==
  ASSUME IInv, MembersAssumption, NEW q \in Requests, Leave(q)
  PROVE  IInv'
<1>1. Idle \in Request /\ Idle.again = FALSE /\ Idle.outcome = "none" /\ Idle.pc = "idle"
  BY IdleTyped DEF Idle
<1>2. UNCHANGED tables /\ request' = [request EXCEPT ![q] = Idle]
  BY DEF Leave
<1> QED
  BY <1>1, <1>2, FreshStep

LEMMA FindIdentityKeeps ==
  ASSUME IInv, NEW q \in Requests, FindIdentity(q)
  PROVE  IInv'
<1> DEFINE t == request[q]
           in == [t EXCEPT !.pc = "answered", !.outcome = "in"]
           on == [t EXCEPT !.pc = "email"]
<1>1. /\ t \in Request /\ t.pc = "identity" /\ t.outcome = "none" /\ UNCHANGED tables
      /\ t.again => Known(t.subject) \/ Taken(t.email)
  BY DEF IInv, Typed, FindIdentity, CrossingsSeen, RefusalsKnown
<1>2. /\ in \in Request /\ in.pc = "answered" /\ in.outcome = "in" /\ in.again = t.again
      /\ in.subject = t.subject /\ in.email = t.email
      /\ on \in Request /\ on.pc = "email" /\ on.outcome = "none" /\ on.again = t.again
      /\ on.subject = t.subject /\ on.email = t.email
  BY <1>1 DEF Request
<1>3. CASE Known(t.subject)
  <2>1. request' = [request EXCEPT ![q] = in]
    BY <1>3 DEF FindIdentity, Answer
  <2> HIDE DEF in, t
  <2> QED
    BY <2>1, <1>1, <1>2, <1>3, RequestStep
<1>4. CASE ~Known(t.subject)
  <2>1. request' = [request EXCEPT ![q] = on]
    BY <1>4 DEF FindIdentity, Goto
  <2>2. t.again => \E u \in user : u.email = t.email /\ u.subject # t.subject
    BY <1>1, <1>4 DEF Known, Taken
  <2> HIDE DEF on, t
  <2> QED
    BY <2>1, <2>2, <1>1, <1>2, RequestStep
<1> QED
  BY <1>3, <1>4

LEMMA FindEmailKeeps ==
  ASSUME IInv, NEW q \in Requests, FindEmail(q)
  PROVE  IInv'
<1> DEFINE t == request[q]
           told == [t EXCEPT !.pc = "answered", !.outcome = "collision"]
           on == [t EXCEPT !.pc = "insert"]
<1>1. /\ t \in Request /\ t.pc = "email" /\ t.outcome = "none" /\ UNCHANGED tables
      /\ t.again => Taken(t.email) /\ \E u \in user : u.email = t.email /\ u.subject # t.subject
  BY DEF IInv, Typed, FindEmail, CrossingsSeen, RefusalsKnown, Other, Taken
<1>2. /\ told \in Request /\ told.pc = "answered" /\ told.outcome = "collision"
      /\ told.again = t.again /\ told.subject = t.subject /\ told.email = t.email
      /\ on \in Request /\ on.pc = "insert" /\ on.outcome = "none" /\ on.again = t.again
      /\ on.subject = t.subject /\ on.email = t.email /\ t.again \in BOOLEAN
  BY <1>1 DEF Request
<1>3. CASE Taken(t.email)
  <2>1. request' = [request EXCEPT ![q] = told]
    BY <1>3 DEF FindEmail, Answer
  <2> HIDE DEF told, t
  <2> QED
    BY <2>1, <1>1, <1>2, <1>3, RequestStep
<1>4. CASE ~Taken(t.email)
  <2>1. t.again = FALSE /\ request' = [request EXCEPT ![q] = on]
    BY <1>1, <1>2, <1>4 DEF FindEmail, Goto
  <2> HIDE DEF on, t
  <2> QED
    BY <2>1, <1>1, <1>2, RequestStep
<1> QED
  BY <1>3, <1>4

LEMMA CreateUserKeeps ==
  ASSUME IInv, NEW q \in Requests, CreateUser(q)
  PROVE  IInv'
<1> DEFINE t == request[q]
           refused == [t EXCEPT !.pc = "identity", !.again = TRUE]
           done == [t EXCEPT !.pc = "inserted"]
<1>1. /\ t \in Request /\ t.pc = "insert" /\ t.outcome = "none" /\ UNCHANGED tables
      /\ t.again = FALSE
  BY DEF IInv, Typed, CreateUser, CrossingsSeen, RefusalsKnown, Request
<1>2. /\ refused \in Request /\ refused.pc = "identity" /\ refused.outcome = "none"
      /\ refused.subject = t.subject /\ refused.email = t.email
      /\ done \in Request /\ done.pc = "inserted" /\ done.outcome = "none"
      /\ done.again = FALSE /\ done.subject = t.subject /\ done.email = t.email
  BY <1>1 DEF Request
<1>3. CASE Known(t.subject) \/ Taken(t.email)
  <2>1. request' = [request EXCEPT ![q] = refused]
    BY <1>3 DEF CreateUser
  <2> HIDE DEF refused, t
  <2> QED
    BY <2>1, <1>1, <1>2, <1>3, RequestStep
<1>4. CASE ~Known(t.subject) /\ ~Taken(t.email)
  <2>1. request' = [request EXCEPT ![q] = done]
    BY <1>4 DEF CreateUser, Goto
  <2>2. \A p \in Requests \ {q} : request[p].pc = "inserted" =>
          request[p].subject # t.subject /\ request[p].email # t.email
    BY DEF CreateUser, Rivals
  <2> HIDE DEF done, t
  <2> QED
    BY <2>1, <2>2, <1>1, <1>2, <1>4, RequestStep
<1> QED
  BY <1>3, <1>4

LEMMA CheckActiveKeeps ==
  ASSUME IInv, NEW q \in Requests, CheckActive(q)
  PROVE  IInv'
<1> DEFINE t == request[q]
           told == [t EXCEPT !.pc = "answered", !.outcome = "unavailable"]
           on == [t EXCEPT !.pc = "save"]
<1>1. /\ t \in Request /\ t.pc = "check" /\ t.outcome = "none" /\ UNCHANGED tables
      /\ t.again = FALSE /\ Known(t.subject)
  BY DEF IInv, Typed, CheckActive, CrossingsSeen, RefusalsKnown, SavedRowsRefer, Request
<1>2. /\ told \in Request /\ told.pc = "answered" /\ told.outcome = "unavailable"
      /\ told.again = FALSE
      /\ on \in Request /\ on.pc = "save" /\ on.outcome = "none" /\ on.again = FALSE
      /\ on.subject = t.subject /\ on.job = t.job
  BY <1>1 DEF Request
<1>3. CASE job[t.job] = "active"
  <2>1. request' = [request EXCEPT ![q] = on]
    BY <1>3 DEF CheckActive, Goto
  <2> HIDE DEF on, t
  <2> QED
    BY <2>1, <1>1, <1>2, <1>3, RequestStep
<1>4. CASE job[t.job] # "active"
  <2>1. request' = [request EXCEPT ![q] = told]
    BY <1>4 DEF CheckActive, Answer
  <2> HIDE DEF told, t
  <2> QED
    BY <2>1, <1>1, <1>2, RequestStep
<1> QED
  BY <1>3, <1>4

LEMMA InsertSavedKeeps ==
  ASSUME IInv, NEW q \in Requests, InsertSaved(q)
  PROVE  IInv'
<1> DEFINE t == request[q]
           found == [t EXCEPT !.pc = "existing"]
           failed == [t EXCEPT !.pc = "answered", !.outcome = "error"]
           held == [t EXCEPT !.pc = "held"]
<1>1. /\ t \in Request /\ t.pc = "save" /\ t.outcome = "none" /\ UNCHANGED tables
      /\ t.again = FALSE /\ Known(t.subject)
      /\ job[t.job] = "gone" => t.crossed
  BY DEF IInv, Typed, InsertSaved, CrossingsSeen, RefusalsKnown, SavedRowsRefer, Request
<1>2. /\ found \in Request /\ found.pc = "existing" /\ found.outcome = "none"
      /\ found.again = FALSE /\ found.subject = t.subject /\ found.job = t.job
      /\ failed \in Request /\ failed.pc = "answered" /\ failed.again = FALSE
      /\ failed.crossed = t.crossed
      /\ held \in Request /\ held.pc = "held" /\ held.outcome = "none"
      /\ held.again = FALSE /\ held.subject = t.subject /\ held.job = t.job
  BY <1>1 DEF Request
<1>3. CASE Pair(q) \in saved
  <2>1. request' = [request EXCEPT ![q] = found]
    BY <1>3 DEF InsertSaved, Goto
  <2>2. <<t.subject, t.job>> \in saved
    BY <1>3 DEF Pair
  <2> HIDE DEF found, t
  <2> QED
    BY <2>1, <2>2, <1>1, <1>2, RequestStep
<1>4. CASE Pair(q) \notin saved /\ job[t.job] = "gone"
  <2>1. request' = [request EXCEPT ![q] = failed]
    BY <1>4 DEF InsertSaved, Answer
  <2> HIDE DEF failed, t
  <2> QED
    BY <2>1, <1>1, <1>2, <1>4, RequestStep
<1>5. CASE Pair(q) \notin saved /\ job[t.job] # "gone"
  <2>1. request' = [request EXCEPT ![q] = held]
    BY <1>5 DEF InsertSaved, Goto
  <2> HIDE DEF held, t
  <2> QED
    BY <2>1, <1>1, <1>2, <1>5, RequestStep
<1> QED
  BY <1>3, <1>4, <1>5

-----------------------------------------------------------------------------
(***************************************************************************)
(* Steps that write rows.                                                  *)
(***************************************************************************)

LEMMA CommitUserKeeps ==
  ASSUME IInv, NEW q \in Requests, CommitUser(q)
  PROVE  IInv'
<1> DEFINE t == request[q]
           new == [subject |-> t.subject, email |-> t.email, name |-> "given"]
           r == [t EXCEPT !.pc = "answered", !.outcome = "in"]
<1>1. Typed /\ AccountsUnique /\ InsertsExclude /\ RefusalsKnown /\ SavedRowsRefer
      /\ CrossingsSeen
  BY DEF IInv
<1>2. /\ t \in Request /\ t.pc = "inserted" /\ t.again = FALSE
      /\ ~Known(t.subject) /\ ~Taken(t.email)
  BY <1>1 DEF Typed, CommitUser, RefusalsKnown, InsertsExclude, Request
<1>3. /\ r \in Request /\ r.pc = "answered" /\ r.outcome = "in" /\ r.again = FALSE
  BY <1>2 DEF Request
<1>4. /\ user' = user \cup {new} /\ request' = [request EXCEPT ![q] = r]
      /\ UNCHANGED <<job, saved, kept, renamed>>
  BY DEF CommitUser, Answer
<1>5. \A p \in Requests : request'[p] = IF p = q THEN r ELSE request[p]
  BY <1>1, <1>4 DEF Typed
<1>6. new \in User /\ new.subject = t.subject /\ new.email = t.email
  BY <1>2 DEF User, Request
<1> HIDE DEF new, r
<1>7. Typed'
  BY <1>1, <1>3, <1>4, <1>6 DEF Typed
\* Nobody has the identity or the address yet.
<1>8. AccountsUnique'
  BY <1>1, <1>2, <1>4, <1>6 DEF AccountsUnique, Known, Taken
<1>9. /\ \A s : Known(s) => Known(s)'
      /\ \A e : Taken(e) => Taken(e)'
      /\ \A s : Known(s)' => Known(s) \/ s = t.subject
      /\ \A e : Taken(e)' => Taken(e) \/ e = t.email
  BY <1>4, <1>6 DEF Known, Taken
<1>10. InsertsExclude'
  BY <1>1, <1>2, <1>3, <1>5, <1>9 DEF InsertsExclude
<1>11. RefusalsKnown'
  BY <1>1, <1>3, <1>4, <1>5 DEF RefusalsKnown, Known, Taken, Other
<1>12. SavedRowsRefer'
  BY <1>1, <1>3, <1>4, <1>5 DEF SavedRowsRefer, Known
<1>13. CrossingsSeen'
  BY <1>1, <1>3, <1>4, <1>5 DEF CrossingsSeen, Pair
<1> QED
  BY <1>7, <1>8, <1>10, <1>11, <1>12, <1>13 DEF IInv

LEMMA RenameKeeps ==
  ASSUME IInv, NEW s \in Subjects, Rename(s)
  PROVE  IInv'
<1> DEFINE own(u) == IF u.subject = s THEN [u EXCEPT !.name = "own"] ELSE u
<1>1. Typed /\ AccountsUnique /\ InsertsExclude /\ RefusalsKnown /\ SavedRowsRefer
      /\ CrossingsSeen
  BY DEF IInv
<1>2. /\ user' = {own(u) : u \in user} /\ renamed' = renamed \cup {s} /\ Known(s)
      /\ UNCHANGED <<job, saved, request, kept>>
  BY DEF Rename
<1>3. \A u \in user : /\ own(u) \in User /\ own(u).subject = u.subject
                      /\ own(u).email = u.email
                      /\ own(u).name = IF u.subject = s THEN "own" ELSE u.name
  BY <1>1 DEF Typed, User
<1> HIDE DEF own
<1>4. Typed'
  BY <1>1, <1>2, <1>3 DEF Typed
<1>5. /\ \A x : Known(x)' <=> Known(x)
      /\ \A e : Taken(e)' <=> Taken(e)
      /\ \A q : Other(q) => Other(q)'
  BY <1>2, <1>3 DEF Known, Taken, Other
<1>6. AccountsUnique'
  <2>1. \A u, v \in user' : u.subject = v.subject \/ u.email = v.email => u = v
    BY <1>1, <1>2, <1>3 DEF AccountsUnique
  <2>2. \A x \in renamed' : Known(x)'
    BY <1>1, <1>2, <1>5 DEF AccountsUnique
  <2>3. \A u \in user' : u.subject \in renamed' => u.name = "own"
    BY <1>1, <1>2, <1>3 DEF AccountsUnique
  <2> QED
    BY <2>1, <2>2, <2>3 DEF AccountsUnique
<1>7. InsertsExclude'
  BY <1>1, <1>2, <1>5 DEF InsertsExclude
<1>8. RefusalsKnown'
  BY <1>1, <1>2, <1>5 DEF RefusalsKnown
<1>9. SavedRowsRefer'
  BY <1>1, <1>2, <1>5 DEF SavedRowsRefer
<1>10. CrossingsSeen'
  BY <1>1, <1>2 DEF CrossingsSeen, Pair
<1> QED
  BY <1>4, <1>6, <1>7, <1>8, <1>9, <1>10 DEF IInv

\* A save that is answered: its row is there.
LEMMA SavedStep ==
  ASSUME IInv, NEW q \in Requests, request[q].pc \in {"held", "existing"},
         saved' = saved \cup {Pair(q)}, kept' \in {kept, kept \cup {Pair(q)}},
         job[request[q].job] # "gone", Answer(q, "saved"), UNCHANGED <<user, job, renamed>>
  PROVE  IInv'
<1> DEFINE t == request[q]
           r == [t EXCEPT !.pc = "answered", !.outcome = "saved"]
<1>1. Typed /\ AccountsUnique /\ InsertsExclude /\ RefusalsKnown /\ SavedRowsRefer
      /\ CrossingsSeen
  BY DEF IInv
<1>2. t \in Request /\ t.again = FALSE /\ Known(t.subject) /\ Pair(q) \in Bookmark
  BY <1>1 DEF Typed, RefusalsKnown, SavedRowsRefer, Request, Pair, Bookmark
<1>3. r \in Request /\ r.pc = "answered" /\ r.outcome = "saved" /\ r.again = FALSE
  BY <1>2 DEF Request
<1>4. \A p \in Requests : request'[p] = IF p = q THEN r ELSE request[p]
  BY <1>1 DEF Typed, Answer
<1>5. request' = [request EXCEPT ![q] = r]
  BY DEF Answer
<1> HIDE DEF r
<1>6. Typed'
  BY <1>1, <1>2, <1>3, <1>5 DEF Typed
<1>7. AccountsUnique'
  BY <1>1 DEF AccountsUnique, Known
<1>8. InsertsExclude'
  BY <1>1, <1>3, <1>4 DEF InsertsExclude, Known, Taken
<1>9. RefusalsKnown'
  BY <1>1, <1>3, <1>4 DEF RefusalsKnown, Known, Taken, Other
<1>10. SavedRowsRefer'
  <2>1. Pair(q)[1] = t.subject /\ Pair(q)[2] = t.job
    BY DEF Pair
  <2> QED
    BY <2>1, <1>1, <1>2, <1>3, <1>4 DEF SavedRowsRefer, Known
<1>11. CrossingsSeen'
  BY <1>1, <1>3, <1>4 DEF CrossingsSeen, Pair
<1> QED
  BY <1>6, <1>7, <1>8, <1>9, <1>10, <1>11 DEF IInv

LEMMA CommitSavedKeeps ==
  ASSUME IInv, NEW q \in Requests, CommitSaved(q)
  PROVE  IInv'
<1>1. job[request[q].job] # "gone" /\ request[q].pc = "held"
  BY DEF IInv, SavedRowsRefer, CommitSaved
<1> QED
  BY <1>1, SavedStep DEF CommitSaved

LEMMA FindExistingKeeps ==
  ASSUME IInv, NEW q \in Requests, FindExisting(q)
  PROVE  IInv'
<1>1. CASE Pair(q) \in saved
  <2>1. job[request[q].job] # "gone" /\ saved' = saved \cup {Pair(q)}
    BY <1>1 DEF IInv, SavedRowsRefer, FindExisting, Pair
  <2>2. kept' \in {kept, kept \cup {Pair(q)}} /\ Answer(q, "saved")
    BY <1>1 DEF FindExisting
  <2> QED
    BY <2>1, <2>2, SavedStep DEF FindExisting
<1>2. CASE Pair(q) \notin saved
  <2> DEFINE t == request[q]
             r == [t EXCEPT !.pc = "answered", !.outcome = "error"]
  <2>1. t \in Request /\ t.again = FALSE /\ t.crossed
    BY <1>2 DEF IInv, Typed, RefusalsKnown, CrossingsSeen, FindExisting, Request
  <2>2. r \in Request /\ r.pc = "answered" /\ r.again = FALSE /\ r.crossed
    BY <2>1 DEF Request
  <2>3. UNCHANGED tables /\ request' = [request EXCEPT ![q] = r]
    BY <1>2 DEF FindExisting, Answer, tables
  <2> HIDE DEF r
  <2> QED
    BY <2>2, <2>3, RequestStep
<1> QED
  BY <1>1, <1>2

\* Saved rows are removed, and the requests for them crossed.
LEMMA UndoStep ==
  ASSUME IInv, NEW pairs \in SUBSET Bookmark, Undo(pairs), request' = Crossed(pairs),
         UNCHANGED <<user, renamed>>,
         job' \in [Jobs -> {"active", "inactive", "gone"}],
         \A j \in Jobs : job'[j] = "gone" =>
           \/ job[j] = "gone"
           \/ /\ \A p \in Bookmark : p[2] = j => p \in pairs
              /\ ~\E q \in Requests : request[q].pc = "held" /\ request[q].job = j
  PROVE  IInv'
<1>1. Typed /\ AccountsUnique /\ InsertsExclude /\ RefusalsKnown /\ SavedRowsRefer
      /\ CrossingsSeen
  BY DEF IInv
<1>2. saved' = saved \ pairs /\ kept' = kept \ pairs
  BY DEF Undo
<1>3. \A q \in Requests : request[q] \in Request
  BY <1>1 DEF Typed
<1>4. ASSUME NEW q \in Requests
      PROVE  /\ request'[q] \in Request
             /\ request'[q].pc = request[q].pc /\ request'[q].subject = request[q].subject
             /\ request'[q].email = request[q].email /\ request'[q].job = request[q].job
             /\ request'[q].again = request[q].again
             /\ request'[q].outcome = request[q].outcome
             /\ request'[q].crossed = (request[q].crossed \/ Pair(q) \in pairs)
  <2> DEFINE x == request[q].crossed \/ Pair(q) \in pairs
  <2>1. request'[q] = [request[q] EXCEPT !.crossed = x] /\ x \in BOOLEAN
    BY DEF Crossed
  <2> HIDE DEF x
  <2>2. /\ [request[q] EXCEPT !.crossed = x] \in Request
        /\ [request[q] EXCEPT !.crossed = x].crossed = x
    BY <2>1, <1>3 DEF Request
  <2>3. LET r == [request[q] EXCEPT !.crossed = x] IN
          /\ r.pc = request[q].pc /\ r.subject = request[q].subject
          /\ r.email = request[q].email /\ r.job = request[q].job
          /\ r.again = request[q].again /\ r.outcome = request[q].outcome
    BY <1>3 DEF Request
  <2> QED
    BY <2>1, <2>2, <2>3 DEF x
<1>5. \A q \in Requests : Pair(q)' = Pair(q) /\ Pair(q) \in Bookmark
  <2>1. \A q \in Requests : Pair(q) \in Bookmark
    BY <1>1, RequestParts
  <2> QED
    BY <2>1, <1>4 DEF Pair
<1>6. Typed'
  <2>1. request' \in [Requests -> Request]
    BY <1>4 DEF Crossed
  <2> QED
    BY <2>1, <1>1, <1>2 DEF Typed
<1>7. AccountsUnique'
  BY <1>1 DEF AccountsUnique, Known
<1>8. InsertsExclude'
  BY <1>1, <1>4 DEF InsertsExclude, Known, Taken
<1>9. RefusalsKnown'
  BY <1>1, <1>4 DEF RefusalsKnown, Known, Taken, Other
<1>10. SavedRowsRefer'
  <2>1. ASSUME NEW p \in saved' PROVE Known(p[1])' /\ job'[p[2]] # "gone"
    <3>1. p \in saved /\ p \notin pairs /\ p \in Bookmark /\ p[2] \in Jobs
      BY <1>1, <1>2 DEF Typed, Bookmark
    <3> QED
      BY <3>1, <1>1 DEF SavedRowsRefer, Known
  <2>2. kept' \subseteq saved'
    BY <1>1, <1>2 DEF SavedRowsRefer
  <2>3. ASSUME NEW q \in Requests
        PROVE  /\ request'[q].pc \in {"check", "save", "held", "existing"} =>
                    Known(request[q].subject)'
               /\ request'[q].pc = "held" => job'[request'[q].job] # "gone"
    <3>1. request[q].job \in Jobs
      BY <1>1, RequestParts
    <3> QED
      BY <3>1, <1>1, <1>4 DEF SavedRowsRefer, Known
  <2> QED
    BY <2>1, <2>2, <2>3 DEF SavedRowsRefer
<1>11. CrossingsSeen'
  <2>1. ASSUME NEW q \in Requests, request[q].pc = "save", job'[request[q].job] = "gone"
        PROVE  request'[q].crossed
    <3>1. request[q].job \in Jobs /\ Pair(q) \in Bookmark /\ Pair(q)[2] = request[q].job
      BY <1>1, RequestParts DEF Pair
    <3> QED
      BY <2>1, <3>1, <1>1, <1>4 DEF CrossingsSeen
  <2>2. ASSUME NEW q \in Requests, request[q].pc = "existing", Pair(q) \notin saved'
        PROVE  request'[q].crossed
    BY <2>2, <1>1, <1>2, <1>4 DEF CrossingsSeen
  <2>3. ASSUME NEW q \in Requests
        PROVE  /\ request'[q].outcome = "error" => request'[q].crossed
               /\ request'[q].pc # "answered" => request'[q].outcome = "none"
    BY <1>1, <1>4 DEF CrossingsSeen
  <2>4. ASSUME NEW q \in Requests
        PROVE  /\ request'[q].pc = "save" /\ job'[request'[q].job] = "gone" =>
                    request'[q].crossed
               /\ request'[q].pc = "existing" /\ Pair(q)' \notin saved' =>
                    request'[q].crossed
    <3>1. request'[q].pc = request[q].pc /\ request'[q].job = request[q].job
      BY <1>4
    <3>2. Pair(q)' = Pair(q)
      BY <1>5
    <3> QED
      BY <3>1, <3>2, <2>1, <2>2
  <2> QED
    BY <2>3, <2>4 DEF CrossingsSeen
<1> QED
  BY <1>6, <1>7, <1>8, <1>9, <1>10, <1>11 DEF IInv

LEMMA UnsaveKeeps ==
  ASSUME IInv, NEW q \in Requests, NEW s \in Subjects, NEW j \in Jobs, Unsave(q, s, j)
  PROVE  IInv'
<1>1. {<<s, j>>} \in SUBSET Bookmark
  BY DEF Bookmark
<1>2. job' = job /\ job \in [Jobs -> {"active", "inactive", "gone"}]
  BY DEF Unsave, IInv, Typed
<1> QED
  BY <1>1, <1>2, UndoStep DEF Unsave

LEMMA SweepKeeps ==
  ASSUME IInv, NEW j \in Jobs, Sweep(j)
  PROVE  IInv'
<1>1. Typed /\ AccountsUnique /\ InsertsExclude /\ RefusalsKnown /\ SavedRowsRefer
      /\ CrossingsSeen
  BY DEF IInv
<1>2. /\ UNCHANGED <<user, saved, request, kept, renamed>>
      /\ job' \in [Jobs -> {"active", "inactive", "gone"}]
      /\ \A k \in Jobs : job'[k] = "gone" <=> job[k] = "gone"
  BY <1>1 DEF Sweep, Typed
<1>3. /\ \A q \in Requests : request[q].job \in Jobs
      /\ \A p \in saved : p[2] \in Jobs
  BY <1>1, RequestParts DEF Typed, Bookmark
<1>4. Typed'
  BY <1>1, <1>2 DEF Typed
<1>5. AccountsUnique' /\ InsertsExclude' /\ RefusalsKnown'
  BY <1>1, <1>2 DEF AccountsUnique, InsertsExclude, RefusalsKnown, Known, Taken, Other
<1>6. SavedRowsRefer'
  BY <1>1, <1>2, <1>3 DEF SavedRowsRefer, Known
<1>7. CrossingsSeen'
  BY <1>1, <1>2, <1>3 DEF CrossingsSeen, Pair
<1> QED
  BY <1>4, <1>5, <1>6, <1>7 DEF IInv

LEMMA HardDeleteKeeps ==
  ASSUME IInv, NEW j \in Jobs, HardDelete(j)
  PROVE  IInv'
<1> DEFINE pairs == {p \in Bookmark : p[2] = j}
<1>1. /\ job' \in [Jobs -> {"active", "inactive", "gone"}]
      /\ \A k \in Jobs : job'[k] = "gone" => job[k] = "gone" \/ k = j
  BY DEF HardDelete, IInv, Typed
<1>2. /\ Undo(pairs) /\ request' = Crossed(pairs) /\ UNCHANGED <<user, renamed>>
      /\ ~\E q \in Requests : request[q].pc = "held" /\ request[q].job = j
  BY DEF HardDelete
<1>3. pairs \in SUBSET Bookmark /\ \A p \in Bookmark : p[2] = j => p \in pairs
  OBVIOUS
<1> HIDE DEF pairs
<1> QED
  BY <1>1, <1>2, <1>3, UndoStep

LEMMA StutterKeeps ==
  ASSUME IInv, UNCHANGED vars
  PROVE  IInv'
<1>1. UNCHANGED <<user, job, saved, request, kept, renamed>>
  BY DEF vars
<1>2. Typed' /\ AccountsUnique' /\ SavedRowsRefer'
  BY <1>1 DEF IInv, Typed, AccountsUnique, SavedRowsRefer, Known
<1>3. InsertsExclude' /\ RefusalsKnown' /\ CrossingsSeen'
  BY <1>1 DEF IInv, InsertsExclude, RefusalsKnown, CrossingsSeen, Known, Taken, Other, Pair
<1> QED
  BY <1>2, <1>3 DEF IInv

LEMMA NextKeeps ==
  ASSUME IInv, MembersAssumption, [Next]_vars
  PROVE  IInv'
<1>1. ASSUME NEW q \in Requests, SignIn(q) PROVE IInv'
  BY <1>1, CallbackKeeps, FindIdentityKeeps, FindEmailKeeps, CreateUserKeeps,
     CommitUserKeeps DEF SignIn
<1>2. ASSUME NEW q \in Requests, SavedJobs(q) PROVE IInv'
  BY <1>2, AskKeeps, UnsaveKeeps, CheckActiveKeeps, InsertSavedKeeps, FindExistingKeeps,
     CommitSavedKeeps DEF SavedJobs
<1>3. ASSUME NEW q \in Requests, Leave(q) PROVE IInv'
  BY <1>3, LeaveKeeps
<1>4. ASSUME NEW s \in Subjects, Rename(s) PROVE IInv'
  BY <1>4, RenameKeeps
<1>5. ASSUME NEW j \in Jobs, Sweep(j) \/ HardDelete(j) PROVE IInv'
  BY <1>5, SweepKeeps, HardDeleteKeeps
<1>6. CASE UNCHANGED vars
  BY <1>6, StutterKeeps
<1> QED
  BY <1>1, <1>2, <1>3, <1>4, <1>5, <1>6 DEF Next

-----------------------------------------------------------------------------
(***************************************************************************)
(* What the module promises.                                               *)
(***************************************************************************)

\* The inductive invariant.
THEOREM IInvHolds ==
  ASSUME MembersAssumption
  PROVE  Spec => []IInv
<1>1. Init => IInv
  BY InitHolds
<1>2. IInv /\ [Next]_vars => IInv'
  BY NextKeeps
<1> QED
  BY <1>1, <1>2, PTL DEF Spec

LEMMA Consequences ==
  ASSUME IInv
  PROVE  TypeOK /\ RefusedInsertsResolved /\ SavesFailOnlyIfUndone /\ AnsweredEditsKept
<1>1. Typed /\ AccountsUnique /\ RefusalsKnown /\ SavedRowsRefer /\ CrossingsSeen
  BY DEF IInv
<1>2. TypeOK
  BY <1>1 DEF TypeOK, Typed, AccountsUnique, SavedRowsRefer
<1>3. RefusedInsertsResolved
  BY <1>1 DEF RefusedInsertsResolved, RefusalsKnown
<1>4. SavesFailOnlyIfUndone
  BY <1>1 DEF SavesFailOnlyIfUndone, CrossingsSeen
<1>5. AnsweredEditsKept
  <2>1. \A p \in kept : p[2] \in Jobs /\ <<p[1], p[2]>> = p
    BY <1>1 DEF Typed, Bookmark
  <2> QED
    BY <2>1, <1>1 DEF AnsweredEditsKept, Listed, SavedRowsRefer, AccountsUnique
<1> QED
  BY <1>2, <1>3, <1>4, <1>5

\* Types; an identity and an address belong to one account each, and what is
\* saved refers to an account and to a row.
THEOREM TypeCorrect ==
  ASSUME MembersAssumption
  PROVE  Spec => []TypeOK
BY IInvHolds, Consequences, PTL

\* However many callbacks insert the same account at the same time, those whose
\* INSERT is refused end with the account, or with a collision that is one.
THEOREM RefusalsResolved ==
  ASSUME MembersAssumption
  PROVE  Spec => []RefusedInsertsResolved
BY IInvHolds, Consequences, PTL

\* However many requests save the same job at the same time, one fails only when
\* what it was to save was removed under way.
THEOREM SavingIsIdempotent ==
  ASSUME MembersAssumption
  PROVE  Spec => []SavesFailOnlyIfUndone
BY IInvHolds, Consequences, PTL

\* What was answered to be saved, and a name a member gave himself, stay until
\* they are undone.
THEOREM AnswersStay ==
  ASSUME MembersAssumption
  PROVE  Spec => []AnsweredEditsKept
BY IInvHolds, Consequences, PTL
=============================================================================
