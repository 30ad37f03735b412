------------------------- MODULE RefreshTokens_proofs -------------------------
(***************************************************************************)
(* Proofs about RefreshTokens, for any number of accounts, tokens and      *)
(* requests: a session has one live token, and a family that was ended     *)
(* stays ended.                                                            *)
(***************************************************************************)
EXTENDS RefreshTokens, FiniteSetTheorems, TLAPS

USE TokenAssumption

-----------------------------------------------------------------------------
(***************************************************************************)
(* The inductive invariant.                                                *)
(***************************************************************************)

Types ==
  /\ row \in [Tokens -> Row]
  /\ issued \in 0 .. MaxTokens
  /\ enabled \in SUBSET Owners
  /\ request \in [Requests -> Request]

\* There is room for what the requests under way may insert.
Capacity == issued + Cardinality(Busy) <= MaxTokens

Asking == {"select", "held", "sweep"}
Locking == {"held", "sweep"}

\* A request asks for a row that exists, and no two hold the same.
Pointers == \A q \in Requests : request[q].pc \in Asking => request[q].token \in Rows

Exclusive ==
  \A p, q \in Requests :
    /\ request[p].pc \in Locking
    /\ request[q].pc \in Locking
    /\ request[p].token = request[q].token
    => p = q

\* What a request has read of a row it holds is what the row still says.
ReadsHold ==
  \A q \in Requests :
    request[q].pc = "held" => request[q].revoked = row[request[q].token].revoked

\* The rows of a session start with that of its sign-in.
Sessions == \A t \in Rows : row[t].session \in Rows

\* An account's rows that its update does not match are revoked already.
SweepOf(q) ==
  /\ request[q].family \subseteq Family(row[request[q].token].owner)
  /\ \A t \in request[q].family : t \in request[q].targets \/ row[t].revoked

Sweeps ==
  \A q \in Requests :
    /\ request[q].targets \subseteq request[q].family
    /\ request[q].pc = "sweep" => SweepOf(q)

Ends == ended \subseteq Rows /\ EndedFamiliesStayEnded

IInv ==
  /\ Types /\ Capacity /\ Pointers
  /\ Exclusive /\ ReadsHold
  /\ Sessions /\ OneLiveTokenPerSession
  /\ Sweeps /\ Ends

-----------------------------------------------------------------------------
(***************************************************************************)
(* Types.                                                                  *)
(***************************************************************************)

LEMMA SomeoneOwner == Someone \in Owners
BY DEF Someone, Owners

LEMMA FreshType ==
  ASSUME NEW o \in Owners, NEW s \in Tokens
  PROVE  Fresh(o, s) \in Row
BY DEF Fresh, Row

LEMMA IdleType == Idle \in Request
BY SomeoneOwner DEF Idle, Request, Tokens

LEMMA RowsType ==
  ASSUME issued \in 0 .. MaxTokens
  PROVE  Rows \subseteq Tokens /\ (issued < MaxTokens => issued + 1 \in Tokens)
BY DEF Rows, Tokens

LEMMA AskType ==
  ASSUME NEW op \in {"refresh", "logout"}, NEW t \in Tokens,
         NEW scoped \in BOOLEAN, NEW on \in BOOLEAN, NEW fresh \in BOOLEAN
  PROVE  [Idle EXCEPT !.pc = "select", !.op = op, !.token = t, !.scoped = scoped,
                      !.enabled = on, !.fresh = fresh] \in Request
BY IdleType DEF Request

LEMMA LockType ==
  ASSUME NEW r \in Request, NEW b \in BOOLEAN
  PROVE  [r EXCEPT !.pc = "held", !.revoked = b] \in Request
BY DEF Request

LEMMA SweepType ==
  ASSUME NEW r \in Request, NEW targets \in SUBSET Tokens, NEW family \in SUBSET Tokens
  PROVE  [r EXCEPT !.pc = "sweep", !.targets = targets, !.family = family] \in Request
BY DEF Request

LEMMA RevokeType ==
  ASSUME NEW r \in Row
  PROVE  [r EXCEPT !.revoked = TRUE] \in Row
BY DEF Row

LEMMA ExpireType ==
  ASSUME NEW r \in Row
  PROVE  [r EXCEPT !.expired = TRUE] \in Row
BY DEF Row

\* The number of busy requests, when one arrives or ends.
LEMMA BusyFinite == IsFiniteSet(Busy) /\ Cardinality(Busy) \in Nat
<1>1. Busy \subseteq Requests
  BY DEF Busy
<1> QED
  BY <1>1, FS_Subset, FS_CardinalityType

LEMMA BusyArrives ==
  ASSUME NEW q \in Requests, NEW r, request \in [Requests -> Request],
         request[q].pc = "idle", r.pc # "idle",
         request' = [request EXCEPT ![q] = r]
  PROVE  Cardinality(Busy') = Cardinality(Busy) + 1
<1>1. Busy' = Busy \cup {q} /\ q \notin Busy
  BY DEF Busy
<1> QED
  BY <1>1, BusyFinite, FS_AddElement

LEMMA BusyEnds ==
  ASSUME NEW q \in Requests, request \in [Requests -> Request],
         request[q].pc # "idle", End(q)
  PROVE  Cardinality(Busy') = Cardinality(Busy) - 1 /\ Cardinality(Busy) > 0
<1>1. Busy' = Busy \ {q} /\ q \in Busy
  BY DEF Busy, End, Idle
<1>2. Cardinality(Busy') = Cardinality(Busy) - 1
  BY <1>1, BusyFinite, FS_RemoveElement
<1>3. IsFiniteSet(Busy') /\ Cardinality(Busy') \in Nat
  BY <1>1, BusyFinite, FS_RemoveElement, FS_CardinalityType
<1> QED
  BY <1>2, <1>3, BusyFinite

LEMMA BusyStays ==
  ASSUME NEW q \in Requests, NEW r, request \in [Requests -> Request],
         request[q].pc # "idle", r.pc # "idle",
         request' = [request EXCEPT ![q] = r]
  PROVE  Busy' = Busy
BY DEF Busy

Core == Types /\ Capacity /\ Pointers

LEMMA CoreInit == Init => Core
<1> SUFFICES ASSUME Init PROVE Core
  OBVIOUS
<1>1. Types
  <2>1. 1 \in Tokens
    BY DEF Tokens
  <2> QED
    BY <2>1, SomeoneOwner, FreshType, IdleType DEF Init, Types
<1>2. Busy = {}
  BY DEF Init, Busy, Idle
<1>3. Cardinality(Busy) = 0
  BY <1>2, FS_EmptySet
<1>4. Capacity
  BY <1>3 DEF Init, Capacity
<1>5. Pointers
  BY DEF Init, Pointers, Asking, Idle
<1> QED
  BY <1>1, <1>4, <1>5 DEF Core

\* The end of a request that wrote nothing, or only rows there were.
LEMMA CoreEnd ==
  ASSUME Core, NEW q \in Requests, request[q].pc # "idle", End(q),
         row' \in [Tokens -> Row], issued' = issued, enabled' = enabled
  PROVE  Core'
<1>1. Types'
  BY IdleType DEF Core, Types, End
<1>2. Capacity'
  BY BusyEnds, BusyFinite DEF Core, Types, Capacity
<1>3. Pointers'
  BY DEF Core, Types, Pointers, End, Idle, Asking, Rows
<1> QED
  BY <1>1, <1>2, <1>3 DEF Core

\* The end of one that inserted a row.
LEMMA CoreInsert ==
  ASSUME Core, NEW q \in Requests, request[q].pc # "idle", End(q),
         issued + 1 \in Tokens => row' \in [Tokens -> Row],
         issued' = issued + 1, enabled' = enabled
  PROVE  Core' /\ issued + 1 \in Tokens
<1>1. Cardinality(Busy') = Cardinality(Busy) - 1 /\ Cardinality(Busy) > 0
  BY BusyEnds DEF Core, Types
<1>2. issued < MaxTokens
  BY <1>1, BusyFinite DEF Core, Types, Capacity
<1>3. issued + 1 \in Tokens
  BY <1>2, RowsType DEF Core, Types
<1>4. Types'
  BY <1>2, <1>3, IdleType DEF Core, Types, End
<1>5. Capacity'
  BY <1>1, BusyFinite DEF Core, Types, Capacity
<1>6. Pointers'
  BY DEF Core, Types, Pointers, End, Idle, Asking, Rows
<1> QED
  BY <1>3, <1>4, <1>5, <1>6 DEF Core

\* A request that goes on and holds or asks for a row there is.
LEMMA CoreGoesOn ==
  ASSUME Core, NEW q \in Requests, request[q].pc # "idle",
         NEW r \in Request, r.pc # "idle", r.token = request[q].token,
         request[q].pc \in Asking,
         request' = [request EXCEPT ![q] = r], UNCHANGED <<row, issued, enabled>>
  PROVE  Core'
<1>1. Types'
  BY DEF Core, Types
<1>2. Capacity'
  BY BusyStays DEF Core, Types, Capacity
<1>3. Pointers'
  BY DEF Core, Types, Pointers, Asking, Rows
<1> QED
  BY <1>1, <1>2, <1>3 DEF Core

LEMMA CoreArrives ==
  ASSUME Core, NEW q \in Requests, request[q].pc = "idle", Room,
         NEW r \in Request, r.pc # "idle", r.pc \in Asking => r.token \in Rows,
         request' = [request EXCEPT ![q] = r], UNCHANGED <<row, issued, enabled>>
  PROVE  Core'
<1>1. Types'
  BY DEF Core, Types
<1>2. Capacity'
  <2>1. Cardinality(Busy') = Cardinality(Busy) + 1
    BY BusyArrives DEF Core, Types
  <2>2. issued + Cardinality(Busy) < MaxTokens
    BY DEF Room
  <2> QED
    BY <2>1, <2>2, BusyFinite DEF Core, Types, Capacity
<1>3. Pointers'
  BY DEF Core, Types, Pointers, Asking, Rows
<1> QED
  BY <1>1, <1>2, <1>3 DEF Core

LEMMA CoreStep == Core /\ [Next]_vars => Core'
<1> SUFFICES ASSUME Core, [Next]_vars PROVE Core'
  OBVIOUS
<1>t. /\ row \in [Tokens -> Row]
      /\ issued \in 0 .. MaxTokens
      /\ request \in [Requests -> Request]
      /\ Rows \subseteq Tokens
      /\ enabled \in SUBSET Owners
  BY RowsType DEF Core, Types
<1>1. ASSUME NEW q \in Requests, NEW o \in Owners, SignIn(q, o) PROVE Core'
  <2> DEFINE r == [Idle EXCEPT !.pc = "issue", !.owner = o]
  <2>1. r \in Request /\ r.pc = "issue"
    BY IdleType DEF Request, Idle
  <2>2. request' = [request EXCEPT ![q] = r]
    BY <1>1 DEF SignIn
  <2> HIDE DEF r
  <2> QED
    BY <1>1, <2>1, <2>2, CoreArrives DEF SignIn, Asking
<1>2. ASSUME NEW q \in Requests, Issue(q) PROVE Core'
  <2>1. ASSUME issued + 1 \in Tokens PROVE row' \in [Tokens -> Row]
    <3>1. Fresh(request[q].owner, issued + 1) \in Row
      BY <1>t, <2>1, FreshType DEF Request
    <3> QED
      BY <1>2, <1>t, <3>1 DEF Issue
  <2> QED
    BY <1>2, <2>1, CoreInsert DEF Issue
<1>3. ASSUME NEW q \in Requests, NEW op \in {"refresh", "logout"}, NEW t \in Tokens,
             NEW kind \in {"user", "admin"}, Ask(q, op, t, kind)
      PROVE  Core'
  <2> DEFINE scoped == Kind(row[t].owner) = kind
             on == row[t].owner \in enabled
             fresh == ~row[t].expired
             r == [Idle EXCEPT !.pc = "select", !.op = op, !.token = t,
                     !.scoped = scoped, !.enabled = on, !.fresh = fresh]
  <2>b. scoped \in BOOLEAN /\ on \in BOOLEAN /\ fresh \in BOOLEAN
    OBVIOUS
  <2>3. request' = [request EXCEPT ![q] = r]
    BY <1>3 DEF Ask
  <2> HIDE DEF scoped, on, fresh
  <2>1. r \in Request
    BY <2>b, AskType
  <2>2. r.pc = "select" /\ r.token = t
    BY DEF Idle
  <2> HIDE DEF r
  <2> QED
    BY <1>3, <2>1, <2>2, <2>3, CoreArrives DEF Ask, Asking
<1>4. ASSUME NEW q \in Requests, Lock(q) PROVE Core'
  <2> DEFINE b == row[request[q].token].revoked
             r == [request[q] EXCEPT !.pc = "held", !.revoked = b]
  <2>1. request[q] \in Request /\ b \in BOOLEAN
    BY <1>t DEF Request, Row
  <2>2. r \in Request
    BY <2>1, LockType
  <2>3. r.pc = "held" /\ r.token = request[q].token
    BY <2>1 DEF Request
  <2>4. request' = [request EXCEPT ![q] = r]
    BY <1>4, <1>t DEF Lock
  <2> HIDE DEF r, b
  <2> QED
    BY <1>4, <2>2, <2>3, <2>4, CoreGoesOn DEF Lock, Asking
<1>5. ASSUME NEW q \in Requests, Reject(q) PROVE Core'
  BY <1>5, <1>t, CoreEnd DEF Reject
<1>6. ASSUME NEW q \in Requests, Rotate(q) PROVE Core'
  <2> DEFINE t == request[q].token
  <2>1. t \in Tokens /\ row[t] \in Row
    BY <1>t DEF Request
  <2>2. ASSUME issued + 1 \in Tokens PROVE row' \in [Tokens -> Row]
    <3>1. Fresh(row[t].owner, row[t].session) \in Row
      BY <2>1, FreshType DEF Row
    <3>2. [row[t] EXCEPT !.revoked = TRUE] \in Row
      BY <2>1, RevokeType
    <3>3. row' = [row EXCEPT ![t].revoked = TRUE,
                             ![issued + 1] = Fresh(row[t].owner, row[t].session)]
      BY <1>6 DEF Rotate
    <3> QED
      BY <1>t, <2>1, <2>2, <3>1, <3>2, <3>3
  <2> QED
    BY <1>6, <2>2, CoreInsert DEF Rotate, Held
<1>7. ASSUME NEW q \in Requests, StartSweep(q) PROVE Core'
  <2> DEFINE o == row[request[q].token].owner
             r == [request[q] EXCEPT !.pc = "sweep", !.targets = Matched(o),
                                     !.family = Family(o)]
  <2>1. request[q] \in Request
    BY <1>t
  <2>2. Matched(o) \in SUBSET Tokens /\ Family(o) \in SUBSET Tokens
    BY <1>t DEF Matched, Family
  <2>3. r \in Request
    BY <2>1, <2>2, SweepType
  <2>4. r.pc = "sweep" /\ r.token = request[q].token
    BY <2>1 DEF Request
  <2>5. request' = [request EXCEPT ![q] = r]
    BY <1>7, <1>t DEF StartSweep
  <2> HIDE DEF r, o
  <2> QED
    BY <1>7, <2>3, <2>4, <2>5, CoreGoesOn DEF StartSweep, Held, Asking
<1>8. ASSUME NEW q \in Requests, EndSweep(q) PROVE Core'
  <2>1. row' \in [Tokens -> Row]
    BY <1>8, <1>t, RevokeType DEF EndSweep
  <2> QED
    BY <1>8, <2>1, CoreEnd DEF EndSweep
<1>9. ASSUME NEW q \in Requests, LogOut(q) PROVE Core'
  <2>1. request[q].token \in Tokens
    BY <1>t DEF Request
  <2>2. row' \in [Tokens -> Row]
    BY <1>9, <1>t, <2>1, RevokeType DEF LogOut
  <2> QED
    BY <1>9, <2>2, CoreEnd DEF LogOut, Held
<1>10. ASSUME NEW q \in Requests, Abort(q) \/ Fail(q) PROVE Core'
  BY <1>10, <1>t, CoreEnd DEF Abort, Fail
<1>11. ASSUME NEW t \in Tokens, Expire(t) PROVE Core'
  <2>1. row' \in [Tokens -> Row]
    BY <1>11, <1>t, ExpireType DEF Expire
  <2>2. Capacity' /\ Pointers'
    BY <1>11 DEF Expire, Core, Capacity, Pointers, Busy, Rows
  <2> QED
    BY <1>11, <2>1, <2>2 DEF Expire, Core, Types
<1>12. ASSUME NEW o \in Owners, NEW on \in BOOLEAN, SetEnabled(o, on) PROVE Core'
  <2>1. Capacity' /\ Pointers'
    BY <1>12 DEF SetEnabled, Core, Capacity, Pointers, Busy, Rows
  <2> QED
    BY <1>12, <1>t, <2>1 DEF SetEnabled, Core, Types
<1>13. CASE UNCHANGED vars
  BY <1>13 DEF vars, Core, Types, Capacity, Pointers, Busy, Rows
<1> QED
  BY <1>1, <1>2, <1>3, <1>4, <1>5, <1>6, <1>7, <1>8, <1>9, <1>10, <1>11, <1>12, <1>13
     DEF Next, Arrive, Proceed

-----------------------------------------------------------------------------
(***************************************************************************)
(* What a step does to the rows there were.                                *)
(***************************************************************************)

Kept ==
  /\ Rows \subseteq Rows'
  /\ \A t \in Rows :
       /\ row'[t].owner = row[t].owner
       /\ row'[t].session = row[t].session
       /\ row[t].revoked => row'[t].revoked

LEMMA RowsKept == Core /\ [Next]_vars => Kept
<1> SUFFICES ASSUME Core, [Next]_vars PROVE Kept
  OBVIOUS
<1>t. /\ row \in [Tokens -> Row]
      /\ issued \in 0 .. MaxTokens
      /\ request \in [Requests -> Request]
      /\ Rows \subseteq Tokens
      /\ issued + 1 \notin Rows
  BY RowsType DEF Core, Types, Rows
<1>m. issued' \in {issued, issued + 1} => Rows \subseteq Rows'
  BY <1>t DEF Rows
<1>1. ASSUME UNCHANGED <<row, issued>> PROVE Kept
  BY <1>1, <1>m DEF Kept
<1>2. ASSUME NEW q \in Requests, Issue(q) PROVE Kept
  BY <1>2, <1>t, <1>m DEF Issue, Kept
<1>3. ASSUME NEW q \in Requests, Rotate(q) PROVE Kept
  <2>1. request[q].token \in Rows
    BY <1>3 DEF Rotate, Held, Core, Pointers, Asking
  <2>2. \A t \in Rows :
          row'[t] = IF t = request[q].token THEN [row[t] EXCEPT !.revoked = TRUE] ELSE row[t]
    BY <1>3, <1>t, <2>1 DEF Rotate
  <2> QED
    BY <1>3, <1>t, <1>m, <2>2 DEF Rotate, Kept, Row
<1>4. ASSUME NEW q \in Requests, EndSweep(q) PROVE Kept
  <2>1. \A t \in Rows : row'[t] = row[t] \/ row'[t] = [row[t] EXCEPT !.revoked = TRUE]
    BY <1>4, <1>t DEF EndSweep
  <2> QED
    BY <1>4, <1>t, <1>m, <2>1 DEF EndSweep, Kept, Row
<1>5. ASSUME NEW q \in Requests, LogOut(q) PROVE Kept
  <2>1. \A t \in Rows : row'[t] = row[t] \/ row'[t] = [row[t] EXCEPT !.revoked = TRUE]
    BY <1>5, <1>t DEF LogOut
  <2> QED
    BY <1>5, <1>t, <1>m, <2>1 DEF LogOut, Kept, Row
<1>6. ASSUME NEW u \in Tokens, Expire(u) PROVE Kept
  <2>1. \A t \in Rows : row'[t] = row[t] \/ row'[t] = [row[t] EXCEPT !.expired = TRUE]
    BY <1>6, <1>t DEF Expire
  <2> QED
    BY <1>6, <1>t, <1>m, <2>1 DEF Expire, Kept, Row
<1> QED
  BY <1>1, <1>2, <1>3, <1>4, <1>5, <1>6
     DEF Next, Arrive, Proceed, SignIn, Ask, Lock, Reject, StartSweep, Abort, Fail,
         SetEnabled, vars

-----------------------------------------------------------------------------
(***************************************************************************)
(* Locks.                                                                  *)
(***************************************************************************)

Locks == Exclusive /\ ReadsHold

\* A request that ends, while the rows others hold stay as they are.
LEMMA LocksEnd ==
  ASSUME Core, Locks, NEW q \in Requests, End(q),
         \A p \in Requests \ {q} :
           request[p].pc = "held" =>
             row'[request[p].token].revoked = row[request[p].token].revoked
  PROVE  Locks'
<1>1. request' = [request EXCEPT ![q] = Idle] /\ request \in [Requests -> Request]
  BY DEF End, Core, Types
<1>2. request'[q].pc = "idle"
  BY <1>1 DEF Idle
<1>3. \A p \in Requests \ {q} : request'[p] = request[p]
  BY <1>1
<1>4. Exclusive'
  BY <1>2, <1>3 DEF Locks, Exclusive, Locking
<1>5. ReadsHold'
  BY <1>2, <1>3 DEF Locks, ReadsHold
<1> QED
  BY <1>4, <1>5 DEF Locks

\* A request that does not come to hold a row, or kept the one it held.
LEMMA LocksGoOn ==
  ASSUME Core, Locks, NEW q \in Requests, NEW r, r.pc # "held",
         r.pc \in Locking => request[q].pc \in Locking /\ r.token = request[q].token,
         request' = [request EXCEPT ![q] = r], row' = row
  PROVE  Locks'
<1>1. request'[q] = r /\ \A p \in Requests \ {q} : request'[p] = request[p]
  BY DEF Core, Types
<1>2. Exclusive'
  BY <1>1 DEF Locks, Exclusive
<1>3. ReadsHold'
  BY <1>1 DEF Locks, ReadsHold
<1> QED
  BY <1>2, <1>3 DEF Locks

LEMMA LocksStep == Core /\ Locks /\ [Next]_vars => Locks'
<1> SUFFICES ASSUME Core, Locks, [Next]_vars PROVE Locks'
  OBVIOUS
<1>t. /\ row \in [Tokens -> Row]
      /\ issued \in 0 .. MaxTokens
      /\ request \in [Requests -> Request]
      /\ Rows \subseteq Tokens
      /\ issued + 1 \notin Rows
  BY RowsType DEF Core, Types, Rows
<1>p. \A q \in Requests : request[q].pc = "held" => request[q].token \in Rows
  BY DEF Core, Pointers, Asking
<1>1. ASSUME NEW q \in Requests, NEW o \in Owners, SignIn(q, o) PROVE Locks'
  <2> DEFINE r == [Idle EXCEPT !.pc = "issue", !.owner = o]
  <2>1. r.pc = "issue"
    BY DEF Idle
  <2>2. request' = [request EXCEPT ![q] = r]
    BY <1>1 DEF SignIn
  <2> HIDE DEF r
  <2> QED
    BY <1>1, <2>1, <2>2, LocksGoOn DEF SignIn, Locking
<1>2. ASSUME NEW q \in Requests, Issue(q) PROVE Locks'
  <2>1. \A p \in Requests : request[p].pc = "held" => row'[request[p].token] = row[request[p].token]
    BY <1>2, <1>t, <1>p DEF Issue
  <2> QED
    BY <1>2, <2>1, LocksEnd DEF Issue
<1>3. ASSUME NEW q \in Requests, NEW op \in {"refresh", "logout"}, NEW t \in Tokens,
             NEW kind \in {"user", "admin"}, Ask(q, op, t, kind)
      PROVE  Locks'
  <2>1. request'[q].pc = "select" /\ \A p \in Requests \ {q} : request'[p] = request[p]
    BY <1>3, <1>t DEF Ask, Idle
  <2> QED
    BY <1>3, <2>1 DEF Ask, Locks, Exclusive, ReadsHold, Locking
<1>4. ASSUME NEW q \in Requests, Lock(q) PROVE Locks'
  <2>1. /\ request'[q].pc = "held"
        /\ request'[q].token = request[q].token
        /\ request'[q].revoked = row[request[q].token].revoked
        /\ \A p \in Requests \ {q} : request'[p] = request[p]
    BY <1>4, <1>t DEF Lock, Request
  <2>2. \A p \in Requests : request[p].pc \in Locking => request[p].token # request[q].token
    BY <1>4 DEF Lock, Holders, Locking
  <2>3. Exclusive'
    BY <2>1, <2>2 DEF Locks, Exclusive
  <2>4. ReadsHold'
    BY <1>4, <2>1 DEF Lock, Locks, ReadsHold
  <2> QED
    BY <2>3, <2>4 DEF Locks
<1>5. ASSUME NEW q \in Requests, Reject(q) \/ Abort(q) \/ Fail(q) PROVE Locks'
  BY <1>5, LocksEnd DEF Reject, Abort, Fail
<1>6. ASSUME NEW q \in Requests, Rotate(q) PROVE Locks'
  <2>1. \A p \in Requests \ {q} : request[p].pc = "held" => request[p].token # request[q].token
    BY <1>6 DEF Rotate, Held, Locks, Exclusive, Locking
  <2>2. \A p \in Requests \ {q} :
          request[p].pc = "held" => row'[request[p].token] = row[request[p].token]
    BY <1>6, <1>t, <1>p, <2>1 DEF Rotate
  <2> QED
    BY <1>6, <2>2, LocksEnd DEF Rotate
<1>7. ASSUME NEW q \in Requests, StartSweep(q) PROVE Locks'
  <2>1. /\ request'[q].pc = "sweep"
        /\ request'[q].token = request[q].token
        /\ request[q].pc = "held"
        /\ \A p \in Requests \ {q} : request'[p] = request[p]
    BY <1>7, <1>t DEF StartSweep, Held, Request
  <2>2. Exclusive'
    BY <2>1 DEF Locks, Exclusive, Locking
  <2>3. row' = row
    BY <1>7 DEF StartSweep
  <2>4. ReadsHold'
    BY <2>1, <2>3 DEF Locks, ReadsHold
  <2> QED
    BY <2>2, <2>4 DEF Locks
<1>8. ASSUME NEW q \in Requests, EndSweep(q) PROVE Locks'
  <2>1. \A p \in Requests \ {q} : request[p].pc = "held" => request[p].token \notin request[q].targets
    BY <1>8 DEF EndSweep, Blockers, Holders
  <2>2. \A p \in Requests \ {q} :
          request[p].pc = "held" => row'[request[p].token] = row[request[p].token]
    BY <1>8, <1>t, <1>p, <2>1 DEF EndSweep
  <2> QED
    BY <1>8, <2>2, LocksEnd DEF EndSweep
<1>9. ASSUME NEW q \in Requests, LogOut(q) PROVE Locks'
  <2>1. \A p \in Requests \ {q} : request[p].pc = "held" => request[p].token # request[q].token
    BY <1>9 DEF LogOut, Held, Locks, Exclusive, Locking
  <2>2. \A p \in Requests \ {q} :
          request[p].pc = "held" => row'[request[p].token] = row[request[p].token]
    BY <1>9, <1>t, <1>p, <2>1 DEF LogOut
  <2> QED
    BY <1>9, <2>2, LocksEnd DEF LogOut
<1>10. ASSUME NEW t \in Tokens, Expire(t) PROVE Locks'
  <2>1. \A u \in Tokens : row'[u].revoked = row[u].revoked
    BY <1>10, <1>t DEF Expire, Row
  <2> QED
    BY <1>10, <1>t, <1>p, <2>1 DEF Expire, Locks, Exclusive, ReadsHold
<1>11. ASSUME NEW o \in Owners, NEW on \in BOOLEAN, SetEnabled(o, on) PROVE Locks'
  BY <1>11 DEF SetEnabled, Locks, Exclusive, ReadsHold
<1>12. CASE UNCHANGED vars
  BY <1>12 DEF vars, Locks, Exclusive, ReadsHold
<1> QED
  BY <1>1, <1>2, <1>3, <1>4, <1>5, <1>6, <1>7, <1>8, <1>9, <1>10, <1>11, <1>12
     DEF Next, Arrive, Proceed

-----------------------------------------------------------------------------
(***************************************************************************)
(* Sessions.                                                               *)
(***************************************************************************)

Chains == Sessions /\ OneLiveTokenPerSession

\* A step that inserts no row.
LEMMA ChainsKept ==
  ASSUME Core, Chains, Kept, issued' = issued
  PROVE  Chains'
<1>1. Rows' = Rows
  BY DEF Rows
<1>2. Sessions'
  BY <1>1 DEF Chains, Sessions, Kept
<1>3. OneLiveTokenPerSession'
  BY <1>1 DEF Chains, OneLiveTokenPerSession, Kept
<1> QED
  BY <1>2, <1>3 DEF Chains

LEMMA ChainsStep == Core /\ Locks /\ Chains /\ [Next]_vars => Chains'
<1> SUFFICES ASSUME Core, Locks, Chains, [Next]_vars PROVE Chains'
  OBVIOUS
<1>k. Kept
  BY RowsKept
<1>c. Core'
  BY CoreStep
<1> DEFINE n == issued + 1
<1>t. /\ row \in [Tokens -> Row]
      /\ issued \in 0 .. MaxTokens
      /\ request \in [Requests -> Request]
      /\ Rows \subseteq Tokens
      /\ n \notin Rows
  BY RowsType DEF Core, Types, Rows
<1>n. ASSUME issued' = n PROVE Rows' = Rows \cup {n} /\ n \in Tokens
  BY <1>n, <1>t, <1>c DEF Core, Types, Rows, Tokens
<1>1. CASE issued' = issued
  BY <1>1, <1>k, ChainsKept
<1>2. ASSUME NEW q \in Requests, Issue(q) PROVE Chains'
  <2>1. Rows' = Rows \cup {n} /\ n \in Tokens
    BY <1>2, <1>n DEF Issue
  <2>2. row'[n].session = n
    BY <1>2, <1>t, <2>1 DEF Issue, Fresh
  <2>3. \A t \in Rows : row'[t].session = row[t].session /\ row'[t].session \in Rows
    BY <1>k DEF Kept, Chains, Sessions
  <2>4. Sessions'
    BY <2>1, <2>2, <2>3 DEF Sessions
  <2>5. OneLiveTokenPerSession'
    BY <1>k, <1>t, <2>1, <2>2, <2>3 DEF Chains, OneLiveTokenPerSession, Kept
  <2> QED
    BY <2>4, <2>5 DEF Chains
<1>3. ASSUME NEW q \in Requests, Rotate(q) PROVE Chains'
  <2> DEFINE t == request[q].token
  <2>0. t \in Rows
    BY <1>3 DEF Rotate, Held, Core, Pointers, Asking
  <2>1. Rows' = Rows \cup {n} /\ n \in Tokens
    BY <1>3, <1>n DEF Rotate
  <2>2. row' = [row EXCEPT ![t].revoked = TRUE,
                           ![n] = Fresh(row[t].owner, row[t].session)]
    BY <1>3 DEF Rotate
  <2>3. ~row[t].revoked
    BY <1>3 DEF Rotate, Held, Locks, ReadsHold
  <2> HIDE DEF t, n
  <2>4. row'[n].session = row[t].session
    BY <1>t, <2>1, <2>2 DEF Fresh
  <2>5. row'[t].revoked
    BY <1>t, <2>0, <2>2 DEF Row
  <2>6. \A u \in Rows : row'[u].session = row[u].session /\ row'[u].session \in Rows
    BY <1>k DEF Kept, Chains, Sessions
  <2>7. Sessions'
    BY <2>0, <2>1, <2>4, <2>6 DEF Sessions
  <2>8. \A u \in Rows : row[u].session = row[t].session => row'[u].revoked
    BY <1>k, <2>0, <2>3, <2>5 DEF Chains, OneLiveTokenPerSession, Kept
  <2>9. \A u, w \in Rows : row'[u].session = row'[w].session /\ u # w
                             => row'[u].revoked \/ row'[w].revoked
    BY <1>k, <2>6 DEF Chains, OneLiveTokenPerSession, Kept
  <2>10. OneLiveTokenPerSession'
    BY <2>1, <2>4, <2>6, <2>8, <2>9 DEF OneLiveTokenPerSession
  <2> QED
    BY <2>7, <2>10 DEF Chains
<1> QED
  BY <1>1, <1>2, <1>3
     DEF Next, Arrive, Proceed, SignIn, Ask, Lock, Reject, StartSweep, EndSweep,
         LogOut, Abort, Fail, Expire, SetEnabled, vars

-----------------------------------------------------------------------------
(***************************************************************************)
(* Families.                                                               *)
(***************************************************************************)

Families == Sweeps /\ Ends

\* What was said of a request that has not moved is still true.
LEMMA SweepKept ==
  ASSUME Core, Kept, NEW q \in Requests, request'[q] = request[q],
         request[q].pc = "sweep", SweepOf(q)
  PROVE  SweepOf(q)'
<1>1. request[q].token \in Rows
  BY DEF Core, Pointers, Asking
<1> QED
  BY <1>1 DEF SweepOf, Family, Kept

LEMMA FamiliesStep == Core /\ Families /\ [Next]_vars => Families'
<1> SUFFICES ASSUME Core, Families, [Next]_vars PROVE Families'
  OBVIOUS
<1>k. Kept
  BY RowsKept
<1>t. /\ row \in [Tokens -> Row]
      /\ request \in [Requests -> Request]
      /\ Rows \subseteq Tokens
  BY RowsType DEF Core, Types
<1>e. ASSUME ended' = ended PROVE Ends'
  BY <1>e, <1>k DEF Families, Ends, EndedFamiliesStayEnded, Live, Kept
<1>s. ASSUME NEW q \in Requests, \A p \in Requests \ {q} : request'[p] = request[p],
             request'[q].targets \subseteq request'[q].family,
             request'[q].pc = "sweep" => SweepOf(q)'
      PROVE  Sweeps'
  BY <1>s, <1>k, SweepKept DEF Families, Sweeps
<1>u. ASSUME request' = request PROVE Sweeps'
  BY <1>u, <1>k, SweepKept DEF Families, Sweeps
<1>i. ASSUME NEW q \in Requests, End(q) PROVE Sweeps'
  <2>1. request'[q] = Idle /\ \A p \in Requests \ {q} : request'[p] = request[p]
    BY <1>i, <1>t DEF End
  <2> QED
    BY <1>s, <2>1 DEF Idle
<1>1. ASSUME NEW q \in Requests, NEW o \in Owners, SignIn(q, o) PROVE Families'
  <2>1. /\ request'[q].pc = "issue"
        /\ request'[q].targets = {}
        /\ \A p \in Requests \ {q} : request'[p] = request[p]
    BY <1>1, <1>t DEF SignIn, Idle
  <2> QED
    BY <1>1, <1>e, <1>s, <2>1 DEF SignIn, Families
<1>2. ASSUME NEW q \in Requests, NEW op \in {"refresh", "logout"}, NEW t \in Tokens,
             NEW kind \in {"user", "admin"}, Ask(q, op, t, kind)
      PROVE  Families'
  <2>1. /\ request'[q].pc = "select"
        /\ request'[q].targets = {}
        /\ \A p \in Requests \ {q} : request'[p] = request[p]
    BY <1>2, <1>t DEF Ask, Idle
  <2> QED
    BY <1>2, <1>e, <1>s, <2>1 DEF Ask, Families
<1>3. ASSUME NEW q \in Requests, Lock(q) PROVE Families'
  <2>1. /\ request'[q].pc = "held"
        /\ request'[q].targets = request[q].targets
        /\ request'[q].family = request[q].family
        /\ \A p \in Requests \ {q} : request'[p] = request[p]
    BY <1>3, <1>t DEF Lock, Request
  <2> QED
    BY <1>3, <1>e, <1>s, <2>1 DEF Lock, Families, Sweeps
<1>4. ASSUME NEW q \in Requests, StartSweep(q) PROVE Families'
  <2> DEFINE o == row[request[q].token].owner
  <2>1. /\ request'[q].token = request[q].token
        /\ request'[q].targets = Matched(o)
        /\ request'[q].family = Family(o)
        /\ \A p \in Requests \ {q} : request'[p] = request[p]
    BY <1>4, <1>t DEF StartSweep, Request
  <2>2. row' = row /\ issued' = issued /\ ended' = ended
    BY <1>4 DEF StartSweep
  <2>3. SweepOf(q)'
    BY <2>1, <2>2 DEF SweepOf, Matched, Family, Rows
  <2> QED
    BY <1>e, <1>s, <2>1, <2>2, <2>3 DEF Families, Matched
<1>5. ASSUME NEW q \in Requests, EndSweep(q) PROVE Families'
  <2>1. request[q].family \subseteq Rows /\ SweepOf(q)
    BY <1>5 DEF EndSweep, Families, Sweeps, SweepOf, Family
  <2>2. \A t \in request[q].targets \cap Tokens : row'[t].revoked
    BY <1>5, <1>t DEF EndSweep, Row
  <2>3. \A t \in request[q].family : row'[t].revoked
    BY <1>k, <1>t, <2>1, <2>2 DEF SweepOf, Kept
  <2>4. \A t \in ended : t \in Rows /\ row'[t].revoked
    BY <1>k DEF Families, Ends, EndedFamiliesStayEnded, Live, Kept
  <2>5. ended' = ended \cup request[q].family
    BY <1>5 DEF EndSweep
  <2>6. Ends'
    BY <1>k, <2>1, <2>3, <2>4, <2>5 DEF Ends, EndedFamiliesStayEnded, Live, Kept
  <2> QED
    BY <1>5, <1>i, <2>6 DEF EndSweep, Families
<1>6. ASSUME NEW q \in Requests,
             Issue(q) \/ Reject(q) \/ Rotate(q) \/ LogOut(q) \/ Abort(q) \/ Fail(q)
      PROVE  Families'
  BY <1>6, <1>e, <1>i DEF Issue, Reject, Rotate, LogOut, Abort, Fail, Families
<1>7. ASSUME NEW t \in Tokens, Expire(t) PROVE Families'
  BY <1>7, <1>e, <1>u DEF Expire, Families
<1>8. ASSUME NEW o \in Owners, NEW on \in BOOLEAN, SetEnabled(o, on) PROVE Families'
  BY <1>8, <1>e, <1>u DEF SetEnabled, Families
<1>9. CASE UNCHANGED vars
  BY <1>9, <1>e, <1>u DEF vars, Families
<1> QED
  BY <1>1, <1>2, <1>3, <1>4, <1>5, <1>6, <1>7, <1>8, <1>9 DEF Next, Arrive, Proceed

-----------------------------------------------------------------------------
(***************************************************************************)
(* The theorems.                                                           *)
(***************************************************************************)

LEMMA IInvInit == Init => IInv
<1> SUFFICES ASSUME Init PROVE IInv
  OBVIOUS
<1>1. Core
  BY CoreInit
<1>2. \A q \in Requests : request[q].pc = "idle" /\ request[q].targets = {}
  BY DEF Init, Idle
<1>3. Rows = {}
  BY DEF Init, Rows
<1>4. Exclusive /\ ReadsHold
  BY <1>2 DEF Exclusive, ReadsHold, Locking
<1>5. Sessions /\ OneLiveTokenPerSession
  BY <1>3 DEF Sessions, OneLiveTokenPerSession
<1>6. Sweeps /\ Ends
  BY <1>2 DEF Init, Sweeps, Ends, EndedFamiliesStayEnded
<1> QED
  BY <1>1, <1>4, <1>5, <1>6 DEF IInv, Core

LEMMA IInvStep == IInv /\ [Next]_vars => IInv'
<1> SUFFICES ASSUME IInv, [Next]_vars PROVE IInv'
  OBVIOUS
<1>1. Core /\ Locks /\ Chains /\ Families
  BY DEF IInv, Core, Locks, Chains, Families
<1>2. Core' /\ Locks' /\ Chains' /\ Families'
  BY <1>1, CoreStep, LocksStep, ChainsStep, FamiliesStep
<1> QED
  BY <1>2 DEF IInv, Core, Locks, Chains, Families

LEMMA Invariance == Spec => []IInv
<1> QED
  BY IInvInit, IInvStep, PTL DEF Spec

\* The rows, the accounts and the requests stay within their types, there is
\* room for what is under way, and a sweep is of the account it found.
THEOREM TypeCorrect == Spec => []TypeOK
<1>1. IInv => TypeOK
  BY DEF IInv, Types, Sweeps, SweepOf, Ends, TypeOK
<1> QED
  BY <1>1, Invariance, PTL

\* A session has one token that is not spent, however many requests present it.
THEOREM SessionsHaveOneLiveToken == Spec => []OneLiveTokenPerSession
<1>1. IInv => OneLiveTokenPerSession
  BY DEF IInv
<1> QED
  BY <1>1, Invariance, PTL

\* The tokens an account had when its revocation began stay revoked.
THEOREM FamiliesStayEnded == Spec => []EndedFamiliesStayEnded
<1>1. IInv => EndedFamiliesStayEnded
  BY DEF IInv, Ends
<1> QED
  BY <1>1, Invariance, PTL
=============================================================================
