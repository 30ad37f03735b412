-------------------------- MODULE PublicJobs_proofs --------------------------
(***************************************************************************)
(* Proofs about PublicJobs, for any number of jobs, clients, import times  *)
(* and page sizes: what the pages a client is given have in common,        *)
(* whatever imports do between them.                                       *)
(***************************************************************************)
EXTENDS PublicJobs, FiniteSetTheorems, WellFoundedInduction, TLAPS

USE PagingAssumption

-----------------------------------------------------------------------------
(***************************************************************************)
(* The order of the rows, and the first n of a set of them.                *)
(***************************************************************************)

Positions == Position \cup {Start}

\* A set of natural numbers that is not empty has a least one.
LEMMA LeastNumber ==
  ASSUME NEW S, S \subseteq Nat, S # {}
  PROVE  \E x \in S : \A y \in S : x <= y
<1> DEFINE R == OpToRel(<, Nat)
<1>1. \E x \in S : \A y \in S : <<y, x>> \notin R
  BY NatLessThanWellFounded, WFMin, Zenon
<1>2. ASSUME NEW x \in S, NEW y \in S, y < x PROVE <<y, x>> \in R
  BY <1>2, Zenon DEF OpToRel
<1> HIDE DEF R
<1>3. \E x \in S : \A y \in S : ~(y < x)
  BY <1>1, <1>2
<1> QED
  BY <1>3

LEMMA JobsAreFinite == IsFiniteSet(Jobs) /\ Cardinality(Jobs) = MaxJobs
<1>1. 1 \in Int /\ MaxJobs \in Int /\ (1 > MaxJobs => MaxJobs = 0)
  OBVIOUS
<1> QED
  BY <1>1, FS_Interval DEF Jobs

LEMMA StartIsNoPosition == Start \notin Position
  BY DEF Start, Position, Jobs

\* The order is strict and total, in both directions.
LEMMA Order ==
  ASSUME NEW newest \in BOOLEAN, NEW p \in Positions, NEW q \in Positions, NEW r \in Positions
  PROVE  /\ ~Beyond(newest, p, p)
         /\ p # q => Beyond(newest, p, q) \/ Beyond(newest, q, p)
         /\ Beyond(newest, p, q) => ~Beyond(newest, q, p)
         /\ Beyond(newest, p, q) /\ Beyond(newest, q, r) => Beyond(newest, p, r)
<1>1. /\ p.stamp \in Int /\ p.id \in Int /\ q.stamp \in Int /\ q.id \in Int
      /\ r.stamp \in Int /\ r.id \in Int
  BY DEF Positions, Position, Start, Times, Jobs
<1>2. p # q => p.stamp # q.stamp \/ p.id # q.id
  BY DEF Positions, Position, Start, Times, Jobs
<1>3. CASE newest
  BY <1>1, <1>2, <1>3 DEF Beyond, Precedes
<1>4. CASE ~newest
  BY <1>1, <1>2, <1>4 DEF Beyond, Precedes
<1> QED
  BY <1>3, <1>4

\* The rows of a set that come before j, and those it precedes.
Ahead(rows, newest, j) == {k \in rows : Beyond(newest, At(j), At(k))}
Rank(rows, newest, j) == Cardinality(Ahead(rows, newest, j))

LEMMA AtTypes ==
  ASSUME job \in [Jobs -> Row], NEW j \in Jobs
  PROVE  At(j) \in Position /\ At(j) \in Positions /\ At(j).id = j
  BY DEF At, Row, Position, Positions

LEMMA RankType ==
  ASSUME job \in [Jobs -> Row], NEW rows \in SUBSET Jobs, NEW newest \in BOOLEAN, NEW j \in rows
  PROVE  /\ IsFiniteSet(rows)
         /\ IsFiniteSet(Ahead(rows, newest, j))
         /\ Ahead(rows, newest, j) \subseteq rows \ {j}
         /\ Rank(rows, newest, j) \in Nat
<1>1. IsFiniteSet(rows)
  BY JobsAreFinite, FS_Subset
<1>2. At(j) \in Positions
  BY AtTypes
<1>3. ~Beyond(newest, At(j), At(j))
  BY <1>2, Order
<1>4. Ahead(rows, newest, j) \subseteq rows \ {j}
  BY <1>3 DEF Ahead
<1>5. IsFiniteSet(Ahead(rows, newest, j))
  BY <1>1, <1>4, FS_Subset
<1> QED
  BY <1>1, <1>4, <1>5, FS_CardinalityType DEF Rank

\* A row has a lower rank than those it precedes.
LEMMA RankGrows ==
  ASSUME job \in [Jobs -> Row], NEW rows \in SUBSET Jobs, NEW newest \in BOOLEAN,
         NEW j \in rows, NEW k \in rows, Beyond(newest, At(k), At(j))
  PROVE  Rank(rows, newest, j) < Rank(rows, newest, k)
<1> DEFINE A == Ahead(rows, newest, j)
           B == Ahead(rows, newest, k)
<1>1. /\ IsFiniteSet(A) /\ IsFiniteSet(B)
      /\ Cardinality(A) \in Nat /\ Cardinality(B) \in Nat
      /\ A \subseteq rows \ {j}
  BY RankType DEF Rank
<1>2. A \subseteq B
  <2> SUFFICES ASSUME NEW i \in rows, Beyond(newest, At(j), At(i))
               PROVE  Beyond(newest, At(k), At(i))
    BY DEF Ahead
  <2>1. At(i) \in Positions /\ At(j) \in Positions /\ At(k) \in Positions
    BY AtTypes
  <2> QED
    BY <2>1, Order
<1>3. j \in B /\ j \notin A
  BY <1>1 DEF Ahead
<1>4. Cardinality(A) <= Cardinality(B) /\ Cardinality(A) # Cardinality(B)
  BY <1>1, <1>2, <1>3, FS_Subset
<1> QED
  BY <1>1, <1>4 DEF Rank

LEMMA FirstIsRank ==
  ASSUME NEW n, NEW rows, NEW newest
  PROVE  FirstOf(n, rows, newest) = {j \in rows : Rank(rows, newest, j) < n}
  BY DEF FirstOf, Rank, Ahead

\* The first n rows are closed under what precedes them.
LEMMA FirstClosed ==
  ASSUME job \in [Jobs -> Row], NEW rows \in SUBSET Jobs, NEW newest \in BOOLEAN, NEW n \in Nat,
         NEW j \in FirstOf(n, rows, newest), NEW k \in rows, ~Beyond(newest, At(k), At(j))
  PROVE  k \in FirstOf(n, rows, newest)
<1>1. j \in rows /\ Rank(rows, newest, j) < n
  BY FirstIsRank
<1>2. CASE k = j
  BY <1>2
<1>3. CASE k # j
  <2>1. At(j) \in Positions /\ At(k) \in Positions /\ At(j) # At(k)
    BY <1>1, <1>3, AtTypes
  <2>2. Beyond(newest, At(j), At(k))
    BY <2>1, Order
  <2>3. Rank(rows, newest, k) < Rank(rows, newest, j)
    BY <1>1, <2>2, RankGrows
  <2>4. Rank(rows, newest, k) \in Nat /\ Rank(rows, newest, j) \in Nat
    BY <1>1, RankType
  <2> QED
    BY <1>1, <2>3, <2>4, FirstIsRank
<1> QED
  BY <1>2, <1>3

\* They are n at most.
LEMMA FirstBounded ==
  ASSUME job \in [Jobs -> Row], NEW rows \in SUBSET Jobs, NEW newest \in BOOLEAN, NEW n \in Nat
  PROVE  /\ IsFiniteSet(FirstOf(n, rows, newest))
         /\ Cardinality(FirstOf(n, rows, newest)) \in 0 .. n
<1> DEFINE F == FirstOf(n, rows, newest)
           rank == [j \in F |-> Rank(rows, newest, j)]
<1>1. F \subseteq rows /\ \A j \in F : Rank(rows, newest, j) < n
  BY FirstIsRank
<1>2. \A j \in F : rank[j] \in 0 .. (n - 1)
  <2> SUFFICES ASSUME NEW j \in F PROVE Rank(rows, newest, j) \in 0 .. (n - 1)
    OBVIOUS
  <2>1. Rank(rows, newest, j) \in Nat
    BY <1>1, RankType
  <2> QED
    BY <1>1, <2>1
<1>3. ASSUME NEW j \in F, NEW k \in F, j # k PROVE rank[j] # rank[k]
  <2>1. At(j) \in Positions /\ At(k) \in Positions /\ At(j) # At(k)
    BY <1>1, <1>3, AtTypes
  <2>2. Beyond(newest, At(j), At(k)) \/ Beyond(newest, At(k), At(j))
    BY <2>1, Order
  <2>3. Rank(rows, newest, j) \in Nat /\ Rank(rows, newest, k) \in Nat
    BY <1>1, RankType
  <2>4. Rank(rows, newest, j) # Rank(rows, newest, k)
    BY <1>1, <2>2, <2>3, RankGrows
  <2> QED
    BY <2>4
<1>4. rank \in Injection(F, 0 .. (n - 1))
  BY <1>2, <1>3 DEF Injection, IsInjective
<1>5. IsFiniteSet(0 .. (n - 1)) /\ Cardinality(0 .. (n - 1)) = n
  BY FS_Interval
<1>6. IsFiniteSet(F) /\ Cardinality(F) <= n
  BY <1>4, <1>5, FS_Injection
<1> QED
  BY <1>6, FS_CardinalityType

\* When they are fewer than n, they are all there are.
LEMMA FirstIsAll ==
  ASSUME job \in [Jobs -> Row], NEW rows \in SUBSET Jobs, NEW newest \in BOOLEAN, NEW n \in Nat,
         Cardinality(FirstOf(n, rows, newest)) < n
  PROVE  FirstOf(n, rows, newest) = rows
<1> DEFINE F == FirstOf(n, rows, newest)
           ranks == {Rank(rows, newest, j) : j \in rows \ F}
<1>1. F \subseteq rows
  BY FirstIsRank
<1>2. SUFFICES ASSUME rows \ F # {} PROVE FALSE
  BY <1>1
<1>3. ranks \subseteq Nat /\ ranks # {}
  BY <1>2, RankType
<1>4. PICK least \in ranks : \A s \in ranks : least <= s
  BY <1>3, LeastNumber
<1>5. \A s \in ranks : ~(s < least)
  BY <1>3, <1>4
<1>6. PICK j \in rows \ F : least = Rank(rows, newest, j)
  OBVIOUS
<1>7. Ahead(rows, newest, j) \subseteq F
  <2> SUFFICES ASSUME NEW k \in rows, Beyond(newest, At(j), At(k)), k \notin F PROVE FALSE
    BY DEF Ahead
  <2>1. Rank(rows, newest, k) < Rank(rows, newest, j)
    BY RankGrows
  <2> QED
    BY <1>5, <1>6, <2>1
<1>8. IsFiniteSet(F) /\ Cardinality(F) \in Nat
  BY FirstBounded
<1>9. Rank(rows, newest, j) \in Nat /\ Rank(rows, newest, j) <= Cardinality(F)
  BY <1>7, <1>8, FS_Subset, RankType DEF Rank
<1> QED
  BY <1>6, <1>8, <1>9, FirstIsRank

\* A set of rows, none of which has n others before it, is its own first n.
LEMMA FirstOfFew ==
  ASSUME job \in [Jobs -> Row], NEW rows \in SUBSET Jobs, NEW newest \in BOOLEAN, NEW n \in Nat,
         Cardinality(rows) <= n
  PROVE  FirstOf(n, rows, newest) = rows
<1> SUFFICES ASSUME NEW j \in rows PROVE Rank(rows, newest, j) < n
  BY FirstIsRank
<1>1. /\ IsFiniteSet(rows) /\ IsFiniteSet(rows \ {j})
      /\ Rank(rows, newest, j) \in Nat
      /\ Ahead(rows, newest, j) \subseteq rows \ {j}
  BY RankType, FS_RemoveElement
<1>2. Cardinality(rows \ {j}) = Cardinality(rows) - 1 /\ Cardinality(rows) \in Nat
  BY <1>1, FS_RemoveElement, FS_CardinalityType
<1>3. Rank(rows, newest, j) <= Cardinality(rows \ {j})
  BY <1>1, FS_Subset DEF Rank
<1> QED
  BY <1>1, <1>2, <1>3

\* A set of rows that is not empty has a last one.
LEMMA LastRow ==
  ASSUME job \in [Jobs -> Row], NEW rows \in SUBSET Jobs, NEW newest \in BOOLEAN, rows # {}
  PROVE  \E j \in rows : \A k \in rows : ~Beyond(newest, At(k), At(j))
<1> DEFINE room(j) == MaxJobs - Rank(rows, newest, j)
           rooms == {room(j) : j \in rows}
<1>1. \A j \in rows : Rank(rows, newest, j) \in Nat /\ room(j) \in Nat
  <2> SUFFICES ASSUME NEW j \in rows
               PROVE  Rank(rows, newest, j) \in Nat /\ Rank(rows, newest, j) <= MaxJobs
    OBVIOUS
  <2>2. Rank(rows, newest, j) \in Nat /\ Ahead(rows, newest, j) \in SUBSET Jobs
    BY RankType
  <2> QED
    BY <2>2, JobsAreFinite, FS_Subset DEF Rank
<1>2. rooms \subseteq Nat /\ rooms # {}
  BY <1>1
<1>3. PICK least \in rooms : \A s \in rooms : least <= s
  BY <1>2, LeastNumber
<1>4. PICK j \in rows : least = room(j)
  OBVIOUS
<1>5. \A k \in rows : ~(room(k) < room(j))
  BY <1>2, <1>3, <1>4
<1>6. ASSUME NEW k \in rows, Beyond(newest, At(k), At(j)) PROVE FALSE
  BY <1>1, <1>5, <1>6, RankGrows
<1> QED
  BY <1>6

-----------------------------------------------------------------------------
(***************************************************************************)
(* One page.                                                               *)
(***************************************************************************)

\* A page is the first rows past the cursor, and all of them when the row that
\* is asked for beyond it is not there.
LEMMA SearchResult ==
  ASSUME job \in [Jobs -> Row], NEW newest \in BOOLEAN, NEW at \in Positions, NEW n \in Nat
  PROVE  LET past == PastCursor(newest, at)
             records == Search(newest, at, n + 1)
             page == FirstOf(n, records, newest)
         IN  /\ page \subseteq past
             /\ IsFiniteSet(records) /\ IsFiniteSet(page)
             /\ Cardinality(records) \in Nat /\ Cardinality(page) \in 0 .. n
             /\ \A j \in page, k \in past : ~Beyond(newest, At(k), At(j)) => k \in page
             /\ Cardinality(records) <= n => page = past
             /\ n < Cardinality(records) /\ n # 0 => page # {}
<1> DEFINE past == PastCursor(newest, at)
           records == Search(newest, at, n + 1)
           page == FirstOf(n, records, newest)
<1>1. past \in SUBSET Jobs /\ n + 1 \in Nat
  BY DEF PastCursor, Listed
<1>2. records = FirstOf(n + 1, past, newest)
  BY DEF Search
<1> HIDE DEF past
<1>3. records \in SUBSET past
  BY <1>2, FirstIsRank
<1>4. records \in SUBSET Jobs
  BY <1>1, <1>3
<1>5. IsFiniteSet(records) /\ Cardinality(records) \in 0 .. n + 1
  BY <1>1, <1>2, FirstBounded
<1>6. page \in SUBSET records
  BY FirstIsRank
<1>7. IsFiniteSet(page) /\ Cardinality(page) \in 0 .. n
  BY <1>4, FirstBounded
<1>8. ASSUME NEW j \in page, NEW k \in past, ~Beyond(newest, At(k), At(j))
      PROVE  k \in page
  <2>1. k \in records
    BY <1>1, <1>2, <1>6, <1>8, FirstClosed
  <2> QED
    BY <2>1, <1>4, <1>8, FirstClosed
<1>9. ASSUME Cardinality(records) <= n PROVE page = past
  <2>1. Cardinality(records) < n + 1
    BY <1>5, <1>9
  <2>2. records = past
    BY <2>1, <1>1, <1>2, FirstIsAll
  <2>3. page = records
    BY <1>4, <1>9, FirstOfFew
  <2> QED
    BY <2>2, <2>3
<1>10. ASSUME n < Cardinality(records), n # 0, page = {} PROVE FALSE
  <2>1. Cardinality(page) < n
    BY <1>10, FS_EmptySet
  <2>2. page = records
    BY <2>1, <1>4, FirstIsAll
  <2> QED
    BY <2>2, <1>10, FS_EmptySet
<1> HIDE DEF records, page
<1>11. page \subseteq past
  BY <1>3, <1>6
<1>12. Cardinality(records) \in Nat
  BY <1>5
<1>13. /\ page \subseteq past
       /\ IsFiniteSet(records) /\ IsFiniteSet(page)
       /\ Cardinality(records) \in Nat /\ Cardinality(page) \in 0 .. n
       /\ \A j \in page, k \in past : ~Beyond(newest, At(k), At(j)) => k \in page
       /\ Cardinality(records) <= n => page = past
       /\ n < Cardinality(records) /\ n # 0 => page # {}
  BY <1>5, <1>7, <1>8, <1>9, <1>10, <1>11, <1>12
<1> QED
  BY <1>13 DEF past, records, page

Types ==
  /\ job \in [Jobs -> Row]
  /\ browse \in [Clients -> Browse]

\* What a request does to the client that made it.
PageShown(newest, before, page, after) ==
  /\ page \subseteq PastCursor(newest, before.at)
  /\ after.newest = newest
  /\ after.served \in 0 .. MaxResults
  /\ after.shown = before.shown \cup page
  /\ after.repeated = before.repeated \cup (before.shown \cap page)
  /\ after.stayed = IF before.pc = "idle" THEN Listed ELSE before.stayed
  /\ after.still = IF before.pc = "idle" THEN Listed ELSE before.still
  /\ after.back = before.back

\* The cursor is the page's last row, and what is not on the page lies beyond.
PageGoesOn(newest, before, page, after) ==
  /\ after.pc = "paging"
  /\ \E last \in page :
       /\ after.at = At(last)
       /\ \A k \in page : ~Beyond(newest, At(k), At(last))
       /\ \A k \in PastCursor(newest, before.at) : k \in page \/ Beyond(newest, At(k), At(last))

PageIsLast(newest, before, page, after) ==
  /\ after.pc = "done"
  /\ after.at = Start
  /\ after.served < MaxResults => page = PastCursor(newest, before.at)

LEMMA LimitRange ==
  ASSUME NEW limit \in PageSizes, NEW served \in 0 .. MaxResults
  PROVE  /\ PageLimit(limit, served) \in Nat
         /\ served + PageLimit(limit, served) <= MaxResults
         /\ PageLimit(limit, served) = 0 => served = MaxResults
BY DEF PageLimit

LEMMA PageStep ==
  ASSUME Types, NEW c \in Clients, NEW newest \in BOOLEAN, NEW limit \in PageSizes,
         Page(c, newest, limit)
  PROVE  \E after \in Browse, page \in SUBSET Jobs :
           /\ browse' = [browse EXCEPT ![c] = after]
           /\ PageShown(newest, browse[c], page, after)
           /\ \/ PageGoesOn(newest, browse[c], page, after)
              \/ PageIsLast(newest, browse[c], page, after)
<1> DEFINE b == browse[c]
           n == PageLimit(limit, b.served)
           past == PastCursor(newest, b.at)
           records == IF n = 0 THEN {} ELSE Search(newest, b.at, n + 1)
           page == FirstOf(n, records, newest)
           served == b.served + Cardinality(page)
           more == n < Cardinality(records) /\ served < MaxResults
           last == CHOOSE j \in page : \A k \in page : ~Beyond(newest, At(k), At(j))
           after == [pc |-> IF more THEN "paging" ELSE "done",
                     newest |-> newest,
                     at |-> IF more THEN At(last) ELSE Start,
                     served |-> served,
                     shown |-> b.shown \cup page,
                     repeated |-> b.repeated \cup (b.shown \cap page),
                     stayed |-> IF b.pc = "idle" THEN Listed ELSE b.stayed,
                     still |-> IF b.pc = "idle" THEN Listed ELSE b.still,
                     back |-> b.back]
<1>1. browse' = [browse EXCEPT ![c] = after]
  BY DEF Page
<1>2. b \in Browse /\ b.at \in Positions /\ b.served \in 0 .. MaxResults
  BY DEF Types, Browse, Positions
<1>3. n \in Nat /\ b.served + n <= MaxResults /\ (n = 0 => b.served = MaxResults)
  BY <1>2, LimitRange
<1>4. past \in SUBSET Jobs /\ Listed \in SUBSET Jobs
  BY DEF PastCursor, Listed
<1>5. /\ page \subseteq past
      /\ IsFiniteSet(page) /\ Cardinality(records) \in Nat /\ Cardinality(page) \in 0 .. n
      /\ \A j \in page, k \in past : ~Beyond(newest, At(k), At(j)) => k \in page
      /\ Cardinality(records) <= n => page = past \/ n = 0
      /\ n < Cardinality(records) => page # {}
  <2>1. CASE n = 0
    <3>1. records = {} /\ page = {}
      BY <2>1, FirstIsRank
    <3> QED
      BY <3>1, <2>1, FS_EmptySet
  <2>2. CASE n # 0
    <3>1. records = Search(newest, b.at, n + 1)
      BY <2>2
    <3> HIDE DEF n, records
    <3> QED
      BY <3>1, <2>2, <1>2, <1>3, SearchResult DEF Types
  <2> QED
    BY <2>1, <2>2
<1> HIDE DEF n, records, page, past
<1>6. served \in 0 .. MaxResults
  BY <1>2, <1>3, <1>5
<1>7. ASSUME more
      PROVE  last \in page /\ \A k \in page : ~Beyond(newest, At(k), At(last))
  <2>1. page # {} /\ page \in SUBSET Jobs
    BY <1>4, <1>5, <1>7
  <2>2. \E j \in page : \A k \in page : ~Beyond(newest, At(k), At(j))
    BY <2>1, LastRow DEF Types
  <2> QED
    BY <2>2
<1> HIDE DEF last, served
<1>8. more => At(last) \in Position
  BY <1>4, <1>5, <1>7, AtTypes DEF Types
<1>9. CASE more
  <2>1. /\ after.pc = "paging" /\ after.newest = newest /\ after.at = At(last)
        /\ after.served = served
    BY <1>9
  <2>2. after \in Browse
    BY <1>2, <1>4, <1>5, <1>6, <1>8, <1>9 DEF Browse
  <2>3. PageShown(newest, b, page, after)
    BY <2>1, <1>5, <1>6 DEF PageShown, past
  <2>4. \A k \in past : k \in page \/ Beyond(newest, At(k), At(last))
    BY <1>5, <1>7, <1>9
  <2>5. PageGoesOn(newest, b, page, after)
    BY <2>1, <2>4, <1>7, <1>9 DEF PageGoesOn, past
  <2> QED
    BY <2>2, <2>3, <2>5, <1>1, <1>4, <1>5
<1>10. CASE ~more
  <2>1. /\ after.pc = "done" /\ after.newest = newest /\ after.at = Start
        /\ after.served = served
    BY <1>10
  <2>2. after \in Browse
    BY <1>2, <1>4, <1>5, <1>6, <1>10 DEF Browse
  <2>3. PageShown(newest, b, page, after)
    BY <2>1, <1>5, <1>6 DEF PageShown, past
  <2>4. served < MaxResults => page = past
    <3>1. n = 0 => served = MaxResults
      BY <1>2, <1>3, <1>5 DEF served
    <3> QED
      BY <3>1, <1>3, <1>5, <1>6, <1>10
  <2>5. PageIsLast(newest, b, page, after)
    BY <2>1, <2>4 DEF PageIsLast, past
  <2> QED
    BY <2>2, <2>3, <2>5, <1>1, <1>4, <1>5
<1> QED
  BY <1>9, <1>10

-----------------------------------------------------------------------------
(***************************************************************************)
(* The inductive invariant: what a client on its way has been shown lies   *)
(* on this side of its cursor, what it is still to be shown beyond it.     *)
(***************************************************************************)

IdleOK(b) == b.pc = "idle" => b = Away
CursorOK(b) == b.pc = "paging" <=> b.at # Start

\* A row that was shown was there, and imports that move it on move it further
\* to this side.
ShownBehind(b) ==
  b.newest =>
    /\ b.repeated \subseteq b.back
    /\ b.pc = "paging" =>
         \A j \in b.shown :
           job[j].state # "unborn" /\ (j \notin b.back => ~Beyond(TRUE, At(j), b.at))

\* Imports that move on a row still to be shown move it further beyond.
StayedAhead(b) ==
  ~b.newest =>
    /\ b.pc = "paging" =>
         \A j \in b.stayed \ b.back : j \in b.shown \/ Beyond(FALSE, At(j), b.at)
    /\ b.pc = "done" /\ b.served < MaxResults => b.stayed \ b.back \subseteq b.shown

\* A row no import has touched was shown exactly when it lies behind the cursor.
StillDivided(b) ==
  /\ b.pc = "paging" => \A j \in b.still : j \in b.shown <=> ~Beyond(b.newest, At(j), b.at)
  /\ b.pc = "done" /\ b.served < MaxResults => b.still \subseteq b.shown
  /\ b.still \cap b.repeated = {}

ListedOK(b) == b.still \subseteq b.stayed /\ b.stayed \subseteq Listed

BrowseOK(b) ==
  IdleOK(b) /\ CursorOK(b) /\ ShownBehind(b) /\ StayedAhead(b) /\ StillDivided(b) /\ ListedOK(b)

IInv == Types /\ \A c \in Clients : BrowseOK(browse[c])

LEMMA InitIInv == Init => IInv
<1> SUFFICES ASSUME Init PROVE IInv
  OBVIOUS
<1>1. Away \in Browse /\ Away.pc = "idle" /\ Away.at = Start /\ Away.repeated = {}
      /\ Away.still = {} /\ Away.stayed = {} /\ Away.shown = {}
  BY DEF Away, Browse
<1>2. Types
  BY <1>1 DEF Init, Types, Row, Times
<1>3. BrowseOK(Away)
  BY <1>1 DEF BrowseOK, IdleOK, CursorOK, ShownBehind, StayedAhead, StillDivided, ListedOK
<1> QED
  BY <1>2, <1>3 DEF Init, IInv

-----------------------------------------------------------------------------
(***************************************************************************)
(* Requests.                                                               *)
(***************************************************************************)

LEMMA PageKeeps ==
  ASSUME Types, NEW b \in Browse, NEW after \in Browse, NEW page \in SUBSET Jobs,
         NEW newest \in BOOLEAN, BrowseOK(b), b.pc \in {"idle", "paging"},
         b.pc = "paging" => newest = b.newest,
         PageShown(newest, b, page, after),
         PageGoesOn(newest, b, page, after) \/ PageIsLast(newest, b, page, after)
  PROVE  BrowseOK(after)
<1> DEFINE past == PastCursor(newest, b.at)
<1>1. /\ page \subseteq past /\ past \subseteq Listed /\ Listed \subseteq Jobs
      /\ \A j \in past : b.at # Start => Beyond(newest, At(j), b.at)
      /\ \A j \in Listed \ past : b.at # Start /\ ~Beyond(newest, At(j), b.at)
  BY DEF PageShown, PastCursor, Listed
<1>2. /\ after.newest = newest
      /\ after.shown = b.shown \cup page
      /\ after.repeated = b.repeated \cup (b.shown \cap page)
      /\ after.stayed = IF b.pc = "idle" THEN Listed ELSE b.stayed
      /\ after.still = IF b.pc = "idle" THEN Listed ELSE b.still
      /\ after.back = b.back
  BY DEF PageShown
<1>3. /\ b.at \in Positions /\ after.at \in Positions
      /\ b.shown \in SUBSET Jobs
      /\ \A j \in Jobs : At(j) \in Positions
  BY AtTypes DEF Browse, Positions, Types
<1>4. b.pc = "idle" =>
        /\ b.at = Start /\ b.shown = {} /\ b.repeated = {}
        /\ past = Listed
  BY DEF BrowseOK, IdleOK, Away, PastCursor
<1>5. b.pc = "paging" => b.at # Start
  BY DEF BrowseOK, CursorOK
<1>6. PageIsLast(newest, b, page, after) => after.pc = "done" /\ after.at = Start
  BY DEF PageIsLast
<1>7. ASSUME PageGoesOn(newest, b, page, after)
      PROVE  /\ after.pc = "paging"
             /\ after.at # Start
             /\ \A k \in page : ~Beyond(newest, At(k), after.at)
             /\ \A k \in past \ page : Beyond(newest, At(k), after.at)
             /\ b.pc = "paging" => Beyond(newest, after.at, b.at)
  <2>1. PICK last \in page :
          /\ after.at = At(last)
          /\ \A k \in page : ~Beyond(newest, At(k), At(last))
          /\ \A k \in past : k \in page \/ Beyond(newest, At(k), At(last))
    BY <1>7 DEF PageGoesOn
  <2>2. At(last) # Start
    BY StartIsNoPosition, AtTypes DEF Types
  <2>3. after.pc = "paging"
    BY <1>7 DEF PageGoesOn
  <2> QED
    BY <2>1, <2>2, <2>3, <1>1, <1>5
<1> HIDE DEF past
\* What lies behind the old cursor lies behind the new one.
<1>8. ASSUME PageGoesOn(newest, b, page, after), b.pc = "paging", NEW j \in Jobs,
             ~Beyond(newest, At(j), b.at)
      PROVE  ~Beyond(newest, At(j), after.at)
  BY <1>3, <1>7, <1>8, Order
<1>9. IdleOK(after) /\ CursorOK(after)
  BY <1>6, <1>7 DEF IdleOK, CursorOK
<1>10. ListedOK(after)
  BY <1>2 DEF ListedOK, BrowseOK
<1>11. ShownBehind(after)
  <2> SUFFICES ASSUME newest
               PROVE  /\ after.repeated \subseteq b.back
                      /\ after.pc = "paging" =>
                           \A j \in after.shown :
                             /\ job[j].state # "unborn"
                             /\ j \notin b.back => ~Beyond(TRUE, At(j), after.at)
    BY <1>2 DEF ShownBehind
  <2>0. newest = TRUE
    OBVIOUS
  <2>1. b.pc = "paging" =>
          /\ b.repeated \subseteq b.back
          /\ \A j \in b.shown :
               job[j].state # "unborn" /\ (j \notin b.back => ~Beyond(TRUE, At(j), b.at))
    BY <2>0 DEF BrowseOK, ShownBehind
  <2>2. b.shown \cap page \subseteq b.back
    BY <2>0, <2>1, <1>1, <1>4, <1>5
  <2>3. after.repeated \subseteq b.back
    BY <2>1, <2>2, <1>2, <1>4
  <2>4. ASSUME after.pc = "paging", NEW j \in after.shown
        PROVE  job[j].state # "unborn" /\ (j \notin b.back => ~Beyond(TRUE, At(j), after.at))
    <3>1. PageGoesOn(newest, b, page, after)
      BY <2>4, <1>6
    <3>2. CASE j \in page
      BY <3>1, <3>2, <2>0, <1>1, <1>7 DEF Listed
    <3>3. CASE j \in b.shown
      BY <3>1, <3>3, <2>0, <2>1, <1>3, <1>4, <1>8
    <3> QED
      BY <3>2, <3>3, <1>2
  <2> QED
    BY <2>3, <2>4
<1>12. StayedAhead(after)
  <2> SUFFICES ASSUME ~newest
               PROVE  /\ after.pc = "paging" =>
                           \A j \in after.stayed \ b.back :
                             j \in after.shown \/ Beyond(FALSE, At(j), after.at)
                      /\ after.pc = "done" /\ after.served < MaxResults =>
                           after.stayed \ b.back \subseteq after.shown
    BY <1>2 DEF StayedAhead
  <2>0. newest = FALSE
    OBVIOUS
  <2>1. \A j \in after.stayed \ b.back : j \in b.shown \/ j \in past
    <3>1. CASE b.pc = "idle"
      BY <3>1, <1>2, <1>4
    <3>2. CASE b.pc = "paging"
      <4>1. \A j \in b.stayed \ b.back : j \in b.shown \/ Beyond(FALSE, At(j), b.at)
        BY <2>0, <3>2 DEF BrowseOK, StayedAhead
      <4>2. b.stayed \subseteq Listed
        BY DEF BrowseOK, ListedOK
      <4> QED
        BY <4>1, <4>2, <3>2, <2>0, <1>1, <1>2
    <3> QED
      BY <3>1, <3>2
  <2>2. CASE PageGoesOn(newest, b, page, after)
    BY <2>0, <2>1, <2>2, <1>2, <1>7
  <2>3. CASE PageIsLast(newest, b, page, after)
    <3>1. after.served < MaxResults => page = past
      BY <2>3 DEF PageIsLast, past
    <3> QED
      BY <3>1, <2>1, <2>3, <1>2, <1>6
  <2> QED
    BY <2>2, <2>3
<1>13. StillDivided(after)
  <2>1. \A j \in after.still : j \in Listed /\ (j \in b.shown <=> j \notin past)
    <3>1. CASE b.pc = "idle"
      BY <3>1, <1>2, <1>4
    <3>2. CASE b.pc = "paging"
      <4>1. \A j \in b.still : j \in b.shown <=> ~Beyond(newest, At(j), b.at)
        BY <3>2 DEF BrowseOK, StillDivided
      <4>2. b.still \subseteq Listed
        BY DEF BrowseOK, ListedOK
      <4> QED
        BY <4>1, <4>2, <3>2, <1>1, <1>2, <1>5
    <3> QED
      BY <3>1, <3>2
  <2>2. after.still \cap after.repeated = {}
    <3>1. after.still \cap b.repeated = {}
      BY <1>2, <1>4 DEF BrowseOK, StillDivided
    <3> QED
      BY <3>1, <2>1, <1>1, <1>2
  <2>3. ASSUME after.pc = "paging", NEW j \in after.still
        PROVE  j \in after.shown <=> ~Beyond(after.newest, At(j), after.at)
    <3>1. PageGoesOn(newest, b, page, after)
      BY <2>3, <1>6
    <3>2. j \in Listed /\ (j \in b.shown <=> j \notin past)
      BY <2>1, <2>3
    <3>3. CASE j \in page
      BY <3>1, <3>3, <1>2, <1>7
    <3>4. CASE j \in past \ page
      BY <3>1, <3>2, <3>4, <1>2, <1>7
    <3>5. CASE j \notin past
      <4>1. b.pc = "paging" /\ ~Beyond(newest, At(j), b.at)
        BY <3>2, <3>5, <1>1, <1>4
      <4>2. ~Beyond(newest, At(j), after.at)
        BY <4>1, <3>1, <3>2, <1>1, <1>8
      <4> QED
        BY <4>2, <3>2, <3>5, <1>2
    <3> QED
      BY <3>3, <3>4, <3>5
  <2>4. ASSUME after.pc = "done", after.served < MaxResults
        PROVE  after.still \subseteq after.shown
    <3>1. page = past
      BY <2>4, <1>7 DEF PageIsLast, past
    <3> QED
      BY <3>1, <2>1, <1>2
  <2> QED
    BY <2>2, <2>3, <2>4 DEF StillDivided
<1> QED
  BY <1>9, <1>10, <1>11, <1>12, <1>13 DEF BrowseOK

-----------------------------------------------------------------------------
(***************************************************************************)
(* Imports.                                                                *)
(***************************************************************************)

\* A row that moves to a later time stays behind a cursor of the newest first,
\* and beyond one of the oldest first.
LEMMA LaterStays ==
  ASSUME NEW p \in Position, NEW q \in Position, p.id = q.id, p.stamp <= q.stamp,
         NEW at \in Positions
  PROVE  /\ ~Beyond(TRUE, p, at) => ~Beyond(TRUE, q, at)
         /\ Beyond(FALSE, p, at) => Beyond(FALSE, q, at)
<1>1. /\ p.stamp \in Int /\ p.id \in Int /\ q.stamp \in Int /\ q.id \in Int
      /\ at.stamp \in Int /\ at.id \in Int
  BY DEF Positions, Position, Start, Times, Jobs
<1> QED
  BY <1>1 DEF Beyond, Precedes

\* One row is written.
RowWritten(j) ==
  /\ job' \in [Jobs -> Row]
  /\ \A k \in Jobs \ {j} : job'[k] = job[k]
  /\ job'[j].state # "unborn"

\* It was there and had a later time.
MovedBack(j) == job[j].state # "unborn" /\ job'[j].stamp < job[j].stamp

LEMMA WriteKeeps ==
  ASSUME Types, NEW j \in Jobs, RowWritten(j), NEW b \in Browse, BrowseOK(b),
         NEW still \in SUBSET (b.still \ {j}), NEW stayed \in SUBSET b.stayed,
         still \subseteq stayed, j \in stayed => job'[j].state = "listed",
         NEW back \in SUBSET Jobs, b.back \subseteq back, b.pc = "idle" => back = b.back,
         MovedBack(j) /\ b.pc = "paging" /\ (b.newest <=> j \in b.shown) => j \in back
  PROVE  BrowseOK([b EXCEPT !.still = still, !.stayed = stayed, !.back = back])'
<1> DEFINE a == [b EXCEPT !.still = still, !.stayed = stayed, !.back = back]
<1>1. /\ a.pc = b.pc /\ a.newest = b.newest /\ a.at = b.at /\ a.served = b.served
      /\ a.shown = b.shown /\ a.repeated = b.repeated
      /\ a.still = still /\ a.stayed = stayed /\ a.back = back
      /\ b.at \in Positions /\ b.shown \in SUBSET Jobs /\ b.stayed \in SUBSET Jobs
  BY DEF Browse, Positions
<1>2. b.pc = "idle" => a = Away
  <2> SUFFICES ASSUME b.pc = "idle" PROVE a = Away
    OBVIOUS
  <2>1. b = Away /\ still = b.still /\ stayed = b.stayed /\ back = b.back
    BY DEF BrowseOK, IdleOK, Away
  <2>2. [b EXCEPT !.still = b.still, !.stayed = b.stayed, !.back = b.back] = b
    BY DEF Browse
  <2> QED
    BY <2>1, <2>2
<1> HIDE DEF a
<1>3. /\ \A k \in Jobs \ {j} : job'[k] = job[k]
      /\ \A k \in Jobs : At(k)' = [stamp |-> job'[k].stamp, id |-> k]
      /\ \A k \in Jobs \ {j} : At(k)' = At(k)
      /\ job'[j].state # "unborn"
  BY DEF RowWritten, At
<1>4. \A k \in Jobs : At(k) \in Position /\ At(k)' \in Position
  <2>1. \A k \in Jobs : At(k) \in Position
    BY AtTypes DEF Types
  <2>2. job' \in [Jobs -> Row]
    BY DEF RowWritten
  <2>3. \A k \in Jobs : At(k)' \in Position
    BY <2>2, <1>3 DEF Row, Position
  <2> QED
    BY <2>1, <2>3
<1>5. ASSUME NEW k \in Jobs, job[k].state # "unborn", b.pc = "paging", k \notin back,
             b.newest <=> k \in b.shown
      PROVE  /\ ~Beyond(TRUE, At(k), b.at) => ~Beyond(TRUE, At(k)', b.at)
             /\ Beyond(FALSE, At(k), b.at) => Beyond(FALSE, At(k)', b.at)
  <2>1. CASE k # j
    BY <2>1, <1>3
  <2>2. CASE k = j
    <3>1. job[j].stamp <= job'[j].stamp
      <4>1. ~(job'[j].stamp < job[j].stamp)
        BY <2>2, <1>5 DEF MovedBack
      <4>2. job[j].stamp \in Int /\ job'[j].stamp \in Int
        BY DEF RowWritten, Types, Row, Times
      <4> QED
        BY <4>1, <4>2
    <3>2. At(k).stamp <= At(k)'.stamp /\ At(k).id = At(k)'.id
      BY <3>1, <2>2, <1>3 DEF At
    <3> QED
      BY <3>2, <1>1, <1>4, LaterStays
  <2> QED
    BY <2>1, <2>2
<1>6. \A k \in b.stayed : job[k].state # "unborn"
  BY DEF BrowseOK, ListedOK, Listed
<1>7. IdleOK(a)' /\ CursorOK(a)'
  BY <1>1, <1>2 DEF IdleOK, CursorOK, BrowseOK
<1>8. ListedOK(a)'
  <2>1. stayed \subseteq Listed
    BY DEF BrowseOK, ListedOK
  <2>2. \A k \in stayed : k \in Jobs /\ job'[k].state = "listed"
    BY <2>1, <1>3 DEF Listed
  <2> QED
    BY <2>2, <1>1 DEF ListedOK, Listed
<1>9. ShownBehind(a)'
  <2> SUFFICES ASSUME b.newest
               PROVE  /\ b.repeated \subseteq back
                      /\ b.pc = "paging" =>
                           \A k \in b.shown :
                             /\ job'[k].state # "unborn"
                             /\ k \notin back => ~Beyond(TRUE, At(k)', b.at)
    BY <1>1 DEF ShownBehind
  <2>1. /\ b.repeated \subseteq b.back
        /\ b.pc = "paging" =>
             \A k \in b.shown :
               job[k].state # "unborn" /\ (k \notin b.back => ~Beyond(TRUE, At(k), b.at))
    BY DEF BrowseOK, ShownBehind
  <2> QED
    BY <2>1, <1>1, <1>3, <1>5
<1>10. StayedAhead(a)'
  <2> SUFFICES ASSUME ~b.newest
               PROVE  /\ b.pc = "paging" =>
                           \A k \in stayed \ back : k \in b.shown \/ Beyond(FALSE, At(k)', b.at)
                      /\ b.pc = "done" /\ b.served < MaxResults => stayed \ back \subseteq b.shown
    BY <1>1 DEF StayedAhead
  <2>1. /\ b.pc = "paging" =>
             \A k \in b.stayed \ b.back : k \in b.shown \/ Beyond(FALSE, At(k), b.at)
        /\ b.pc = "done" /\ b.served < MaxResults => b.stayed \ b.back \subseteq b.shown
    BY DEF BrowseOK, StayedAhead
  <2> QED
    BY <2>1, <1>1, <1>5, <1>6
<1>11. StillDivided(a)'
  <2>1. /\ b.pc = "paging" => \A k \in b.still : k \in b.shown <=> ~Beyond(b.newest, At(k), b.at)
        /\ b.pc = "done" /\ b.served < MaxResults => b.still \subseteq b.shown
        /\ b.still \cap b.repeated = {}
    BY DEF BrowseOK, StillDivided
  <2>2. \A k \in still : k \in b.still /\ At(k)' = At(k)
    BY <1>1, <1>3 DEF BrowseOK, ListedOK
  <2>3. /\ b.pc = "paging" => \A k \in still : k \in b.shown <=> ~Beyond(b.newest, At(k)', b.at)
        /\ b.pc = "done" /\ b.served < MaxResults => still \subseteq b.shown
        /\ still \cap b.repeated = {}
    BY <2>1, <2>2
  <2> QED
    BY <2>3, <1>1 DEF StillDivided
<1> QED
  BY <1>7, <1>8, <1>9, <1>10, <1>11 DEF BrowseOK, a

\* A row the pages do not show is written: no client's history changes.
LEMMA UnlistedWriteKeeps ==
  ASSUME IInv, NEW j \in Jobs, RowWritten(j), ~MovedBack(j), j \notin Listed,
         UNCHANGED browse
  PROVE  IInv'
<1> SUFFICES ASSUME NEW c \in Clients PROVE BrowseOK(browse[c])'
  BY DEF IInv, Types, RowWritten
<1>1. PICK b \in Browse : b = browse[c]
  BY DEF IInv, Types
<1>2. BrowseOK(b)
  BY <1>1 DEF IInv
<1>3. b.stayed \subseteq Listed /\ b.still \subseteq b.stayed
  BY <1>2 DEF BrowseOK, ListedOK
<1>4. b.still \in SUBSET (b.still \ {j}) /\ j \notin b.stayed /\ b.back \in SUBSET Jobs
  BY <1>3 DEF Browse
<1>5. BrowseOK([b EXCEPT !.still = b.still, !.stayed = b.stayed, !.back = b.back])'
  BY <1>2, <1>3, <1>4, WriteKeeps DEF IInv
<1>6. [b EXCEPT !.still = b.still, !.stayed = b.stayed, !.back = b.back] = b
  BY DEF Browse
<1>7. BrowseOK(b)'
  BY <1>5, <1>6
<1> QED
  BY <1>1, <1>7

\* A row the pages may show is written.
LEMMA ListedWriteKeeps ==
  ASSUME IInv, NEW j \in Jobs, RowWritten(j), NEW gone \in BOOLEAN, NEW earlier \in BOOLEAN,
         Disturb(j, gone, earlier), ~gone => job'[j].state = "listed",
         MovedBack(j) => earlier
  PROVE  IInv'
<1> DEFINE still(b) == b.still \ {j}
           stayed(b) == IF gone THEN b.stayed \ {j} ELSE b.stayed
           misleads(b) == earlier /\ b.pc = "paging" /\ (b.newest <=> j \in b.shown)
           back(b) == IF misleads(b) THEN b.back \cup {j} ELSE b.back
           after(b) == [b EXCEPT !.still = still(b), !.stayed = stayed(b), !.back = back(b)]
<1>1. \A c \in Clients : browse[c] \in Browse /\ BrowseOK(browse[c])
  BY DEF IInv, Types
<1>2. browse' = [c \in Clients |-> after(browse[c])]
  BY DEF Disturb
<1>3. ASSUME NEW b \in Browse, BrowseOK(b)
      PROVE  after(b) \in Browse /\ BrowseOK(after(b))'
  <2>1. b.still \subseteq b.stayed
    BY <1>3 DEF BrowseOK, ListedOK
  <2>2. /\ still(b) \in SUBSET (b.still \ {j}) /\ stayed(b) \in SUBSET b.stayed
        /\ still(b) \subseteq stayed(b)
        /\ j \in stayed(b) => job'[j].state = "listed"
        /\ back(b) \in SUBSET Jobs /\ b.back \subseteq back(b) /\ (b.pc = "idle" => back(b) = b.back)
        /\ MovedBack(j) /\ b.pc = "paging" /\ (b.newest <=> j \in b.shown) => j \in back(b)
    BY <2>1, <1>3 DEF Browse
  <2>3. after(b) \in Browse
    BY <1>3 DEF Browse
  <2> HIDE DEF still, stayed, back
  <2>4. BrowseOK([b EXCEPT !.still = still(b), !.stayed = stayed(b), !.back = back(b)])'
    BY <2>2, <1>3, WriteKeeps DEF IInv
  <2> QED
    BY <2>3, <2>4
<1> HIDE DEF after
<1>4. \A c \in Clients : browse'[c] = after(browse[c])
  BY <1>2
<1>5. browse' \in [Clients -> Browse]
  BY <1>1, <1>2, <1>3
<1>6. Types'
  BY <1>5 DEF IInv, Types, RowWritten
<1>7. ASSUME NEW c \in Clients PROVE BrowseOK(browse[c])'
  <2>1. PICK b \in Browse : b = browse[c]
    BY <1>1
  <2>2. BrowseOK(after(b))'
    BY <2>1, <1>1, <1>3
  <2>3. browse'[c] = after(b)
    BY <2>1, <1>4
  <2> QED
    BY <2>2, <2>3
<1> QED
  BY <1>6, <1>7 DEF IInv

-----------------------------------------------------------------------------
(***************************************************************************)
(* Every step keeps the invariant.                                         *)
(***************************************************************************)

LEMMA RowFields ==
  ASSUME Types, NEW j \in Jobs
  PROVE  /\ job[j] \in Row
         /\ job[j].stamp \in Times
         /\ \A state \in {"unborn", "listed", "filtered", "inactive", "gone"}, t \in Times :
              [state |-> state, stamp |-> t] \in Row
  BY DEF Types, Row, Times

LEMMA InsertKeeps ==
  ASSUME IInv, NEW j \in Jobs, NEW state \in {"listed", "filtered"}, NEW t \in Times,
         Insert(j, state, t)
  PROVE  IInv'
<1>1. Types
  BY DEF IInv
<1>2. [state |-> state, stamp |-> t] \in Row
  BY <1>1, RowFields
<1>3. RowWritten(j) /\ ~MovedBack(j) /\ j \notin Listed
  BY <1>1, <1>2 DEF Insert, RowWritten, MovedBack, Types, Listed
<1> QED
  BY <1>3, UnlistedWriteKeeps DEF Insert

LEMMA SeenKeeps ==
  ASSUME IInv, NEW j \in Jobs, NEW state \in {"listed", "filtered"}, NEW t \in Times,
         Seen(j, state, t)
  PROVE  IInv'
<1>1. Types
  BY DEF IInv
<1>2. [state |-> state, stamp |-> t] \in Row
  BY <1>1, RowFields
<1>3. job'[j] = [state |-> state, stamp |-> t]
  BY <1>1 DEF Seen, Types
<1>4. RowWritten(j)
  BY <1>1, <1>2, <1>3 DEF Seen, RowWritten, Types
<1> DEFINE gone == state = "filtered"
           earlier == t < job[j].stamp
<1>5. (~gone => job'[j].state = "listed") /\ (MovedBack(j) => earlier)
  BY <1>3 DEF MovedBack
<1>6. gone \in BOOLEAN /\ earlier \in BOOLEAN /\ Disturb(j, gone, earlier)
  BY DEF Seen
<1> HIDE DEF gone, earlier
<1> QED
  BY <1>4, <1>5, <1>6, ListedWriteKeeps

LEMMA SweepKeeps ==
  ASSUME IInv, NEW j \in Jobs, Sweep(j)
  PROVE  IInv'
<1>1. Types
  BY DEF IInv
<1>2. job' = [job EXCEPT ![j].state = "inactive"]
  BY DEF Sweep
<1>3. [job[j] EXCEPT !.state = "inactive"] \in Row
  BY <1>1, RowFields DEF Row
<1>4. RowWritten(j)
  BY <1>1, <1>2, <1>3, RowFields DEF RowWritten, Types, Row, Times
<1>5. job'[j].stamp = job[j].stamp /\ job[j].stamp \in Int
  BY <1>1, <1>2, RowFields DEF Types, Row, Times
<1>6. ~MovedBack(j)
  BY <1>5 DEF MovedBack
<1>7. Disturb(j, TRUE, FALSE)
  BY DEF Sweep
<1> QED
  BY <1>4, <1>6, <1>7, ListedWriteKeeps

LEMMA HardDeleteKeeps ==
  ASSUME IInv, NEW j \in Jobs, HardDelete(j)
  PROVE  IInv'
<1>1. Types
  BY DEF IInv
<1>2. job' = [job EXCEPT ![j].state = "gone"]
  BY DEF HardDelete
<1>3. [job[j] EXCEPT !.state = "gone"] \in Row
  BY <1>1, RowFields DEF Row
<1>4. RowWritten(j)
  BY <1>1, <1>2, <1>3, RowFields DEF RowWritten, Types, Row, Times
<1>5. j \notin Listed
  BY DEF HardDelete, Listed
<1>6. job'[j].stamp = job[j].stamp /\ job[j].stamp \in Int
  BY <1>1, <1>2, RowFields DEF Types, Row, Times
<1>7. ~MovedBack(j)
  BY <1>6 DEF MovedBack
<1> QED
  BY <1>4, <1>5, <1>7, UnlistedWriteKeeps DEF HardDelete

\* A client's own step leaves the rows and the other clients alone.
LEMMA ClientKeeps ==
  ASSUME IInv, NEW c \in Clients, NEW after \in Browse, BrowseOK(after),
         browse' = [browse EXCEPT ![c] = after], UNCHANGED job
  PROVE  IInv'
<1>1. Types'
  BY DEF IInv, Types
<1>2. ASSUME NEW b, BrowseOK(b) PROVE BrowseOK(b)'
  BY <1>2 DEF BrowseOK, IdleOK, CursorOK, ShownBehind, StayedAhead, StillDivided, ListedOK,
              Listed, At
<1>3. ASSUME NEW d \in Clients PROVE BrowseOK(browse[d])'
  <2>1. PICK b \in Browse : b = browse'[d]
    BY <1>1 DEF Types
  <2>2. BrowseOK(b)
    BY <2>1 DEF IInv, Types
  <2>3. BrowseOK(b)'
    BY <2>2, <1>2
  <2> QED
    BY <2>1, <2>3
<1> QED
  BY <1>1, <1>3 DEF IInv

LEMMA PageStepKeeps ==
  ASSUME IInv, NEW c \in Clients, NEW newest \in BOOLEAN, NEW limit \in PageSizes,
         Page(c, newest, limit)
  PROVE  IInv'
<1>1. Types
  BY DEF IInv
<1>2. PICK after \in Browse, page \in SUBSET Jobs :
        /\ browse' = [browse EXCEPT ![c] = after]
        /\ PageShown(newest, browse[c], page, after)
        /\ \/ PageGoesOn(newest, browse[c], page, after)
           \/ PageIsLast(newest, browse[c], page, after)
  BY <1>1, PageStep
<1>3. PICK b \in Browse : b = browse[c]
  BY <1>1 DEF Types
<1>4. /\ b.pc \in {"idle", "paging"} /\ (b.pc = "paging" => newest = b.newest)
      /\ UNCHANGED job
  BY <1>3 DEF Page
<1>5. BrowseOK(b)
  BY <1>3 DEF IInv
<1>6. BrowseOK(after)
  BY <1>1, <1>2, <1>3, <1>4, <1>5, PageKeeps
<1> QED
  BY <1>2, <1>4, <1>6, ClientKeeps

LEMMA LeaveKeeps ==
  ASSUME IInv, NEW c \in Clients, Leave(c)
  PROVE  IInv'
<1>1. Away \in Browse
  BY DEF Away, Browse
<1>2. BrowseOK(Away)
  BY DEF Away, BrowseOK, IdleOK, CursorOK, ShownBehind, StayedAhead, StillDivided, ListedOK
<1> QED
  BY <1>1, <1>2, ClientKeeps DEF Leave

LEMMA NextKeepsIInv == IInv /\ [Next]_vars => IInv'
<1> SUFFICES ASSUME IInv, [Next]_vars PROVE IInv'
  OBVIOUS
<1>1. CASE Import
  <2>1. ASSUME NEW j \in Jobs, Sweep(j) PROVE IInv'
    BY <2>1, SweepKeeps
  <2>2. ASSUME NEW j \in Jobs, HardDelete(j) PROVE IInv'
    BY <2>2, HardDeleteKeeps
  <2>3. ASSUME NEW j \in Jobs, NEW state \in {"listed", "filtered"}, NEW t \in Times,
               Insert(j, state, t)
        PROVE  IInv'
    BY <2>3, InsertKeeps
  <2>4. ASSUME NEW j \in Jobs, NEW state \in {"listed", "filtered"}, NEW t \in Times,
               Seen(j, state, t)
        PROVE  IInv'
    BY <2>4, SeenKeeps
  <2> QED
    BY <1>1, <2>1, <2>2, <2>3, <2>4 DEF Import
<1>2. ASSUME NEW c \in Clients, Visit(c) PROVE IInv'
  <2>1. ASSUME NEW newest \in BOOLEAN, NEW limit \in PageSizes, Page(c, newest, limit)
        PROVE  IInv'
    BY <2>1, PageStepKeeps
  <2>2. CASE Leave(c)
    BY <2>2, LeaveKeeps
  <2> QED
    BY <1>2, <2>1, <2>2 DEF Visit
<1>3. CASE UNCHANGED vars
  <2>1. Types'
    BY <1>3 DEF IInv, Types, vars
  <2>2. \A c \in Clients : BrowseOK(browse[c])'
    BY <1>3 DEF IInv, vars, BrowseOK, IdleOK, CursorOK, ShownBehind, StayedAhead, StillDivided,
                ListedOK, Listed, At
  <2> QED
    BY <2>1, <2>2 DEF IInv
<1> QED
  BY <1>1, <1>2, <1>3 DEF Next

\* The inductive invariant.
THEOREM IInvHolds == Spec => []IInv
<1>1. Init => IInv
  BY InitIInv
<1>2. IInv /\ [Next]_vars => IInv'
  BY NextKeepsIInv
<1> QED
  BY <1>1, <1>2, PTL DEF Spec

-----------------------------------------------------------------------------
(***************************************************************************)
(* What follows.                                                           *)
(***************************************************************************)

\* The types, and that a client has a cursor exactly while there is more.
THEOREM TypeCorrect == Spec => []TypeOK
<1>1. IInv => TypeOK
  BY DEF IInv, Types, TypeOK, BrowseOK, CursorOK
<1> QED
  BY <1>1, IInvHolds, PTL

\* For any number of jobs and page sizes: newest first, a client sees no job
\* twice, and oldest first it misses none that was listed all along, but those
\* that an import has moved to an earlier time in between.
THEOREM MovesAreHarmless == Spec => []MovesMisleadNone
<1>1. IInv => NewestFirstNeverRepeats
  BY DEF IInv, BrowseOK, ShownBehind, NewestFirstNeverRepeats
<1>2. IInv => OldestFirstMissesNone
  BY DEF IInv, BrowseOK, StayedAhead, OldestFirstMissesNone, AtTheEnd
<1>3. IInv => MovesMisleadNone
  BY <1>1, <1>2 DEF MovesMisleadNone
<1> QED
  BY <1>3, IInvHolds, PTL

\* In both directions a client that reads to the end is shown every job that no
\* import has touched since its first page exactly once.
THEOREM UntouchedOnce == Spec => []UntouchedShownOnce
<1>1. IInv => UntouchedShownOnce
  BY DEF IInv, BrowseOK, StillDivided, UntouchedShownOnce, AtTheEnd
<1> QED
  BY <1>1, IInvHolds, PTL
=============================================================================
