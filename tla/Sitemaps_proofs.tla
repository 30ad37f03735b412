--------------------------- MODULE Sitemaps_proofs ---------------------------
(***************************************************************************)
(* Proofs about Sitemaps, for any number of jobs and generators and any    *)
(* size of a chunk: finished builds are complete, and what the published   *)
(* index names stays there while the files of a new build replace it.      *)
(***************************************************************************)
EXTENDS Sitemaps, FiniteSetTheorems, WellFoundedInduction, TLAPS

USE SitemapAssumption

-----------------------------------------------------------------------------
(***************************************************************************)
(* Numbers and finite sets.                                                *)
(***************************************************************************)

LEMMA LeastNumber ==
  ASSUME NEW S, S \subseteq Nat, S # {}
  PROVE  \E x \in S : \A y \in S : x <= y
<1> DEFINE R == OpToRel(<, Nat)
<1>1. \E x \in S : \A y \in S : <<y, x>> \notin R
  BY NatLessThanWellFounded, WFMin, Zenon
<1>2. ASSUME NEW x \in S, NEW y \in S, y < x PROVE <<y, x>> \in R
  BY <1>2, Zenon DEF OpToRel
<1> HIDE DEF R
<1>3. \E x \in S : \A y \in S : ~(y < x)
  BY <1>1, <1>2
<1> QED
  BY <1>3

LEMMA GreatestJob ==
  ASSUME NEW S \in SUBSET Jobs, S # {}
  PROVE  \E x \in S : \A y \in S : y <= x
<1> DEFINE rest == {MaxJobs - x : x \in S}
<1>1. \A x \in S : x \in Nat /\ MaxJobs - x \in Nat
  BY DEF Jobs
<1>2. rest \subseteq Nat /\ rest # {}
  BY <1>1
<1>3. PICK r \in rest : \A q \in rest : r <= q
  BY <1>2, LeastNumber
<1>4. PICK x \in S : r = MaxJobs - x
  OBVIOUS
<1>5. \A y \in S : MaxJobs - x <= MaxJobs - y
  BY <1>3, <1>4
<1> QED
  BY <1>1, <1>5

LEMMA JobsFinite ==
  ASSUME NEW S \in SUBSET Jobs
  PROVE  IsFiniteSet(S) /\ Cardinality(S) \in Nat
<1>1. IsFiniteSet(1 .. MaxJobs)
  BY FS_Interval
<1>2. IsFiniteSet(S)
  BY <1>1, FS_Subset DEF Jobs
<1> QED
  BY <1>2, FS_CardinalityType

LEMMA Smaller ==
  ASSUME NEW S \in SUBSET Jobs, NEW T \in SUBSET S
  PROVE  Cardinality(T) <= Cardinality(S)
  BY JobsFinite, FS_Subset

LEMMA Product ==
  ASSUME NEW a \in Nat, NEW b \in Nat
  PROVE  /\ a * ChunkSize \in Nat
         /\ a * ChunkSize < b * ChunkSize => a < b
         /\ (a + 1) * ChunkSize = a * ChunkSize + ChunkSize
<1>1. a * ChunkSize \in Nat /\ (a + 1) * ChunkSize = a * ChunkSize + ChunkSize
  OBVIOUS
<1>2. ASSUME a >= b PROVE a * ChunkSize >= b * ChunkSize
  <2>1. PICK c \in Nat : a = b + c
    <3>1. a - b \in Nat /\ a = b + (a - b)
      BY <1>2
    <3> QED
      BY <3>1
  <2>2. a * ChunkSize = b * ChunkSize + c * ChunkSize /\ c * ChunkSize \in Nat
        /\ b * ChunkSize \in Nat
    BY <2>1
  <2> QED
    BY <2>2
<1>3. b * ChunkSize \in Nat
  OBVIOUS
<1> QED
  BY <1>1, <1>2, <1>3

-----------------------------------------------------------------------------
(***************************************************************************)
(* One page of the active jobs.                                            *)
(***************************************************************************)

Due(after) == {j \in Active : after < j}

LEMMA PageIsPrefix ==
  ASSUME NEW after \in 0 .. MaxJobs
  PROVE  /\ Page(after) \subseteq Due(after) /\ Due(after) \subseteq Jobs
         /\ \A j \in Page(after), k \in Due(after) : k < j => k \in Page(after)
         /\ Due(after) # {} => Page(after) # {}
         /\ Cardinality(Page(after)) <= ChunkSize
         /\ Cardinality(Page(after)) < ChunkSize => Page(after) = Due(after)
         /\ Page(after) # {} =>
              /\ Last(Page(after)) \in Page(after)
              /\ \A k \in Page(after) : k <= Last(Page(after))
<1> DEFINE due == Due(after)
           page == Page(after)
           upto(j) == {k \in due : k <= j}
<1>1. page = {j \in due : Cardinality(upto(j)) <= ChunkSize} /\ due \subseteq Jobs
  BY DEF Page, Due, Active
<1> HIDE DEF due, page
<1>2. \A j \in due : j \in Nat /\ upto(j) \in SUBSET Jobs
  <2>1. \A j \in due : j \in Nat
    BY <1>1 DEF Jobs
  <2>2. \A j \in due : upto(j) \in SUBSET Jobs
    BY <1>1
  <2> QED
    BY <2>1, <2>2
<1>3. ASSUME NEW j \in page, NEW k \in due, k < j PROVE k \in page
  <2>1. j \in due /\ j \in Nat /\ k \in Nat
    BY <1>1, <1>2
  <2>2. \A i \in due : i \in Nat /\ (i <= k => i <= j)
    BY <2>1, <1>2, <1>3
  <2>3. upto(k) \in SUBSET upto(j)
    BY <2>2
  <2>4. Cardinality(upto(k)) <= Cardinality(upto(j)) /\ Cardinality(upto(k)) \in Nat
        /\ Cardinality(upto(j)) \in Nat
    BY <2>1, <2>3, <1>2, Smaller, JobsFinite
  <2>5. Cardinality(upto(j)) <= ChunkSize
    BY <1>1
  <2> QED
    BY <2>4, <2>5, <1>1
<1>4. ASSUME page # {}
      PROVE  Last(page) \in page /\ \A k \in page : k <= Last(page)
  <2>1. \E x \in page : \A y \in page : y <= x
    BY <1>1, <1>4, GreatestJob
  <2> QED
    BY <2>1 DEF Last
<1>5. Cardinality(page) <= ChunkSize
  <2>1. CASE page = {}
    BY <2>1, FS_EmptySet
  <2>2. CASE page # {}
    <3>1. PICK j \in page : \A k \in page : k <= j
      BY <2>2, <1>4
    <3>2. page \in SUBSET upto(j) /\ upto(j) \in SUBSET Jobs /\ Cardinality(upto(j)) <= ChunkSize
      BY <3>1, <1>1, <1>2
    <3>3. Cardinality(page) <= Cardinality(upto(j)) /\ Cardinality(upto(j)) \in Nat
          /\ Cardinality(page) \in Nat
      BY <3>2, <1>1, Smaller, JobsFinite
    <3> QED
      BY <3>2, <3>3
  <2> QED
    BY <2>1, <2>2
\* The least job that is not on the page would have been.
<1>6. ASSUME due # page, Cardinality(page) < ChunkSize PROVE FALSE
  <2>1. due \ page \subseteq Nat /\ due \ page # {}
    BY <1>1, <1>2, <1>6
  <2>2. PICK x \in due \ page : \A y \in due \ page : x <= y
    BY <2>1, LeastNumber
  <2>3. \A k \in upto(x) : k \in page \/ k = x
    BY <2>1, <2>2, <1>2
  <2>4. upto(x) \in SUBSET (page \cup {x}) /\ page \cup {x} \in SUBSET Jobs /\ x \notin page
    BY <2>2, <2>3, <1>1
  <2>5. Cardinality(page \cup {x}) = Cardinality(page) + 1 /\ Cardinality(page) \in Nat
    BY <2>4, <1>1, FS_AddElement, JobsFinite
  <2>6. Cardinality(upto(x)) <= Cardinality(page) + 1 /\ Cardinality(upto(x)) \in Nat
    <3>1. upto(x) \in SUBSET Jobs
      BY <2>2, <1>2
    <3> QED
      BY <3>1, <2>4, <2>5, Smaller, JobsFinite
  <2>7. Cardinality(upto(x)) <= ChunkSize
    BY <2>5, <2>6, <1>6
  <2> QED
    BY <2>2, <2>7, <1>1
<1>7. due # {} => page # {}
  BY <1>6, FS_EmptySet
<1>8. /\ page \subseteq due /\ due \subseteq Jobs
      /\ \A j \in page, k \in due : k < j => k \in page
      /\ due # {} => page # {}
      /\ Cardinality(page) <= ChunkSize
      /\ Cardinality(page) < ChunkSize => page = due
      /\ page # {} => Last(page) \in page /\ \A k \in page : k <= Last(page)
  BY <1>1, <1>3, <1>4, <1>5, <1>6, <1>7
<1> QED
  BY <1>8 DEF due, page

-----------------------------------------------------------------------------
(***************************************************************************)
(* The inductive invariant, in parts.                                      *)
(***************************************************************************)

\* The jobs on the first c chunks of a task.
Prefix(t, c) == UNION {t.pages[d] : d \in 1 .. c}
Pages(t) == UNION {t.pages[c] : c \in Chunks}
Below(S, j) == {k \in S : k < j}

\* The pages read so far are the first ones and in the order of the ids.
Shape(t) ==
  /\ t.placed <= t.count
  /\ \A c \in Chunks : t.pages[c] # {} <=> c <= t.count
  /\ t.count <= t.after
  /\ \A c \in Chunks : \A j \in t.pages[c] : j <= t.after
  /\ \A c, d \in Chunks : c < d => \A j \in t.pages[c], k \in t.pages[d] : j < k

\* No job of the beginning is missed: it is on a page or still ahead.
Complete(t, A) ==
  /\ t.pc = "read" => \A j \in t.since \cap A : j \in Pages(t) \/ t.after < j
  /\ t.pc \in {"replace", "list", "unlink"} => t.since \cap A \subseteq Pages(t)

Counted(t) ==
  \A c \in Chunks : c <= t.count => Cardinality(Prefix(t, c)) <= c * ChunkSize

\* A chunk is full, or the last one that a job of its build is on.
Full(t, A) ==
  \A c \in Chunks : c <= t.count =>
    \/ Cardinality(Prefix(t, c)) = c * ChunkSize
    \/ \A j \in t.since \cap A :
         /\ t.pc = "read" => j <= t.after
         /\ \A d \in Chunks : j \in t.pages[d] => d <= c

Build(t, A) == Shape(t) /\ Complete(t, A) /\ Counted(t) /\ Full(t, A)

Typed ==
  /\ job \in [Jobs -> {"unborn", "open", "active", "gone"}]
  /\ disk \in [Chunks -> SUBSET Jobs]
  /\ index \in Index
  /\ gen \in [Generators -> Task]
  /\ faults \in 0 .. MaxFaults
  /\ settled \in BOOLEAN

\* What was active once never becomes so again.
Past ==
  /\ \A j \in index.since : job[j] \in {"active", "gone"}
  /\ \A g \in Generators : \A j \in gen[g].since : job[j] \in {"active", "gone"}

\* Below a job that was there at the beginning every active one was as well.
Ordered(S, A) == \A j \in S \cap A, k \in A : k < j => k \in S

\* The index names files that exist, its jobs are on them, and not later than
\* their number among those jobs requires.
Published(ix, A, d) ==
  /\ Ordered(ix.since, A)
  /\ \A c \in Chunks : c <= ix.chunks => d[c] # {}
  /\ \A j \in ix.since \cap A : \E c \in Chunks : c <= ix.chunks /\ j \in d[c]
  /\ \A c \in Chunks : c <= ix.chunks => \A j \in d[c] \cap ix.since \cap A :
       Cardinality(Below(ix.since \cap A, j)) < c * ChunkSize

\* An undisturbed build: new jobs come after those of its beginning.
Undisturbed(t, A) ==
  /\ Ordered(t.since, A)
  /\ \A j \in t.since \cap A, k \in Pages(t) : k < j => k \in t.since

\* What an undisturbed task has moved is in place, and what it will unlink the
\* index does not name.
Moved(t, d, ix) ==
  /\ t.pc = "read" => t.placed = 0
  /\ t.pc = "replace" => \A c \in Chunks : c <= t.placed => d[c] = t.pages[c]
  /\ t.pc \in {"list", "unlink"} => ix.chunks = t.count
  /\ t.pc = "unlink" => \A c \in t.stale : t.count < c

\* The build relates to the index it will replace: a job that is still on an
\* old chunk is on no later chunk of the build.
Supersedes(t, A, d, ix) ==
  /\ ix.since \cap A \subseteq t.since
  /\ \A j \in ix.since \cap A, k \in t.since : k < j => k \in ix.since
  /\ \A c \in Chunks : t.placed < c /\ c <= ix.chunks =>
       \A j \in d[c] \cap ix.since \cap A :
         Cardinality(Below(ix.since \cap t.since, j)) < c * ChunkSize

\* An undisturbed task is the only one, and while the index is settled there
\* is no other.
Alone ==
  /\ \A g, h \in Generators : gen[g].clean /\ g # h => gen[h].pc = "idle"
  /\ \A g \in Generators :
       /\ gen[g].clean => gen[g].pc # "idle"
       /\ settled /\ gen[g].pc # "idle" => gen[g].clean
       /\ gen[g].clean /\ gen[g].pc \in {"list", "unlink"} => settled

Builds == \A g \in Generators : Build(gen[g], Active)
Clean == \A g \in Generators : gen[g].clean =>
  Undisturbed(gen[g], Active) /\ Moved(gen[g], disk, index)
Settled == settled => Published(index, Active, disk)
Handover == \A g \in Generators :
  settled /\ gen[g].clean /\ gen[g].pc \in {"read", "replace"} =>
    Supersedes(gen[g], Active, disk, index)

IInv == Typed /\ Past /\ Builds /\ Alone /\ Clean /\ Settled /\ Handover

-----------------------------------------------------------------------------
(***************************************************************************)
(* Builds.                                                                 *)
(***************************************************************************)

LEMMA TaskParts ==
  ASSUME NEW t \in Task
  PROVE  /\ t.pc \in {"idle", "read", "replace", "list", "unlink"}
         /\ t.pages \in [Chunks -> SUBSET Jobs]
         /\ t.count \in 0 .. MaxJobs /\ t.after \in 0 .. MaxJobs
         /\ t.placed \in 0 .. MaxJobs /\ t.stale \in SUBSET Chunks
         /\ t.since \in SUBSET Jobs /\ t.clean \in BOOLEAN
         /\ Pages(t) \in SUBSET Jobs
         /\ \A c \in Chunks : Prefix(t, c) \in SUBSET Jobs /\ Prefix(t, c) \subseteq Pages(t)
<1>1. t.pages \in [Chunks -> SUBSET Jobs]
  BY DEF Task
<1>2. Pages(t) \in SUBSET Jobs
  BY <1>1 DEF Pages
<1>3. ASSUME NEW c \in Chunks PROVE Prefix(t, c) \subseteq Pages(t)
  <2>1. 1 .. c \subseteq Chunks
    BY DEF Chunks, Jobs
  <2> QED
    BY <2>1 DEF Prefix, Pages
<1> QED
  BY <1>1, <1>2, <1>3 DEF Task

\* Only the jobs of its beginning matter to a build, and those only retire.
LEMMA BuildShrinks ==
  ASSUME NEW t \in Task, NEW u \in Task, NEW A, NEW B, Build(t, A),
         t.since \cap B \subseteq A,
         u.pc = t.pc, u.pages = t.pages, u.count = t.count, u.after = t.after,
         u.placed = t.placed, u.since = t.since
  PROVE  Build(u, B)
<1>1. Shape(u)
  BY DEF Build, Shape
<1>2. Pages(u) = Pages(t) /\ \A c : Prefix(u, c) = Prefix(t, c)
  BY DEF Pages, Prefix
<1>3. Complete(u, B)
  BY <1>2 DEF Build, Complete
<1>4. Counted(u)
  BY <1>2 DEF Build, Counted
<1>5. Full(u, B)
  <2>1. \A c \in Chunks : c <= t.count =>
          \/ Cardinality(Prefix(t, c)) = c * ChunkSize
          \/ \A j \in t.since \cap B :
               /\ t.pc = "read" => j <= t.after
               /\ \A d \in Chunks : j \in t.pages[d] => d <= c
    BY DEF Build, Full
  <2> QED
    BY <2>1, <1>2 DEF Full
<1> QED
  BY <1>1, <1>3, <1>4, <1>5 DEF Build

\* A build that leaves the reading, complete, keeps what it has.
LEMMA BuildAdvances ==
  ASSUME NEW t \in Task, NEW u \in Task, NEW A, Build(t, A),
         u.pages = t.pages, u.count = t.count, u.after = t.after,
         u.placed <= u.count, u.since = t.since, u.pc # "read",
         t.since \cap A \subseteq Pages(t)
  PROVE  Build(u, A)
<1>1. Shape(u)
  BY DEF Build, Shape
<1>2. Pages(u) = Pages(t) /\ \A c : Prefix(u, c) = Prefix(t, c)
  BY DEF Pages, Prefix
<1>3. Complete(u, A)
  BY <1>2 DEF Build, Complete
<1>4. Counted(u)
  BY <1>2 DEF Build, Counted
<1>5. Full(u, A)
  BY <1>2 DEF Build, Full
<1> QED
  BY <1>1, <1>3, <1>4, <1>5 DEF Build

LEMMA RestBuild ==
  ASSUME NEW A, NEW t \in Task, t.pc \in {"idle", "read"},
         t.pages = NoFiles, t.count = 0, t.after = 0, t.placed = 0
  PROVE  Build(t, A)
<1>1. \A c \in Chunks : t.pages[c] = {} /\ c \in Nat /\ ~(c <= 0)
  BY DEF NoFiles, Chunks, Jobs
<1>2. Shape(t)
  BY <1>1 DEF Shape
<1>3. Complete(t, A)
  <2>1. \A j \in t.since : 0 < j
    BY TaskParts DEF Jobs
  <2> QED
    BY <2>1 DEF Complete
<1>4. Counted(t) /\ Full(t, A)
  BY <1>1 DEF Counted, Full
<1> QED
  BY <1>2, <1>3, <1>4 DEF Build

\* What a page adds to a build.
LEMMA ReadTask ==
  ASSUME NEW t \in Task, NEW A, Build(t, A), Page(t.after) # {}
  PROVE  /\ t.count + 1 \in Chunks
         /\ Last(Page(t.after)) \in Page(t.after)
         /\ t.after < Last(Page(t.after))
         /\ t.count + 1 <= Last(Page(t.after))
         /\ Page(t.after) \in SUBSET Jobs
         /\ [t EXCEPT !.pages[t.count + 1] = Page(t.after),
                      !.count = t.count + 1,
                      !.after = Last(Page(t.after))] \in Task
<1> DEFINE last == Last(Page(t.after))
           n == t.count + 1
           page == Page(t.after)
<1>1. t.after \in 0 .. MaxJobs /\ t.count \in 0 .. MaxJobs
  BY TaskParts
<1>2. last \in page /\ page \subseteq Due(t.after) /\ Due(t.after) \subseteq Jobs
  BY <1>1, PageIsPrefix
<1>3. t.after < last /\ last \in Jobs
  BY <1>2 DEF Due
<1>4. t.count <= t.after
  BY DEF Build, Shape
<1> HIDE DEF last, page
<1>5. n \in Chunks /\ n <= last /\ n \in 0 .. MaxJobs /\ last \in 0 .. MaxJobs
  BY <1>1, <1>3, <1>4 DEF Chunks, Jobs
<1>6. page \in SUBSET Jobs
  BY <1>2
<1>7. [t EXCEPT !.pages[n] = page, !.count = n, !.after = last] \in Task
  <2> HIDE DEF n
  <2>1. [t.pages EXCEPT ![n] = page] \in [Chunks -> SUBSET Jobs]
    BY <1>6, TaskParts
  <2> QED
    BY <2>1, <1>5 DEF Task
<1> QED
  BY <1>2, <1>3, <1>5, <1>6, <1>7 DEF last, page

LEMMA ReadBuild ==
  ASSUME NEW t \in Task, NEW u \in Task, Build(t, Active), t.pc = "read",
         Page(t.after) # {},
         u = [t EXCEPT !.pages[t.count + 1] = Page(t.after),
                       !.count = t.count + 1,
                       !.after = Last(Page(t.after))]
  PROVE  /\ Build(u, Active)
         /\ Pages(u) = Pages(t) \cup Page(t.after)
<1> DEFINE n == t.count + 1
           last == Last(Page(t.after))
           page == Page(t.after)
           due == Due(t.after)
<1>1. /\ n \in Chunks /\ last \in page /\ t.after < last /\ n <= last
      /\ page \in SUBSET Jobs
  BY ReadTask
<1>2. /\ u.pc = t.pc /\ u.count = n /\ u.after = last /\ u.placed = t.placed
      /\ u.since = t.since /\ u.pages = [t.pages EXCEPT ![n] = page]
  BY DEF Task
<1>3. /\ t.after \in 0 .. MaxJobs /\ t.count \in 0 .. MaxJobs /\ t.placed \in 0 .. MaxJobs
      /\ t.pages \in [Chunks -> SUBSET Jobs] /\ t.since \in SUBSET Jobs
  BY TaskParts
<1>4. /\ page \subseteq due /\ due \subseteq Jobs
      /\ \A j \in page, k \in due : k < j => k \in page
      /\ Cardinality(page) <= ChunkSize
      /\ Cardinality(page) < ChunkSize => page = due
      /\ \A k \in page : k <= last
  BY <1>1, <1>3, PageIsPrefix
<1>5. Shape(t) /\ Complete(t, Active) /\ Counted(t) /\ Full(t, Active)
  BY DEF Build
<1>6. \A k \in page : t.after < k /\ k \in Jobs
  BY <1>4 DEF Due
<1> HIDE DEF last, page, due
<1>7. /\ \A c \in Chunks : c # n => u.pages[c] = t.pages[c]
      /\ u.pages[n] = page /\ t.pages[n] = {}
  <2>1. ~(n <= t.count)
    BY <1>3
  <2> QED
    BY <2>1, <1>1, <1>2, <1>3, <1>5 DEF Shape
<1>8. Shape(u)
  <2>1. u.placed <= u.count /\ u.count <= u.after
    BY <1>1, <1>2, <1>3, <1>5 DEF Shape, Jobs
  <2>2. ASSUME NEW c \in Chunks PROVE u.pages[c] # {} <=> c <= u.count
    <3>1. c \in Nat /\ (c <= n <=> c = n \/ c <= t.count)
      BY <1>3 DEF Chunks, Jobs
    <3> QED
      BY <3>1, <1>1, <1>2, <1>5, <1>7 DEF Shape
  <2>3. ASSUME NEW c \in Chunks, NEW j \in u.pages[c] PROVE j <= u.after
    <3>1. CASE c = n
      BY <3>1, <1>2, <1>4, <1>7
    <3>2. CASE c # n
      <4>1. j \in t.pages[c] /\ j <= t.after /\ j \in Jobs
        BY <3>2, <1>3, <1>5, <1>7 DEF Shape
      <4> QED
        BY <4>1, <1>1, <1>2, <1>3 DEF Jobs
    <3> QED
      BY <3>1, <3>2
  <2>4. ASSUME NEW c \in Chunks, NEW d \in Chunks, c < d,
               NEW j \in u.pages[c], NEW k \in u.pages[d]
        PROVE  j < k
    <3>1. CASE c # n /\ d # n
      BY <3>1, <2>4, <1>5, <1>7 DEF Shape
    <3>2. CASE d = n
      <4>1. c # n
        BY <3>2, <2>4 DEF Chunks, Jobs
      <4>2. j \in t.pages[c] /\ j <= t.after /\ j \in Jobs
        BY <4>1, <1>3, <1>5, <1>7 DEF Shape
      <4>3. t.after < k /\ k \in Jobs
        BY <3>2, <1>6, <1>7
      <4> QED
        BY <4>2, <4>3, <1>3 DEF Jobs
    <3>3. CASE c = n
      <4>1. d # n /\ ~(d <= t.count)
        BY <3>3, <2>4, <1>3 DEF Chunks, Jobs
      <4>2. t.pages[d] = {} /\ k \in t.pages[d]
        BY <4>1, <1>5, <1>7 DEF Shape
      <4> QED
        BY <4>2
    <3> QED
      BY <3>1, <3>2, <3>3
  <2> QED
    BY <2>1, <2>2, <2>3, <2>4 DEF Shape
<1>9. Pages(u) = Pages(t) \cup page
  BY <1>1, <1>7 DEF Pages
<1>10. Complete(u, Active)
  <2>1. ASSUME NEW j \in t.since \cap Active PROVE j \in Pages(u) \/ last < j
    <3>1. j \in Pages(t) \/ t.after < j
      BY <1>5 DEF Complete
    <3>2. ASSUME t.after < j, ~(last < j) PROVE j \in page
      <4>1. j \in due /\ j \in Jobs /\ last \in Jobs
        BY <3>2, <1>1, <1>3 DEF due, Due
      <4>2. j = last \/ j < last
        BY <3>2, <4>1 DEF Jobs
      <4> QED
        BY <4>1, <4>2, <1>1, <1>4
    <3> QED
      BY <3>1, <3>2, <1>9
  <2> QED
    BY <2>1, <1>2 DEF Complete
<1>11. /\ \A c \in Chunks : c <= t.count => Prefix(u, c) = Prefix(t, c)
       /\ Prefix(u, n) = Pages(t) \cup page
  <2>1. ASSUME NEW c \in Chunks, c <= t.count PROVE Prefix(u, c) = Prefix(t, c)
    <3>1. \A d \in 1 .. c : d \in Chunks /\ d # n
      BY <2>1, <1>3 DEF Chunks, Jobs
    <3> QED
      BY <3>1, <1>7 DEF Prefix
  <2>2. \A d \in Chunks : d \in 1 .. n \/ u.pages[d] = {}
    <3>1. \A d \in Chunks : d \in 1 .. n \/ ~(d <= n)
      BY <1>3 DEF Chunks, Jobs
    <3> QED
      BY <3>1, <1>2, <1>8 DEF Shape
  <2>3. Prefix(u, n) = Pages(u)
    <3>1. 1 .. n \subseteq Chunks
      BY <1>1, <1>3 DEF Chunks, Jobs
    <3> QED
      BY <3>1, <2>2 DEF Prefix, Pages
  <2> QED
    BY <2>1, <2>3, <1>9
\* All pages so far and the new one.
<1>12. /\ Cardinality(Pages(t)) \in Nat /\ Cardinality(page) \in Nat
       /\ Cardinality(Pages(t) \cup page) = Cardinality(Pages(t)) + Cardinality(page)
  <2>1. Pages(t) \in SUBSET Jobs
    BY TaskParts
  <2>2. \A j \in Pages(t) : j <= t.after /\ j \in Jobs
    BY <2>1, <1>5 DEF Pages, Shape
  <2>3. Pages(t) \cap page = {}
    BY <2>2, <1>3, <1>6 DEF Jobs
  <2>4. IsFiniteSet(Pages(t)) /\ IsFiniteSet(page) /\ Cardinality(Pages(t)) \in Nat
        /\ Cardinality(page) \in Nat
    BY <2>1, <1>1, JobsFinite
  <2>5. Cardinality(Pages(t) \cap page) = 0
    BY <2>3, FS_EmptySet
  <2> QED
    BY <2>4, <2>5, FS_Union
\* Without a page there is nothing; else the last page bounds and fills.
<1>13. /\ t.count = 0 => Pages(t) = {}
       /\ t.count # 0 => t.count \in Chunks /\ Pages(t) = Prefix(t, t.count)
  <2>1. \A d \in Chunks : d \in 1 .. t.count \/ t.pages[d] = {}
    <3>1. \A d \in Chunks : d \in 1 .. t.count \/ ~(d <= t.count)
      BY <1>3 DEF Chunks, Jobs
    <3> QED
      BY <3>1, <1>5 DEF Shape
  <2>2. 1 .. t.count \subseteq Chunks
    BY <1>3 DEF Chunks, Jobs
  <2>3. Pages(t) = UNION {t.pages[d] : d \in 1 .. t.count}
    BY <2>1, <2>2 DEF Pages
  <2>4. t.count = 0 => 1 .. t.count = {}
    OBVIOUS
  <2>5. t.count # 0 => t.count \in Chunks
    BY <1>3 DEF Chunks, Jobs
  <2> QED
    BY <2>3, <2>4, <2>5 DEF Prefix
<1>14. Cardinality(Pages(t)) <= t.count * ChunkSize
  <2>1. CASE t.count = 0
    BY <2>1, <1>13, FS_EmptySet
  <2>2. CASE t.count # 0
    BY <2>2, <1>3, <1>5, <1>13 DEF Counted
  <2> QED
    BY <2>1, <2>2
<1>15. n * ChunkSize = t.count * ChunkSize + ChunkSize /\ t.count * ChunkSize \in Nat
  BY <1>3, Product
<1>16. Counted(u)
  <2>1. ASSUME NEW c \in Chunks, c <= n PROVE Cardinality(Prefix(u, c)) <= c * ChunkSize
    <3>1. CASE c = n
      <4> DEFINE m == t.count * ChunkSize
      <4>2. m \in Nat /\ Cardinality(Pages(t)) <= m
        BY <1>14, <1>15
      <4> HIDE DEF m
      <4>3. Cardinality(Pages(t) \cup page) <= m + ChunkSize
        BY <4>2, <1>4, <1>12
      <4>1. Cardinality(Prefix(u, n)) <= t.count * ChunkSize + ChunkSize
        BY <4>3, <1>11 DEF m
      <4> QED
        BY <4>1, <3>1, <1>15
    <3>2. CASE c # n
      <4>1. c <= t.count
        BY <2>1, <3>2, <1>3 DEF Chunks, Jobs
      <4> QED
        BY <4>1, <1>5, <1>11 DEF Counted
    <3> QED
      BY <3>1, <3>2
  <2> QED
    BY <2>1, <1>2 DEF Counted
<1>17. Full(u, Active)
  <2>1. ASSUME NEW c \in Chunks, c <= n
        PROVE  \/ Cardinality(Prefix(u, c)) = c * ChunkSize
               \/ \A j \in t.since \cap Active :
                    /\ t.pc = "read" => j <= last
                    /\ \A d \in Chunks : j \in u.pages[d] => d <= c
    <3>1. CASE c # n
      <4>1. c <= t.count
        BY <2>1, <3>1, <1>3 DEF Chunks, Jobs
      <4>2. CASE Cardinality(Prefix(t, c)) = c * ChunkSize
        BY <4>1, <4>2, <1>11
      <4>3. CASE \A j \in t.since \cap Active :
                   /\ t.pc = "read" => j <= t.after
                   /\ \A d \in Chunks : j \in t.pages[d] => d <= c
        <5>1. \A j \in t.since \cap Active : j <= t.after /\ j \in Jobs
          BY <4>3, <1>3
        <5>2. \A j \in t.since \cap Active : j <= last /\ j \notin page
          BY <5>1, <1>1, <1>3, <1>6 DEF Jobs
        <5> QED
          BY <5>2, <4>3, <1>7
      <4> QED
        BY <4>1, <4>2, <4>3, <1>5 DEF Full
    <3>2. CASE c = n
      <4>1. \A d \in Chunks, j \in t.since \cap Active : j \in u.pages[d] => d <= n
        BY <1>2, <1>8 DEF Shape
      <4>2. CASE Cardinality(page) # ChunkSize
        <5>1. page = due
          BY <4>2, <1>4, <1>12
        <5>2. ASSUME NEW j \in t.since \cap Active PROVE j <= last
          <6>1. j \in Jobs /\ last \in Jobs
            BY <1>1, <1>3
          <6>2. CASE t.after < j
            BY <6>2, <5>1, <1>4, <6>1 DEF due, Due
          <6>3. CASE ~(t.after < j)
            BY <6>1, <6>3, <1>1, <1>3 DEF Jobs
          <6> QED
            BY <6>2, <6>3
        <5> QED
          BY <5>2, <4>1, <3>2
      <4>3. CASE Cardinality(Pages(t)) # t.count * ChunkSize
        <5>1. t.count # 0
          BY <4>3, <1>13, FS_EmptySet
        <5>2. \A j \in t.since \cap Active : j <= t.after /\ j \in Jobs
          BY <5>1, <4>3, <1>3, <1>5, <1>13 DEF Full
        <5>3. \A j \in t.since \cap Active : j <= last
          BY <5>2, <1>1, <1>3 DEF Jobs
        <5> QED
          BY <5>3, <4>1, <3>2
      <4>4. CASE Cardinality(page) = ChunkSize /\ Cardinality(Pages(t)) = t.count * ChunkSize
        BY <4>4, <3>2, <1>11, <1>12, <1>15
      <4> QED
        BY <4>2, <4>3, <4>4
    <3> QED
      BY <3>1, <3>2
  <2> QED
    BY <2>1, <1>2 DEF Full
<1> QED
  BY <1>8, <1>9, <1>10, <1>16, <1>17 DEF Build, page

-----------------------------------------------------------------------------
(***************************************************************************)
(* What the index names.                                                   *)
(***************************************************************************)

\* The jobs below one on chunk c fit on c chunks with it.
LEMMA PrefixBound ==
  ASSUME NEW t \in Task, NEW A, Build(t, A), NEW c \in Chunks, NEW j \in t.pages[c],
         NEW S \in SUBSET Pages(t)
  PROVE  Cardinality(Below(S, j)) < c * ChunkSize
<1>1. /\ Pages(t) \in SUBSET Jobs /\ Prefix(t, c) \in SUBSET Jobs
      /\ t.pages \in [Chunks -> SUBSET Jobs]
  BY TaskParts
<1>2. c <= t.count /\ Shape(t) /\ Counted(t)
  BY DEF Build, Shape
<1>3. Below(S, j) \cup {j} \subseteq Prefix(t, c)
  <2>1. ASSUME NEW k \in Below(S, j) PROVE k \in Prefix(t, c)
    <3>1. k < j /\ k \in Pages(t)
      BY DEF Below
    <3>2. PICK d \in Chunks : k \in t.pages[d]
      BY <3>1 DEF Pages
    <3>3. c < d => j < k
      BY <1>2, <3>2 DEF Shape
    <3>4. j \in Jobs /\ k \in Jobs
      BY <1>1, <3>2
    <3>5. d \in 1 .. c
      BY <3>1, <3>3, <3>4 DEF Chunks, Jobs
    <3> QED
      BY <3>2, <3>5 DEF Prefix
  <2>2. c \in 1 .. c
    BY DEF Chunks, Jobs
  <2> QED
    BY <2>1, <2>2 DEF Prefix
<1>4. j \notin Below(S, j) /\ Below(S, j) \in SUBSET Jobs
  <2>1. j \in Jobs
    BY <1>1
  <2> QED
    BY <2>1, <1>1 DEF Below, Jobs
<1>5. /\ Cardinality(Below(S, j) \cup {j}) = Cardinality(Below(S, j)) + 1
      /\ Cardinality(Below(S, j)) \in Nat
  BY <1>4, JobsFinite, FS_AddElement
<1>6. Cardinality(Below(S, j) \cup {j}) <= Cardinality(Prefix(t, c))
  BY <1>1, <1>3, Smaller
<1>7. Cardinality(Prefix(t, c)) <= c * ChunkSize /\ Cardinality(Prefix(t, c)) \in Nat
  BY <1>1, <1>2, JobsFinite DEF Counted
<1>8. c * ChunkSize \in Nat
  BY Product DEF Chunks, Jobs
<1> DEFINE m == c * ChunkSize
<1>9. m \in Nat /\ Cardinality(Prefix(t, c)) <= m
  BY <1>7, <1>8
<1> HIDE DEF m
<1>10. Cardinality(Below(S, j)) < m
  BY <1>5, <1>6, <1>7, <1>9
<1> QED
  BY <1>10 DEF m

\* From one build to the next a job only moves to an earlier chunk: those
\* before it have retired, or are before it still.
LEMMA MovesEarlier ==
  ASSUME NEW t \in Task, NEW A, NEW d, NEW ix \in Index,
         Build(t, A), Undisturbed(t, A), Supersedes(t, A, d, ix), t.pc = "replace",
         NEW n \in Chunks, t.placed < n, n <= ix.chunks,
         NEW j \in d[n] \cap ix.since \cap A
  PROVE  \E c \in Chunks : c <= n /\ j \in t.pages[c]
<1>1. /\ Pages(t) \in SUBSET Jobs /\ Prefix(t, n) \in SUBSET Jobs
      /\ Prefix(t, n) \subseteq Pages(t) /\ t.since \in SUBSET Jobs
      /\ t.pages \in [Chunks -> SUBSET Jobs] /\ t.count \in 0 .. MaxJobs
  BY TaskParts
<1>2. j \in t.since \cap A /\ j \in Pages(t)
  BY DEF Supersedes, Build, Complete
<1>3. PICK c \in Chunks : j \in t.pages[c]
  BY <1>2 DEF Pages
<1>4. ASSUME n < c PROVE FALSE
  <2>1. c <= t.count /\ n <= t.count
    <3>1. c <= t.count
      BY <1>3 DEF Build, Shape
    <3> QED
      BY <3>1, <1>1, <1>4 DEF Chunks, Jobs
  <2>2. Cardinality(Prefix(t, n)) = n * ChunkSize
    <3>1. ~(c <= n)
      BY <1>4 DEF Chunks, Jobs
    <3> QED
      BY <2>1, <3>1, <1>2, <1>3 DEF Build, Full
  <2>3. ASSUME NEW k \in Prefix(t, n) PROVE k \in Below(ix.since \cap t.since, j)
    <3>1. PICK e \in 1 .. n : k \in t.pages[e]
      BY DEF Prefix
    <3>2. e \in Chunks /\ e < c
      BY <1>4 DEF Chunks, Jobs
    <3>3. k < j
      BY <3>1, <3>2, <1>3 DEF Build, Shape
    <3>4. k \in t.since
      BY <3>3, <1>1, <1>2 DEF Undisturbed
    <3>5. k \in ix.since
      BY <3>3, <3>4 DEF Supersedes
    <3> QED
      BY <3>3, <3>4, <3>5 DEF Below
  <2>4. Cardinality(Below(ix.since \cap t.since, j)) < n * ChunkSize
    BY DEF Supersedes
  <2>5. Below(ix.since \cap t.since, j) \in SUBSET Jobs
    BY <1>1 DEF Below
  <2>6. /\ Cardinality(Prefix(t, n)) <= Cardinality(Below(ix.since \cap t.since, j))
        /\ Cardinality(Prefix(t, n)) \in Nat
        /\ Cardinality(Below(ix.since \cap t.since, j)) \in Nat
    <3>1. Prefix(t, n) \in SUBSET Below(ix.since \cap t.since, j)
      BY <2>3
    <3> QED
      BY <3>1, <2>5, <1>1, Smaller, JobsFinite
  <2> DEFINE m == n * ChunkSize
             x == Cardinality(Below(ix.since \cap t.since, j))
  <2>7. m <= x /\ x < m /\ m \in Nat /\ x \in Nat
    BY <2>2, <2>4, <2>6
  <2> QED
    BY <2>7
<1>5. c <= n
  BY <1>4 DEF Chunks, Jobs
<1> QED
  BY <1>3, <1>5

\* One more chunk of a new build in place of an old one.
LEMMA ChunkReplaced ==
  ASSUME NEW t \in Task, NEW u \in Task, NEW A \in SUBSET Jobs,
         NEW d \in [Chunks -> SUBSET Jobs], NEW ix \in Index,
         Build(t, A), Undisturbed(t, A), Moved(t, d, ix), Supersedes(t, A, d, ix),
         Published(ix, A, d), t.pc = "replace", t.placed < t.count,
         u = [t EXCEPT !.placed = t.placed + 1]
  PROVE  /\ Published(ix, A, [d EXCEPT ![t.placed + 1] = t.pages[t.placed + 1]])
         /\ Supersedes(u, A, [d EXCEPT ![t.placed + 1] = t.pages[t.placed + 1]], ix)
<1> DEFINE n == t.placed + 1
           e == [d EXCEPT ![n] = t.pages[n]]
<1>1. /\ n \in Chunks /\ n <= t.count /\ t.placed \in Nat
      /\ t.placed < n /\ \A c \in Chunks : c < n <=> c <= t.placed
  BY TaskParts DEF Chunks, Jobs
<1>2. u.placed = n /\ u.since = t.since
  BY DEF Task
<1> HIDE DEF n
<1>3. e[n] = t.pages[n] /\ \A c \in Chunks : c # n => e[c] = d[c]
  BY <1>1
<1> HIDE DEF e
<1>4. \A c \in Chunks : c <= ix.chunks => e[c] # {}
  BY <1>1, <1>3 DEF Published, Build, Shape
<1>5. \A c \in Chunks : c <= t.placed => e[c] = t.pages[c]
  BY <1>1, <1>3 DEF Moved, Chunks, Jobs
<1>6. ASSUME NEW j \in ix.since \cap A PROVE \E c \in Chunks : c <= ix.chunks /\ j \in e[c]
  <2>1. PICK c \in Chunks : c <= ix.chunks /\ j \in d[c]
    BY DEF Published
  <2>2. CASE c # n
    BY <2>1, <2>2, <1>3
  <2>3. CASE c = n
    <3>1. PICK b \in Chunks : b <= n /\ j \in t.pages[b]
      BY <2>1, <2>3, <1>1, MovesEarlier
    <3>2. b <= ix.chunks
      BY <2>1, <2>3, <3>1 DEF Index, Chunks, Jobs
    <3>3. b = n \/ b <= t.placed
      BY <3>1, <1>1 DEF Chunks, Jobs
    <3> QED
      BY <3>1, <3>2, <3>3, <1>3, <1>5
  <2> QED
    BY <2>2, <2>3
<1>7. ix.since \cap A \in SUBSET Pages(t)
  BY DEF Supersedes, Build, Complete
<1>8. ASSUME NEW c \in Chunks, c <= ix.chunks, NEW j \in e[c] \cap ix.since \cap A
      PROVE  Cardinality(Below(ix.since \cap A, j)) < c * ChunkSize
  <2>1. CASE c = n
    BY <2>1, <1>3, <1>7, PrefixBound
  <2>2. CASE c # n
    BY <2>2, <1>3, <1>8 DEF Published
  <2> QED
    BY <2>1, <2>2
<1>9. Published(ix, A, e)
  BY <1>4, <1>6, <1>8 DEF Published
<1>10. Supersedes(u, A, e, ix)
  <2>1. \A c \in Chunks : n < c => t.placed < c /\ e[c] = d[c]
    BY <1>1, <1>3 DEF Chunks, Jobs
  <2> QED
    BY <2>1, <1>2 DEF Supersedes
<1> QED
  BY <1>9, <1>10 DEF e, n

\* The index of a build whose chunks are all in place.
LEMMA IndexReplaced ==
  ASSUME NEW t \in Task, NEW A \in SUBSET Jobs, NEW d, NEW ix, NEW new \in Index,
         Build(t, A), Undisturbed(t, A), Moved(t, d, ix), t.pc = "replace",
         t.placed = t.count, new.chunks = t.count, new.since = t.since
  PROVE  Published(new, A, d)
<1>1. \A c \in Chunks : c <= t.count => d[c] = t.pages[c] /\ t.pages[c] # {}
  BY DEF Moved, Build, Shape
<1>2. t.since \cap A \in SUBSET Pages(t)
  BY DEF Build, Complete
<1>3. \A j \in t.since \cap A : \E c \in Chunks : c <= t.count /\ j \in t.pages[c]
  <2>1. \A j \in t.since \cap A : \E c \in Chunks : j \in t.pages[c]
    BY <1>2 DEF Pages
  <2> QED
    BY <2>1 DEF Build, Shape
<1>4. ASSUME NEW c \in Chunks, NEW j \in t.pages[c]
      PROVE  Cardinality(Below(t.since \cap A, j)) < c * ChunkSize
  BY <1>2, PrefixBound
<1> QED
  BY <1>1, <1>3, <1>4 DEF Published, Undisturbed

\* Jobs of the index that retire leave it as good as it was.
LEMMA PublishedShrinks ==
  ASSUME NEW ix \in Index, NEW A \in SUBSET Jobs, NEW B \in SUBSET Jobs, NEW d,
         Published(ix, A, d), Ordered(ix.since, B), ix.since \cap B \subseteq A
  PROVE  Published(ix, B, d)
<1>1. ASSUME NEW j PROVE
        /\ Cardinality(Below(ix.since \cap B, j)) <= Cardinality(Below(ix.since \cap A, j))
        /\ Cardinality(Below(ix.since \cap B, j)) \in Nat
        /\ Cardinality(Below(ix.since \cap A, j)) \in Nat
  <2>1. /\ Below(ix.since \cap B, j) \in SUBSET Below(ix.since \cap A, j)
        /\ Below(ix.since \cap A, j) \in SUBSET Jobs
    BY DEF Below
  <2>2. Below(ix.since \cap B, j) \in SUBSET Jobs
    BY <2>1
  <2> QED
    BY <2>1, <2>2, Smaller, JobsFinite
<1>2. ASSUME NEW c \in Chunks, c <= ix.chunks, NEW j \in d[c] \cap ix.since \cap B
      PROVE  Cardinality(Below(ix.since \cap B, j)) < c * ChunkSize
  <2>1. Cardinality(Below(ix.since \cap A, j)) < c * ChunkSize
    BY <1>2 DEF Published
  <2>2. c * ChunkSize \in Nat
    BY Product DEF Chunks, Jobs
  <2> DEFINE m == c * ChunkSize
  <2>3. m \in Nat /\ Cardinality(Below(ix.since \cap A, j)) < m
    BY <2>1, <2>2
  <2> HIDE DEF m
  <2>4. Cardinality(Below(ix.since \cap B, j)) < m
    BY <2>3, <1>1
  <2> QED
    BY <2>4 DEF m
<1> QED
  BY <1>2 DEF Published

-----------------------------------------------------------------------------
(***************************************************************************)
(* Steps.                                                                  *)
(***************************************************************************)

LEMMA InitHolds ==
  ASSUME Init
  PROVE  IInv
<1>1. NoFiles \in [Chunks -> SUBSET Jobs]
  BY DEF NoFiles
<1>2. Rest \in Task
  BY <1>1 DEF Rest, Task
<1>3. \A g \in Generators : gen[g] = Rest
  BY DEF Init
<1>4. Typed
  BY <1>1, <1>2 DEF Init, Typed, Index
<1>5. Builds
  <2>1. \A A : Build(Rest, A)
    BY <1>2, RestBuild DEF Rest
  <2> QED
    BY <2>1, <1>3 DEF Builds
<1>6. Past
  BY <1>3 DEF Init, Past, Rest
<1>7. Alone /\ Clean /\ Handover
  BY <1>3 DEF Alone, Clean, Handover, Rest
<1>8. Settled
  BY DEF Init, Settled, Published, Ordered, Chunks, Jobs
<1> QED
  BY <1>4, <1>5, <1>6, <1>7, <1>8 DEF IInv

\* Jobs retire, and new ones come above all others or disturb what is under
\* way.
LEMMA CatalogueKeeps ==
  ASSUME IInv, UNCHANGED <<disk, index, faults>>,
         job' \in [Jobs -> {"unborn", "open", "active", "gone"}],
         \A j \in Jobs : job[j] \in {"active", "gone"} =>
           job'[j] \in {"active", "gone"} /\ (job'[j] = "active" => job[j] = "active"),
         \/ /\ gen' = gen /\ settled' = settled
            /\ \A j \in Active \cap Active', k \in Active' : k < j => k \in Active
         \/ gen' = [g \in Generators |-> Disturb(g)] /\ settled' = FALSE
  PROVE  IInv'
<1>1. Typed /\ Builds /\ Past /\ Alone /\ Clean /\ Settled /\ Handover
  BY DEF IInv
<1>2. \A g \in Generators : gen[g] \in Task /\ Disturb(g) \in Task
  BY <1>1 DEF Typed, Disturb, Task
<1>3. Active \in SUBSET Jobs /\ Active' \in SUBSET Jobs
  BY DEF Active
<1>4. /\ index.since \in SUBSET Jobs /\ index.since \cap Active' \subseteq Active
      /\ \A g \in Generators : gen[g].since \cap Active' \subseteq Active
  <2>1. index.since \in SUBSET Jobs /\ \A g \in Generators : gen[g].since \in SUBSET Jobs
    BY <1>1, <1>2, TaskParts DEF Typed, Index
  <2> QED
    BY <2>1, <1>1 DEF Past, Active
<1>5. ASSUME NEW g \in Generators
      PROVE  /\ gen'[g] \in Task /\ gen'[g].since = gen[g].since
             /\ gen'[g].pc = gen[g].pc /\ gen'[g].pages = gen[g].pages
             /\ gen'[g].count = gen[g].count /\ gen'[g].after = gen[g].after
             /\ gen'[g].placed = gen[g].placed
  <2>1. gen'[g] = gen[g] \/ gen'[g] = Disturb(g)
    OBVIOUS
  <2>2. /\ Disturb(g).since = gen[g].since /\ Disturb(g).pc = gen[g].pc
        /\ Disturb(g).pages = gen[g].pages /\ Disturb(g).count = gen[g].count
        /\ Disturb(g).after = gen[g].after /\ Disturb(g).placed = gen[g].placed
    BY <1>2 DEF Disturb, Task
  <2> QED
    BY <1>2, <2>1, <2>2
<1>6. Typed'
  <2>1. gen' \in [Generators -> Task]
    BY <1>1, <1>2 DEF Typed
  <2> QED
    BY <2>1, <1>1 DEF Typed
<1>7. Builds'
  <2>1. ASSUME NEW g \in Generators PROVE Build(gen'[g], Active')
    <3>1. gen[g] \in Task /\ Build(gen[g], Active)
      BY <1>1, <1>2 DEF Builds
    <3> QED
      BY <3>1, <1>4, <1>5, BuildShrinks
  <2> QED
    BY <2>1 DEF Builds
<1>8. Past'
  <2>1. index.since \in SUBSET Jobs /\ \A g \in Generators : gen[g].since \in SUBSET Jobs
    BY <1>4, <1>2, TaskParts
  <2> QED
    BY <2>1, <1>1, <1>5 DEF Past
<1>9. CASE gen' = [g \in Generators |-> Disturb(g)] /\ settled' = FALSE
  <2>1. \A g \in Generators : gen'[g].clean = FALSE
    BY <1>2, <1>9 DEF Disturb, Task
  <2>2. Alone' /\ Clean' /\ Settled' /\ Handover'
    BY <2>1, <1>9 DEF Alone, Clean, Settled, Handover
  <2> QED
    BY <2>2, <1>6, <1>7, <1>8 DEF IInv
<1>10. CASE /\ gen' = gen /\ settled' = settled
            /\ \A j \in Active \cap Active', k \in Active' : k < j => k \in Active
  <2>1. ASSUME NEW S, Ordered(S, Active), S \cap Active' \subseteq Active
        PROVE  Ordered(S, Active')
    BY <2>1, <1>10 DEF Ordered
  <2>2. Alone'
    BY <1>1, <1>10 DEF Alone
  <2>3. ASSUME NEW g \in Generators, gen[g].clean
        PROVE  Undisturbed(gen[g], Active') /\ Moved(gen[g], disk, index)
    <3>1. Undisturbed(gen[g], Active) /\ Moved(gen[g], disk, index)
      BY <2>3, <1>1 DEF Clean
    <3>2. Ordered(gen[g].since, Active')
      BY <3>1, <2>1, <1>4 DEF Undisturbed
    <3> QED
      BY <3>1, <3>2, <1>4 DEF Undisturbed
  <2>4. Clean'
    BY <2>3, <1>10 DEF Clean
  <2>5. settled => Published(index, Active', disk)
    <3>1. SUFFICES ASSUME settled PROVE Published(index, Active', disk)
      OBVIOUS
    <3>2. Published(index, Active, disk) /\ index \in Index
      BY <3>1, <1>1 DEF Settled, Typed
    <3>3. Ordered(index.since, Active')
      BY <3>2, <2>1, <1>4 DEF Published
    <3> QED
      BY <3>2, <3>3, <1>3, <1>4, PublishedShrinks
  <2>6. Settled'
    BY <2>5, <1>10 DEF Settled
  <2>7. ASSUME NEW g \in Generators, settled, gen[g].clean, gen[g].pc \in {"read", "replace"}
        PROVE  Supersedes(gen[g], Active', disk, index)
    <3>1. Supersedes(gen[g], Active, disk, index)
      BY <2>7, <1>1 DEF Handover
    <3> QED
      BY <3>1, <1>4 DEF Supersedes
  <2>8. Handover'
    BY <2>7, <1>10 DEF Handover
  <2> QED
    BY <2>2, <2>4, <2>6, <2>8, <1>6, <1>7, <1>8 DEF IInv
<1> QED
  BY <1>9, <1>10

LEMMA InsertKeeps ==
  ASSUME IInv, NEW j \in Jobs, Insert(j)
  PROVE  IInv'
<1>1. Typed
  BY DEF IInv
<1>2. /\ job' \in [Jobs -> {"unborn", "open", "active", "gone"}]
      /\ \A k \in Jobs : job[k] \in {"active", "gone"} => job'[k] = job[k]
      /\ Active' = Active
  BY <1>1 DEF Typed, Insert, Active
<1>3. UNCHANGED <<disk, index, gen, faults, settled>>
  BY DEF Insert
<1> QED
  BY <1>2, <1>3, CatalogueKeeps

LEMMA RetireKeeps ==
  ASSUME IInv, NEW j \in Jobs, Retire(j)
  PROVE  IInv'
<1>1. Typed
  BY DEF IInv
<1>2. /\ job' \in [Jobs -> {"unborn", "open", "active", "gone"}]
      /\ \A k \in Jobs : job[k] \in {"active", "gone"} =>
           job'[k] \in {"active", "gone"} /\ (job'[k] = "active" => job[k] = "active")
      /\ Active' \subseteq Active
  BY <1>1 DEF Typed, Retire, Active
<1>3. UNCHANGED <<disk, index, gen, faults, settled>>
  BY DEF Retire
<1> QED
  BY <1>2, <1>3, CatalogueKeeps

LEMMA CommitInsertKeeps ==
  ASSUME IInv, NEW j \in Jobs, CommitInsert(j)
  PROVE  IInv'
<1>1. Typed
  BY DEF IInv
<1>2. /\ job' \in [Jobs -> {"unborn", "open", "active", "gone"}]
      /\ \A k \in Jobs : job[k] \in {"active", "gone"} => job'[k] = job[k]
      /\ Active' = Active \cup {j}
  BY <1>1 DEF Typed, CommitInsert, Active
<1>3. UNCHANGED <<disk, index, faults>>
  BY DEF CommitInsert
<1>4. CASE OutOfOrder(j)
  <2>1. gen' = [g \in Generators |-> Disturb(g)] /\ settled' = FALSE
    BY <1>4 DEF CommitInsert
  <2> QED
    BY <2>1, <1>2, <1>3, CatalogueKeeps
<1>5. CASE ~OutOfOrder(j)
  <2>1. gen' = gen /\ settled' = settled
    BY <1>1, <1>5 DEF CommitInsert, Typed
  <2>2. \A i \in Active \cap Active', k \in Active' : k < i => k \in Active
    BY <1>2, <1>5 DEF OutOfOrder
  <2> QED
    BY <2>1, <2>2, <1>2, <1>3, CatalogueKeeps
<1> QED
  BY <1>4, <1>5

\* A step of one task: what it says of the build alone.
LEMMA BuildSteps ==
  ASSUME IInv, NEW g \in Generators, NEW u \in Task, gen' = [gen EXCEPT ![g] = u],
         job' = job, disk' \in [Chunks -> SUBSET Jobs], index' \in Index,
         faults' \in 0 .. MaxFaults, settled' \in BOOLEAN,
         Build(u, Active), u.since \subseteq gen[g].since,
         index'.since \in {index.since, gen[g].since}
  PROVE  Typed' /\ Past' /\ Builds'
<1>1. Typed /\ Past /\ Builds
  BY DEF IInv
<1>2. \A h \in Generators : gen'[h] = IF h = g THEN u ELSE gen[h]
  BY <1>1 DEF Typed
<1>3. Typed'
  BY <1>1 DEF Typed
<1>4. Past'
  BY <1>1, <1>2 DEF Past
<1>5. Active' = Active
  BY DEF Active
<1>6. Builds'
  BY <1>1, <1>2, <1>5 DEF Builds
<1> QED
  BY <1>3, <1>4, <1>6

\* While a disturbed task is at work nothing is claimed of the index.
LEMMA DisturbedSteps ==
  ASSUME IInv, NEW g \in Generators, gen[g].pc # "idle", ~gen[g].clean,
         NEW u, gen' = [gen EXCEPT ![g] = u], u.clean = FALSE, settled' = settled
  PROVE  Alone' /\ Clean' /\ Settled' /\ Handover'
<1>1. settled = FALSE /\ \A h \in Generators : gen[h].clean = FALSE
  BY DEF IInv, Typed, Alone, Task
<1>2. \A h \in Generators : gen'[h].clean = FALSE
  BY <1>1 DEF IInv, Typed
<1> QED
  BY <1>1, <1>2 DEF Alone, Clean, Settled, Handover

\* An undisturbed task is alone.
LEMMA UndisturbedSteps ==
  ASSUME IInv, NEW g \in Generators, gen[g].clean,
         NEW u \in Task, gen' = [gen EXCEPT ![g] = u], job' = job,
         \/ u.pc = "idle" /\ ~u.clean
         \/ /\ u.pc # "idle" /\ u.clean /\ Undisturbed(u, Active)
            /\ Moved(u, disk', index')
            /\ u.pc \in {"list", "unlink"} => settled',
         settled' => Published(index', Active, disk'),
         settled' /\ u.pc \in {"read", "replace"} => Supersedes(u, Active, disk', index')
  PROVE  Alone' /\ Clean' /\ Settled' /\ Handover'
<1>1. \A h \in Generators : h # g => gen[h].pc = "idle" /\ ~gen[h].clean
  BY DEF IInv, Alone
<1>2. \A h \in Generators : gen'[h] = IF h = g THEN u ELSE gen[h]
  BY DEF IInv, Typed
<1>3. Active' = Active
  BY DEF Active
<1>4. Alone'
  BY <1>1, <1>2 DEF Alone
<1>5. Clean'
  BY <1>1, <1>2, <1>3 DEF Clean
<1>6. Settled'
  BY <1>3 DEF Settled
<1>7. Handover'
  BY <1>1, <1>2, <1>3 DEF Handover
<1> QED
  BY <1>4, <1>5, <1>6, <1>7

LEMMA StartKeeps ==
  ASSUME IInv, NEW g \in Generators, Start(g)
  PROVE  IInv'
<1> DEFINE alone == Working = {}
           u == [Rest EXCEPT !.pc = "read", !.since = Active, !.clean = alone]
<1>1. Typed /\ Past /\ Builds /\ Alone /\ Clean /\ Settled /\ Handover
  BY DEF IInv
<1>2. /\ UNCHANGED <<job, disk, index, faults>> /\ settled' = (settled /\ alone)
      /\ gen' = [h \in Generators |-> IF h = g THEN u ELSE Disturb(h)]
  BY DEF Start
<1>3. Active' = Active /\ Active \in SUBSET Jobs
  BY <1>2 DEF Active
<1>4. NoFiles \in [Chunks -> SUBSET Jobs] /\ alone \in BOOLEAN
  BY DEF NoFiles
<1>5. /\ u \in Task /\ u.pc = "read" /\ u.pages = NoFiles /\ u.count = 0 /\ u.after = 0
      /\ u.placed = 0 /\ u.since = Active /\ u.clean = alone
  <2> HIDE DEF alone
  <2>1. Rest \in Task /\ Rest.pages = NoFiles /\ Rest.count = 0 /\ Rest.after = 0
        /\ Rest.placed = 0
    BY <1>4 DEF Rest, Task
  <2>2. u \in Task
    BY <2>1, <1>3, <1>4 DEF Task
  <2>3. u.pc = "read" /\ u.since = Active /\ u.clean = alone
    BY <2>1 DEF Task
  <2>4. u.pages = NoFiles /\ u.count = 0 /\ u.after = 0 /\ u.placed = 0
    BY <2>1 DEF Task
  <2> QED
    BY <2>2, <2>3, <2>4
<1> HIDE DEF u, alone
<1>6. ASSUME NEW h \in Generators, h # g
      PROVE  /\ gen'[h] \in Task /\ ~gen'[h].clean /\ gen'[h].since = gen[h].since
             /\ gen'[h].pc = gen[h].pc /\ gen'[h].pages = gen[h].pages
             /\ gen'[h].count = gen[h].count /\ gen'[h].after = gen[h].after
             /\ gen'[h].placed = gen[h].placed
  <2>1. gen[h] \in Task /\ gen'[h] = [gen[h] EXCEPT !.clean = FALSE]
    BY <1>1, <1>2, <1>6 DEF Typed, Disturb
  <2> QED
    BY <2>1 DEF Task
<1>7. gen'[g] = u
  BY <1>2
<1>8. Typed'
  <2>1. gen' \in [Generators -> Task]
    BY <1>2, <1>5, <1>6, <1>7
  <2> QED
    BY <2>1, <1>1, <1>2, <1>4 DEF Typed
<1>9. Past'
  <2>1. \A j \in Active : job[j] = "active"
    BY DEF Active
  <2> QED
    BY <2>1, <1>1, <1>2, <1>5, <1>6, <1>7 DEF Past
<1>10. Builds'
  <2>1. Build(u, Active)
    BY <1>5, RestBuild
  <2>2. ASSUME NEW h \in Generators, h # g PROVE Build(gen'[h], Active)
    <3>1. Build(gen[h], Active) /\ gen[h] \in Task
      BY <1>1 DEF Builds, Typed
    <3>2. gen[h].since \cap Active \subseteq Active
      OBVIOUS
    <3> QED
      BY <2>2, <3>1, <3>2, <1>6, BuildShrinks
  <2> QED
    BY <2>1, <2>2, <1>3, <1>7 DEF Builds
<1>11. Alone'
  <2>1. alone => \A h \in Generators : gen[h].pc = "idle"
    BY DEF alone, Working
  <2> QED
    BY <2>1, <1>2, <1>4, <1>5, <1>6, <1>7 DEF Alone
\* Nothing is built yet, and every active job is one of the beginning.
<1>12. Clean'
  <2>1. Pages(u) = {}
    BY <1>5 DEF Pages, NoFiles
  <2>2. Undisturbed(u, Active) /\ Moved(u, disk, index)
    BY <2>1, <1>5 DEF Undisturbed, Moved, Ordered
  <2> QED
    BY <2>2, <1>2, <1>3, <1>6, <1>7 DEF Clean
<1>13. Settled'
  BY <1>1, <1>2, <1>3 DEF Settled
<1>14. Handover'
  <2>1. ASSUME settled PROVE Supersedes(u, Active, disk, index)
    <3>1. Published(index, Active, disk)
      BY <2>1, <1>1 DEF Settled
    <3> QED
      BY <3>1, <1>5 DEF Published, Supersedes, Ordered
  <2> QED
    BY <2>1, <1>2, <1>3, <1>6, <1>7 DEF Handover
<1> QED
  BY <1>8, <1>9, <1>10, <1>11, <1>12, <1>13, <1>14 DEF IInv

LEMMA ReadPageKeeps ==
  ASSUME IInv, NEW g \in Generators, ReadPage(g)
  PROVE  IInv'
<1> DEFINE t == gen[g]
           u == [t EXCEPT !.pages[t.count + 1] = Page(t.after), !.count = t.count + 1,
                          !.after = Last(Page(t.after))]
<1>1. Typed /\ Past /\ Builds /\ Alone /\ Clean /\ Settled /\ Handover
  BY DEF IInv
<1>2. t \in Task /\ Build(t, Active) /\ t.pc = "read" /\ Page(t.after) # {}
  BY <1>1 DEF Typed, Builds, ReadPage
<1>3. /\ u \in Task /\ u.pc = t.pc /\ u.since = t.since /\ u.clean = t.clean
      /\ u.placed = t.placed
  <2>1. u \in Task
    BY <1>2, ReadTask
  <2> QED
    BY <2>1, <1>2 DEF Task
<1>4. Build(u, Active) /\ Pages(u) = Pages(t) \cup Page(t.after)
  <2> HIDE DEF t
  <2> QED
    BY <1>2, <1>3, ReadBuild
<1>5. gen' = [gen EXCEPT ![g] = u] /\ UNCHANGED <<job, disk, index, faults, settled>>
  BY <1>1 DEF ReadPage, Typed
<1>6. Page(t.after) \subseteq Active
  BY DEF Page
<1> HIDE DEF u
<1>7. Typed' /\ Past' /\ Builds'
  <2>1. /\ disk' \in [Chunks -> SUBSET Jobs] /\ index' \in Index
        /\ faults' \in 0 .. MaxFaults /\ settled' \in BOOLEAN
        /\ index'.since = index.since
    BY <1>1, <1>5 DEF Typed
  <2> QED
    BY <2>1, <1>3, <1>4, <1>5, BuildSteps
<1>8. CASE ~t.clean
  <2>1. u.clean = FALSE
    BY <1>2, <1>3, <1>8 DEF Task
  <2> QED
    BY <2>1, <1>2, <1>5, <1>7, <1>8, DisturbedSteps DEF IInv
<1>9. CASE t.clean
  <2>1. Undisturbed(t, Active) /\ Moved(t, disk, index)
    BY <1>1, <1>9 DEF Clean
  <2>2. Undisturbed(u, Active)
    <3>1. \A j \in t.since \cap Active, k \in Page(t.after) : k < j => k \in t.since
      BY <2>1, <1>6 DEF Undisturbed, Ordered
    <3> QED
      BY <3>1, <2>1, <1>3, <1>4 DEF Undisturbed
  <2>3. Moved(u, disk', index')
    BY <2>1, <1>2, <1>3 DEF Moved
  <2>4. settled' => Published(index', Active, disk')
    BY <1>1, <1>5 DEF Settled
  <2>5. settled' => Supersedes(u, Active, disk', index')
    <3>1. settled => Supersedes(t, Active, disk, index)
      BY <1>1, <1>2, <1>9 DEF Handover
    <3> QED
      BY <3>1, <1>3, <1>5 DEF Supersedes
  <2>6. Alone' /\ Clean' /\ Settled' /\ Handover'
    BY <2>2, <2>3, <2>4, <2>5, <1>2, <1>3, <1>5, <1>9, UndisturbedSteps
  <2> QED
    BY <2>6, <1>7 DEF IInv
<1> QED
  BY <1>8, <1>9

\* A step of a task that leaves files, index and jobs alone and has its pages
\* read.
LEMMA AdvanceKeeps ==
  ASSUME IInv, NEW g \in Generators, NEW u \in Task, gen' = [gen EXCEPT ![g] = u],
         UNCHANGED <<job, disk, index, settled>>, faults' \in 0 .. MaxFaults,
         gen[g].pc # "idle",
         \/ u = Rest
         \/ /\ gen[g].since \cap Active \subseteq Pages(gen[g])
            /\ u.pages = gen[g].pages /\ u.count = gen[g].count /\ u.after = gen[g].after
            /\ u.placed = gen[g].placed /\ u.since = gen[g].since
            /\ u.clean = gen[g].clean
            /\ u.pc \in {"replace", "unlink"}
            /\ gen[g].clean => Moved(u, disk, index)
            /\ u.pc = "replace" => gen[g].pc = "read"
            /\ u.pc = "unlink" => gen[g].pc \in {"list", "unlink"}
  PROVE  IInv'
<1> DEFINE t == gen[g]
<1>1. Typed /\ Past /\ Builds /\ Alone /\ Clean /\ Settled /\ Handover
  BY DEF IInv
<1>2. t \in Task /\ Build(t, Active)
  BY <1>1 DEF Typed, Builds
<1>3. /\ disk' \in [Chunks -> SUBSET Jobs] /\ index' \in Index
      /\ settled' \in BOOLEAN /\ index'.since = index.since
  BY <1>1 DEF Typed
<1>4. settled' => Published(index', Active, disk')
  BY <1>1 DEF Settled
<1>5. CASE u = Rest
  <2>1. u.pc = "idle" /\ u.clean = FALSE /\ u.since = {}
    BY <1>5 DEF Rest
  <2>2. Build(u, Active)
    BY <1>5, RestBuild DEF Rest
  <2>3. Typed' /\ Past' /\ Builds'
    BY <2>1, <2>2, <1>3, BuildSteps
  <2>4. Alone' /\ Clean' /\ Settled' /\ Handover'
    <3>1. CASE ~t.clean
      BY <3>1, <2>1, DisturbedSteps
    <3>2. CASE t.clean
      BY <3>2, <2>1, <1>4, UndisturbedSteps
    <3> QED
      BY <3>1, <3>2
  <2> QED
    BY <2>3, <2>4 DEF IInv
<1>6. CASE u # Rest
  <2>1. Build(u, Active)
    <3>1. u.placed <= u.count
      BY <1>2, <1>6 DEF Build, Shape
    <3> QED
      BY <3>1, <1>2, <1>6, BuildAdvances
  <2>2. Typed' /\ Past' /\ Builds'
    BY <2>1, <1>3, <1>6, BuildSteps
  <2>3. CASE ~t.clean
    <3>1. u.clean = FALSE
      BY <2>3, <1>2, <1>6 DEF Task
    <3> QED
      BY <3>1, <2>2, <2>3, DisturbedSteps DEF IInv
  <2>4. CASE t.clean
    <3>1. Undisturbed(u, Active)
      BY <2>4, <1>1, <1>6 DEF Clean, Undisturbed, Pages
    <3>2. Moved(u, disk', index')
      BY <2>4, <1>6
    <3>3. u.pc \in {"list", "unlink"} => settled'
      BY <2>4, <1>1, <1>6 DEF Alone
    <3>4. settled' /\ u.pc \in {"read", "replace"} => Supersedes(u, Active, disk', index')
      <4>1. settled /\ t.pc = "read" => Supersedes(t, Active, disk, index)
        BY <2>4, <1>1 DEF Handover
      <4> QED
        BY <4>1, <1>6 DEF Supersedes
    <3>5. Alone' /\ Clean' /\ Settled' /\ Handover'
      BY <3>1, <3>2, <3>3, <3>4, <2>4, <1>4, <1>6, UndisturbedSteps
    <3> QED
      BY <3>5, <2>2 DEF IInv
  <2> QED
    BY <2>3, <2>4
<1> QED
  BY <1>5, <1>6

LEMMA Resting == Rest \in Task
<1>1. NoFiles \in [Chunks -> SUBSET Jobs]
  BY DEF NoFiles
<1> QED
  BY <1>1 DEF Rest, Task

LEMMA EndReadKeeps ==
  ASSUME IInv, NEW g \in Generators, EndRead(g)
  PROVE  IInv'
<1> DEFINE t == gen[g]
           u == [t EXCEPT !.pc = "replace"]
<1>1. t \in Task /\ Build(t, Active) /\ t.pc = "read" /\ Page(t.after) = {}
  BY DEF IInv, Typed, Builds, EndRead
<1>2. /\ u \in Task /\ u.pc = "replace" /\ u.pages = t.pages /\ u.count = t.count
      /\ u.after = t.after /\ u.placed = t.placed /\ u.since = t.since /\ u.clean = t.clean
  BY <1>1 DEF Task
<1>3. /\ gen' = [gen EXCEPT ![g] = u] /\ UNCHANGED <<job, disk, index, settled>>
      /\ faults' \in 0 .. MaxFaults
  BY DEF IInv, Typed, EndRead
<1>4. t.since \cap Active \subseteq Pages(t)
  <2>1. Due(t.after) = {}
    BY <1>1, TaskParts, PageIsPrefix
  <2> QED
    BY <2>1, <1>1 DEF Due, Build, Complete
<1>5. t.clean => Moved(u, disk, index)
  <2>1. t.clean => t.placed = 0
    BY <1>1 DEF IInv, Clean, Moved
  <2>2. \A c \in Chunks : ~(c <= 0)
    BY DEF Chunks, Jobs
  <2> QED
    BY <2>1, <2>2, <1>2 DEF Moved
<1> HIDE DEF u
<1> QED
  BY <1>1, <1>2, <1>3, <1>4, <1>5, AdvanceKeeps

LEMMA ListStaleKeeps ==
  ASSUME IInv, NEW g \in Generators, ListStale(g)
  PROVE  IInv'
<1> DEFINE t == gen[g]
           left == {c \in Chunks : disk[c] # {} /\ t.count < c}
           u == [t EXCEPT !.pc = "unlink", !.stale = left]
<1>1. t \in Task /\ Build(t, Active) /\ t.pc = "list"
  BY DEF IInv, Typed, Builds, ListStale
<1>2. /\ u \in Task /\ u.pc = "unlink" /\ u.pages = t.pages /\ u.count = t.count
      /\ u.after = t.after /\ u.placed = t.placed /\ u.since = t.since /\ u.clean = t.clean
      /\ u.stale = left
  BY <1>1 DEF Task
<1>3. /\ gen' = [gen EXCEPT ![g] = u] /\ UNCHANGED <<job, disk, index, settled>>
      /\ faults' \in 0 .. MaxFaults
  BY DEF IInv, Typed, ListStale
<1>4. t.since \cap Active \subseteq Pages(t)
  BY <1>1 DEF Build, Complete
<1>5. t.clean => Moved(u, disk, index)
  <2>1. t.clean => index.chunks = t.count
    BY <1>1 DEF IInv, Clean, Moved
  <2> QED
    BY <2>1, <1>2 DEF Moved
<1> HIDE DEF u
<1> QED
  BY <1>1, <1>2, <1>3, <1>4, <1>5, AdvanceKeeps

LEMMA DoneKeeps ==
  ASSUME IInv, NEW g \in Generators, Done(g)
  PROVE  IInv'
<1>1. /\ gen' = [gen EXCEPT ![g] = Rest] /\ UNCHANGED <<job, disk, index, settled>>
      /\ faults' \in 0 .. MaxFaults /\ gen[g].pc # "idle"
  BY DEF IInv, Typed, Done
<1> QED
  BY <1>1, Resting, AdvanceKeeps

LEMMA AbandonKeeps ==
  ASSUME IInv, NEW g \in Generators, Abandon(g)
  PROVE  IInv'
<1>1. /\ gen' = [gen EXCEPT ![g] = Rest] /\ UNCHANGED <<job, disk, index, settled>>
      /\ faults' \in 0 .. MaxFaults /\ gen[g].pc # "idle"
  BY DEF IInv, Typed, Abandon, Working
<1> QED
  BY <1>1, Resting, AdvanceKeeps

LEMMA ReplaceChunkKeeps ==
  ASSUME IInv, NEW g \in Generators, ReplaceChunk(g)
  PROVE  IInv'
<1> DEFINE t == gen[g]
           n == t.placed + 1
           u == [t EXCEPT !.placed = n]
           e == [disk EXCEPT ![n] = t.pages[n]]
<1>1. Typed /\ Past /\ Builds /\ Alone /\ Clean /\ Settled /\ Handover
  BY DEF IInv
<1>2. t \in Task /\ Build(t, Active) /\ t.pc = "replace" /\ t.placed < t.count
  BY <1>1 DEF Typed, Builds, ReplaceChunk
<1>3. n \in Chunks /\ n \in 0 .. MaxJobs /\ n <= t.count
  BY <1>2, TaskParts DEF Chunks, Jobs
<1>4. /\ u \in Task /\ u.pc = "replace" /\ u.pages = t.pages /\ u.count = t.count
      /\ u.after = t.after /\ u.placed = n /\ u.since = t.since /\ u.clean = t.clean
  BY <1>2, <1>3 DEF Task
<1>5. /\ gen' = [gen EXCEPT ![g] = u] /\ disk' = e
      /\ UNCHANGED <<job, index, faults, settled>>
  BY DEF ReplaceChunk
<1>6. e \in [Chunks -> SUBSET Jobs]
  <2>1. t.pages[n] \in SUBSET Jobs
    BY <1>2, <1>3, TaskParts
  <2> QED
    BY <2>1, <1>1 DEF Typed
<1>7. Build(u, Active)
  <2>1. t.since \cap Active \subseteq Pages(t)
    BY <1>2 DEF Build, Complete
  <2> QED
    BY <2>1, <1>2, <1>3, <1>4, BuildAdvances
<1>8. Typed' /\ Past' /\ Builds'
  <2>1. index' \in Index /\ faults' \in 0 .. MaxFaults /\ settled' \in BOOLEAN
    BY <1>1, <1>5 DEF Typed
  <2> HIDE DEF u, e
  <2> QED
    BY <2>1, <1>4, <1>5, <1>6, <1>7, BuildSteps
<1>9. CASE ~t.clean
  <2>1. u.clean = FALSE
    BY <1>2, <1>4, <1>9 DEF Task
  <2> HIDE DEF u, e
  <2> QED
    BY <2>1, <1>2, <1>5, <1>8, <1>9, DisturbedSteps DEF IInv
<1>10. CASE t.clean
  <2>1. Undisturbed(t, Active) /\ Moved(t, disk, index)
    BY <1>1, <1>10 DEF Clean
  <2>2. Undisturbed(u, Active)
    <3>1. Pages(u) = Pages(t)
      BY <1>4 DEF Pages
    <3> QED
      BY <3>1, <2>1, <1>4 DEF Undisturbed
  <2>3. Moved(u, e, index)
    <3>1. ASSUME NEW c \in Chunks, c <= n PROVE e[c] = t.pages[c]
      <4>1. c = n \/ (c # n /\ c <= t.placed)
        BY <3>1, <1>2, TaskParts DEF Chunks, Jobs
      <4> QED
        BY <4>1, <2>1, <1>1, <1>2, <1>3 DEF Moved, Typed
    <3> QED
      BY <3>1, <1>4 DEF Moved
  <2>4. settled => Published(index, Active, e) /\ Supersedes(u, Active, e, index)
    <3>1. settled => Published(index, Active, disk) /\ Supersedes(t, Active, disk, index)
      BY <1>1, <1>2, <1>10 DEF Settled, Handover
    <3>2. Active \in SUBSET Jobs /\ disk \in [Chunks -> SUBSET Jobs] /\ index \in Index
      BY <1>1 DEF Active, Typed
    <3> QED
      BY <3>1, <3>2, <2>1, <1>2, <1>4, ChunkReplaced
  <2> HIDE DEF u, e
  <2>5. Alone' /\ Clean' /\ Settled' /\ Handover'
    BY <2>2, <2>3, <2>4, <1>4, <1>5, <1>10, UndisturbedSteps
  <2> QED
    BY <2>5, <1>8 DEF IInv
<1> QED
  BY <1>9, <1>10

LEMMA ReplaceIndexKeeps ==
  ASSUME IInv, NEW g \in Generators, ReplaceIndex(g)
  PROVE  IInv'
<1> DEFINE t == gen[g]
           u == [t EXCEPT !.pc = "list"]
           new == [chunks |-> t.count, since |-> t.since]
<1>1. Typed /\ Past /\ Builds /\ Alone /\ Clean /\ Settled /\ Handover
  BY DEF IInv
<1>2. t \in Task /\ Build(t, Active) /\ t.pc = "replace" /\ t.placed = t.count
  BY <1>1 DEF Typed, Builds, ReplaceIndex
<1>3. new \in Index /\ new.chunks = t.count /\ new.since = t.since
  BY <1>2, TaskParts DEF Index
<1>4. /\ u \in Task /\ u.pc = "list" /\ u.pages = t.pages /\ u.count = t.count
      /\ u.after = t.after /\ u.placed = t.placed /\ u.since = t.since /\ u.clean = t.clean
  BY <1>2 DEF Task
<1>5. /\ gen' = [gen EXCEPT ![g] = u] /\ index' = new /\ settled' = (settled \/ t.clean)
      /\ UNCHANGED <<job, disk, faults>>
  BY DEF ReplaceIndex
<1> HIDE DEF u, new
<1>6. t.since \cap Active \subseteq Pages(t)
  BY <1>2 DEF Build, Complete
<1>7. Build(u, Active)
  BY <1>2, <1>4, <1>6, BuildAdvances DEF Build, Shape
<1>8. Typed' /\ Past' /\ Builds'
  <2>1. /\ disk' \in [Chunks -> SUBSET Jobs] /\ faults' \in 0 .. MaxFaults
        /\ settled' \in BOOLEAN
    BY <1>1, <1>2, <1>5 DEF Typed, Task
  <2> QED
    BY <2>1, <1>3, <1>4, <1>5, <1>7, BuildSteps
<1>9. CASE ~t.clean
  <2>1. u.clean = FALSE /\ settled' = settled
    BY <1>1, <1>2, <1>4, <1>5, <1>9 DEF Task, Typed
  <2> QED
    BY <2>1, <1>2, <1>5, <1>8, <1>9, DisturbedSteps DEF IInv
<1>10. CASE t.clean
  <2>1. Undisturbed(t, Active) /\ Moved(t, disk, index)
    BY <1>1, <1>10 DEF Clean
  <2>2. Undisturbed(u, Active)
    <3>1. Pages(u) = Pages(t)
      BY <1>4 DEF Pages
    <3> QED
      BY <3>1, <2>1, <1>4 DEF Undisturbed
  <2>3. Moved(u, disk, new)
    BY <1>3, <1>4 DEF Moved
  <2>4. Published(new, Active, disk)
    <3>1. Active \in SUBSET Jobs
      BY DEF Active
    <3> QED
      BY <3>1, <2>1, <1>2, <1>3, IndexReplaced
  <2>5. settled' = TRUE
    BY <1>1, <1>5, <1>10 DEF Typed
  <2>6. Alone' /\ Clean' /\ Settled' /\ Handover'
    BY <2>2, <2>3, <2>4, <2>5, <1>4, <1>5, <1>10, UndisturbedSteps
  <2> QED
    BY <2>6, <1>8 DEF IInv
<1> QED
  BY <1>9, <1>10

LEMMA UnlinkKeeps ==
  ASSUME IInv, NEW g \in Generators, NEW c \in Chunks, Unlink(g, c)
  PROVE  IInv'
<1> DEFINE t == gen[g]
           u == [t EXCEPT !.stale = @ \ {c}]
           e == [disk EXCEPT ![c] = {}]
<1>1. Typed /\ Past /\ Builds /\ Alone /\ Clean /\ Settled /\ Handover
  BY DEF IInv
<1>2. t \in Task /\ Build(t, Active) /\ t.pc = "unlink" /\ c \in t.stale
  BY <1>1 DEF Typed, Builds, Unlink
<1>3. CASE disk[c] = {}
  <2>1. /\ gen' = [gen EXCEPT ![g] = Rest] /\ UNCHANGED <<job, index, settled>>
        /\ faults' \in 0 .. MaxFaults
    BY <1>1, <1>3 DEF Unlink, Typed
  <2>2. disk' = disk
    BY <1>1, <1>3 DEF Unlink, Typed
  <2> QED
    BY <2>1, <2>2, <1>2, Resting, AdvanceKeeps
<1>4. CASE disk[c] # {}
  <2>1. /\ u \in Task /\ u.pc = "unlink" /\ u.pages = t.pages /\ u.count = t.count
        /\ u.after = t.after /\ u.placed = t.placed /\ u.since = t.since
        /\ u.clean = t.clean /\ u.stale = t.stale \ {c}
    BY <1>2 DEF Task
  <2>2. /\ gen' = [gen EXCEPT ![g] = u] /\ disk' = e
        /\ UNCHANGED <<job, index, faults, settled>>
    BY <1>4 DEF Unlink
  <2>3. e \in [Chunks -> SUBSET Jobs] /\ \A d \in Chunks : d # c => e[d] = disk[d]
    BY <1>1 DEF Typed
  <2> HIDE DEF u, e
  <2>4. Build(u, Active)
    BY <1>2, <2>1, BuildAdvances DEF Build, Complete, Shape
  <2>5. Typed' /\ Past' /\ Builds'
    <3>1. index' \in Index /\ faults' \in 0 .. MaxFaults /\ settled' \in BOOLEAN
      BY <1>1, <2>2 DEF Typed
    <3> QED
      BY <3>1, <2>1, <2>2, <2>3, <2>4, BuildSteps
  <2>6. CASE ~t.clean
    <3>1. u.clean = FALSE
      BY <1>2, <2>1, <2>6 DEF Task
    <3> QED
      BY <3>1, <1>2, <2>2, <2>5, <2>6, DisturbedSteps DEF IInv
  <2>7. CASE t.clean
    <3>1. Undisturbed(t, Active) /\ Moved(t, disk, index)
      BY <1>1, <2>7 DEF Clean
    <3>2. Undisturbed(u, Active)
      <4>1. Pages(u) = Pages(t)
        BY <2>1 DEF Pages
      <4> QED
        BY <4>1, <3>1, <2>1 DEF Undisturbed
    <3>3. Moved(u, e, index)
      BY <3>1, <1>2, <2>1 DEF Moved
    \* The index does not name the file.
    <3>4. index.chunks < c
      BY <3>1, <1>2 DEF Moved
    <3>5. \A d \in Chunks : d <= index.chunks => e[d] = disk[d]
      <4>1. \A d \in Chunks : d <= index.chunks => d # c
        BY <3>4, <1>1 DEF Typed, Index, Chunks, Jobs
      <4> QED
        BY <4>1, <2>3
    <3>6. settled /\ Published(index, Active, e)
      <4>1. settled /\ Published(index, Active, disk)
        BY <1>1, <1>2, <2>7 DEF Alone, Settled
      <4> QED
        BY <4>1, <3>5 DEF Published
    <3>7. Alone' /\ Clean' /\ Settled' /\ Handover'
      BY <3>2, <3>3, <3>6, <2>1, <2>2, <2>7, UndisturbedSteps
    <3> QED
      BY <3>7, <2>5 DEF IInv
  <2> QED
    BY <2>6, <2>7
<1> QED
  BY <1>3, <1>4

LEMMA StutterKeeps ==
  ASSUME IInv, UNCHANGED vars
  PROVE  IInv'
<1>1. UNCHANGED <<job, disk, index, gen, faults, settled>> /\ Active' = Active
  BY DEF vars, Active
<1>2. job' \in [Jobs -> {"unborn", "open", "active", "gone"}]
  BY <1>1 DEF IInv, Typed
<1> QED
  BY <1>1, <1>2, CatalogueKeeps

LEMMA NextKeeps ==
  ASSUME IInv, [Next]_vars
  PROVE  IInv'
<1>1. CASE Catalogue
  BY <1>1, InsertKeeps, CommitInsertKeeps, RetireKeeps DEF Catalogue
<1>2. ASSUME NEW g \in Generators, Start(g) PROVE IInv'
  BY <1>2, StartKeeps
<1>3. ASSUME NEW g \in Generators, Abandon(g) PROVE IInv'
  BY <1>3, AbandonKeeps
<1>4. ASSUME NEW g \in Generators, Generate(g) PROVE IInv'
  <2>1. CASE ReadPage(g)
    BY <2>1, ReadPageKeeps
  <2>2. CASE EndRead(g)
    BY <2>2, EndReadKeeps
  <2>3. CASE ReplaceChunk(g)
    BY <2>3, ReplaceChunkKeeps
  <2>4. CASE ReplaceIndex(g)
    BY <2>4, ReplaceIndexKeeps
  <2>5. CASE ListStale(g)
    BY <2>5, ListStaleKeeps
  <2>6. CASE \E c \in Chunks : Unlink(g, c)
    BY <2>6, UnlinkKeeps
  <2>7. CASE Done(g)
    BY <2>7, DoneKeeps
  <2> QED
    BY <1>4, <2>1, <2>2, <2>3, <2>4, <2>5, <2>6, <2>7 DEF Generate
<1>5. CASE UNCHANGED vars
  BY <1>5, StutterKeeps
<1> QED
  BY <1>1, <1>2, <1>3, <1>4, <1>5 DEF Next

-----------------------------------------------------------------------------
(***************************************************************************)
(* What the module promises.                                               *)
(***************************************************************************)

\* The inductive invariant.
THEOREM IInvHolds == Spec => []IInv
<1>1. Init => IInv
  BY InitHolds
<1>2. IInv /\ [Next]_vars => IInv'
  BY NextKeeps
<1> QED
  BY <1>1, <1>2, PTL DEF Spec

\* The types: the pages of a task are files of its build directory, and what it
\* has moved is what it has read.
THEOREM TypeCorrect == Spec => []TypeOK
<1>1. IInv => TypeOK
  <2>1. IInv => \A g \in Generators :
          /\ gen[g].placed <= gen[g].count
          /\ \A c \in Chunks : gen[g].pages[c] # {} <=> c <= gen[g].count
    BY DEF IInv, Builds, Build, Shape
  <2> QED
    BY <2>1 DEF IInv, Typed, TypeOK
<1> QED
  BY <1>1, IInvHolds, PTL

\* For any number of jobs and overlapping tasks and any size of a chunk, a
\* finished build lists every job that was active from its beginning on, and
\* none twice.
THEOREM BuildsAreComplete == Spec => []BuildsComplete
<1>1. IInv => BuildsComplete
  <2>1. ASSUME IInv, NEW g \in Generators
        PROVE  /\ gen[g].pc \in {"replace", "list", "unlink"} =>
                    gen[g].since \cap Active \subseteq Pages(gen[g])
               /\ \A c, d \in Chunks : c < d =>
                    \A j \in gen[g].pages[c], k \in gen[g].pages[d] : j < k
    BY <2>1 DEF IInv, Builds, Build, Complete, Shape
  <2> QED
    BY <2>1 DEF BuildsComplete, Pages
<1> QED
  BY <1>1, IInvHolds, PTL

\* The published index of an undisturbed build names no file that is missing,
\* at whatever point a task has died.
THEOREM IndexedFilesExist == Spec => []IndexNamesFiles
<1>1. IInv => IndexNamesFiles
  <2>1. ASSUME IInv, settled, NEW c \in 1 .. index.chunks PROVE disk[c] # {}
    <3>1. index \in Index /\ Published(index, Active, disk)
      BY <2>1 DEF IInv, Typed, Settled
    <3>2. c \in Chunks /\ c <= index.chunks
      BY <3>1 DEF Index, Chunks, Jobs
    <3> QED
      BY <3>1, <3>2 DEF Published
  <2> QED
    BY <2>1 DEF IndexNamesFiles
<1> QED
  BY <1>1, IInvHolds, PTL

\* A job that was active when the build of the published index began and still
\* is can be reached at every moment of the next publication.
THEOREM ActiveStayListed == Spec => []ActiveJobsStayListed
<1>1. IInv => ActiveJobsStayListed
  <2>1. ASSUME IInv, settled, NEW j \in index.since \cap Active PROVE j \in Listed
    <3>1. index \in Index /\ Published(index, Active, disk)
      BY <2>1 DEF IInv, Typed, Settled
    <3>2. PICK c \in Chunks : c <= index.chunks /\ j \in disk[c]
      BY <3>1 DEF Published
    <3>3. c \in 1 .. index.chunks
      BY <3>1, <3>2 DEF Index, Chunks, Jobs
    <3> QED
      BY <3>2, <3>3 DEF Listed
  <2> QED
    BY <2>1 DEF ActiveJobsStayListed
<1> QED
  BY <1>1, IInvHolds, PTL
=============================================================================
