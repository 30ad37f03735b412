------------------------- MODULE FiltersCache_proofs -------------------------
(***************************************************************************)
(* Proofs about FiltersCache, for any number of workers, requests and      *)
(* filters: its entries and its answers are never older than what has been *)
(* announced, and it implements FiltersService.                            *)
(***************************************************************************)
EXTENDS FiltersCache, TLAPS

USE CacheAssumption

LEMMA CurrentVersionType ==
  ASSUME version \in 0 .. MaxVersion
  PROVE  CurrentVersion \in Versions /\ version <= CurrentVersion
BY DEF CurrentVersion, Versions

LEMMA IdleType == Idle \in ReaderState /\ Resting \in PromoterState
BY DEF Idle, Resting, ReaderState, PromoterState, Blank, Payload, Versions

LEMMA ReplyType ==
  ASSUME NEW r \in Readers, reader[r] \in ReaderState, NEW payload \in Payload
  PROVE  Reply(r, payload) \in ReaderState
BY IdleType DEF Reply, ReaderState

LEMMA TypeInit == Init => TypeOK
BY IdleType DEF Init, TypeOK, Versions

\* Every step keeps the types.
LEMMA TypeStep == TypeOK /\ [Next]_vars => TypeOK'
<1> SUFFICES ASSUME TypeOK, [Next]_vars PROVE TypeOK'
  OBVIOUS
<1>v. CurrentVersion \in Versions
  BY CurrentVersionType DEF TypeOK
<1>r. \A r \in Readers : reader[r] \in ReaderState
  BY DEF TypeOK
<1> USE DEF TypeOK, cacheVars, readVars
<1>1. ASSUME NEW p \in Promoters, Commit(p) PROVE TypeOK'
  BY <1>1 DEF Commit, PromoterState
<1>2. ASSUME NEW p \in Promoters, BeginBump(p) PROVE TypeOK'
  BY <1>2 DEF BeginBump, PromoterState
<1>3. ASSUME NEW p \in Promoters, Seed(p) PROVE TypeOK'
  <2>1. version' \in 0 .. MaxVersion
    BY <1>3, <1>v DEF Seed, Versions
  <2>2. promoter' \in [Promoters -> PromoterState]
    BY <1>3 DEF Seed, PromoterState
  <2> QED
    BY <1>3, <2>1, <2>2 DEF Seed
<1>4. ASSUME NEW p \in Promoters, Incr(p) PROVE TypeOK'
  <2>1. version' \in 0 .. MaxVersion /\ version + 1 \in Versions
    BY <1>4 DEF Incr, Versions
  <2>2. announced' \in [Versions -> Nat]
    BY <1>4, <1>v, <2>1 DEF Incr, PromoterState
  <2>3. promoter' \in [Promoters -> PromoterState]
    BY <1>4, IdleType DEF Incr
  <2> QED
    BY <1>4, <2>1, <2>2, <2>3 DEF Incr
<1>5. ASSUME NEW p \in Promoters, GiveUp(p) PROVE TypeOK'
  BY <1>5, IdleType DEF GiveUp
<1>6. ASSUME NEW r \in Readers, Begin(r) PROVE TypeOK'
  <2>1. [reader[r] EXCEPT !.pc = "version", !.lower = announced[CurrentVersion]] \in ReaderState
    BY <1>v, <1>r DEF ReaderState
  <2> QED
    BY <1>6, <2>1 DEF Begin
<1>7. ASSUME NEW r \in Readers, ReadVersion(r) PROVE TypeOK'
  <2>1. [reader[r] EXCEPT !.pc = "get", !.version = CurrentVersion] \in ReaderState
    BY <1>v, <1>r DEF ReaderState
  <2> QED
    BY <1>7, <2>1 DEF ReadVersion
<1>8. ASSUME NEW r \in Readers, Hit(r) PROVE TypeOK'
  <2>1. entry[reader[r].version] \in Payload
    BY <1>8, <1>r DEF Hit, ReaderState
  <2>2. Reply(r, entry[reader[r].version]) \in ReaderState
    BY <2>1, <1>r, ReplyType
  <2> QED
    BY <1>8, <2>2 DEF Hit
<1>9. ASSUME NEW r \in Readers, Miss(r) PROVE TypeOK'
  <2>1. [reader[r] EXCEPT !.pc = "select", !.caching = TRUE] \in ReaderState
    BY <1>r DEF ReaderState
  <2> QED
    BY <1>9, <2>1 DEF Miss
<1>10. ASSUME NEW r \in Readers, FallOpen(r) PROVE TypeOK'
  <2>1. [reader[r] EXCEPT !.pc = "select"] \in ReaderState
    BY <1>r DEF ReaderState
  <2> QED
    BY <1>10, <2>1 DEF FallOpen
<1>11. ASSUME NEW r \in Readers, Select(r) PROVE TypeOK'
  <2>1. reader[r].read + 1 \in 0 .. NumFacets
    BY <1>11, <1>r DEF Select, ReaderState
  <2>2. [reader[r].payload EXCEPT ![reader[r].read + 1] = db] \in Payload
    BY <1>r DEF ReaderState, Payload
  <2>3. [reader[r] EXCEPT !.read = @ + 1,
                          !.payload = [@ EXCEPT ![reader[r].read + 1] = db]] \in ReaderState
    BY <2>1, <2>2, <1>r DEF ReaderState
  <2> QED
    BY <1>11, <2>3 DEF Select
<1>12. ASSUME NEW r \in Readers, Store(r) PROVE TypeOK'
  <2>1. reader[r].payload \in Payload /\ reader[r].version \in Versions
    BY <1>r DEF ReaderState
  <2> QED
    BY <1>12, <2>1, <1>r, ReplyType DEF Store
<1>13. ASSUME NEW r \in Readers, SkipStore(r) PROVE TypeOK'
  <2>1. reader[r].payload \in Payload
    BY <1>r DEF ReaderState
  <2> QED
    BY <1>13, <2>1, <1>r, ReplyType DEF SkipStore
<1>14. ASSUME NEW r \in Readers, End(r) PROVE TypeOK'
  BY <1>14, IdleType DEF End
<1>15. ASSUME NEW v \in Versions, Expire(v) PROVE TypeOK'
  BY <1>15 DEF Expire
<1>16. CASE UNCHANGED vars
  BY <1>16 DEF vars
<1> QED
  BY <1>1, <1>2, <1>3, <1>4, <1>5, <1>6, <1>7, <1>8, <1>9, <1>10, <1>11,
     <1>12, <1>13, <1>14, <1>15, <1>16 DEF Next, Promotion, Answering

\* The state of the cache stays within its types for every number of workers,
\* requests, filters, commits and versions.
THEOREM TypeCorrect == Spec => []TypeOK
BY TypeInit, TypeStep, PTL DEF Spec
-----------------------------------------------------------------------------
(***************************************************************************)
(* Freshness                                                               *)
(***************************************************************************)

\* What every step of a promotion does to the shared state: the catalogue and
\* the version only advance, and no announcement of a version so far changes.
Advances ==
  /\ db <= db'
  /\ CurrentVersion <= CurrentVersion'
  /\ \A v \in Versions : v <= CurrentVersion => announced'[v] = announced[v]
  /\ announced[CurrentVersion] <= announced'[CurrentVersion']

LEMMA EntryStable ==
  ASSUME TypeOK, TypeOK', Advances, NEW v \in Versions, EntryOK(v),
         entry'[v] = entry[v]
  PROVE  EntryOK(v)'
<1>1. CurrentVersion \in Versions /\ CurrentVersion' \in Versions
  BY CurrentVersionType DEF TypeOK, CurrentVersion, Versions
<1>2. SUFFICES ASSUME entry[v] # NoEntry
               PROVE  /\ v <= CurrentVersion'
                      /\ \A f \in Facets : announced'[v] <= entry[v][f] /\ entry[v][f] <= db'
  BY DEF EntryOK
<1>3. v <= CurrentVersion /\ announced'[v] = announced[v]
  BY <1>2 DEF EntryOK, Advances
<1>4. entry[v] \in Payload
  BY <1>2 DEF TypeOK
<1>5. ASSUME NEW f \in Facets PROVE announced'[v] <= entry[v][f] /\ entry[v][f] <= db'
  BY <1>2, <1>3, <1>4 DEF EntryOK, Advances, TypeOK, Payload
<1> QED
  BY <1>1, <1>3, <1>5 DEF Advances, Versions

LEMMA ReaderStable ==
  ASSUME TypeOK, TypeOK', Advances, NEW r \in Readers, ReaderOK(r),
         reader'[r] = reader[r]
  PROVE  ReaderOK(r)'
<1>1. CurrentVersion \in Versions /\ CurrentVersion' \in Versions
  BY CurrentVersionType DEF TypeOK, CurrentVersion, Versions
<1>2. reader[r] \in ReaderState
  BY DEF TypeOK
<1>3. reader[r].pc # "idle" => reader[r].lower <= announced'[CurrentVersion']
  BY <1>1, <1>2 DEF ReaderOK, Advances, TypeOK, ReaderState
<1>4. HasVersion(r) => /\ reader[r].version <= CurrentVersion'
                       /\ announced'[reader[r].version] = announced[reader[r].version]
  BY <1>1, <1>2 DEF ReaderOK, Advances, ReaderState, Versions
<1>5. HasVersion(r)' <=> HasVersion(r)
  BY DEF HasVersion
<1>6. ASSUME NEW f \in Facets,
             reader[r].pc = "reply" \/ (reader[r].pc = "select" /\ f <= reader[r].read)
      PROVE  /\ reader[r].lower <= reader[r].payload[f]
             /\ reader[r].payload[f] <= db'
             /\ HasVersion(r) => announced'[reader[r].version] <= reader[r].payload[f]
  <2>1. reader[r].payload[f] \in Nat /\ db \in Nat /\ db' \in Nat
    BY <1>2 DEF TypeOK, ReaderState, Payload
  <2> QED
    BY <1>4, <1>6, <2>1 DEF ReaderOK, Advances
<1> QED
  BY <1>3, <1>4, <1>5, <1>6 DEF ReaderOK

LEMMA InitInv == Init => IInv
<1> SUFFICES ASSUME Init PROVE IInv
  OBVIOUS
<1>1. TypeOK
  BY TypeInit
<1>2. CurrentVersion = 1 /\ 1 \in Versions
  BY DEF Init, CurrentVersion, Versions
<1>3. AnnouncementsOrdered
  BY <1>2 DEF Init, AnnouncementsOrdered
<1>4. \A p \in Promoters : PromoterOK(p)
  <2>1. ASSUME NEW p \in Promoters PROVE PromoterOK(p)
    <3>1. promoter[p] = Resting /\ db = 0
      BY DEF Init
    <3>2. promoter[p].last = 0 /\ promoter[p].pc = "idle"
      BY <3>1 DEF Resting
    <3> QED
      BY <3>1, <3>2 DEF PromoterOK
  <2> QED
    BY <2>1
<1>5. \A v \in Versions : EntryOK(v)
  BY DEF Init, EntryOK
<1>6. \A r \in Readers : ReaderOK(r)
  BY DEF Init, ReaderOK, HasVersion, Idle
<1> QED
  BY <1>1, <1>3, <1>4, <1>5, <1>6 DEF IInv

\* The steps of a promotion.
LEMMA PromotionStep ==
  ASSUME IInv, TypeOK', NEW p \in Promoters, Promotion(p)
  PROVE  IInv'
<1>v. CurrentVersion \in Versions /\ version <= CurrentVersion /\ promoter[p] \in PromoterState
  BY CurrentVersionType DEF IInv, TypeOK
<1> USE DEF cacheVars
<1>1. CASE Commit(p)
  <2>1. Advances
    BY <1>1, <1>v DEF Commit, Advances, CurrentVersion, IInv, TypeOK, Versions
  <2>2. AnnouncementsOrdered'
    BY <1>1, <1>v DEF Commit, AnnouncementsOrdered, CurrentVersion, IInv, TypeOK
  <2>3. ASSUME NEW q \in Promoters PROVE PromoterOK(q)'
    <3>1. promoter[q].last <= db /\ promoter[q] \in PromoterState
      BY DEF IInv, PromoterOK, TypeOK
    <3> QED
      BY <1>1, <3>1 DEF Commit, PromoterOK, IInv, TypeOK, PromoterState
  <2> QED
    BY <1>1, <2>1, <2>2, <2>3, EntryStable, ReaderStable DEF Commit, IInv
<1>2. CASE BeginBump(p)
  <2>1. Advances /\ AnnouncementsOrdered'
    BY <1>2, <1>v DEF BeginBump, Advances, AnnouncementsOrdered, CurrentVersion, IInv, TypeOK
  <2>2. ASSUME NEW q \in Promoters PROVE PromoterOK(q)'
    BY <1>2 DEF BeginBump, PromoterOK, IInv, TypeOK, PromoterState
  <2> QED
    BY <1>2, <2>1, <2>2, EntryStable, ReaderStable DEF BeginBump, IInv
<1>3. CASE Seed(p)
  <2>1. version' = CurrentVersion /\ CurrentVersion' = CurrentVersion /\ version' # 0
    BY <1>3, <1>v DEF Seed, CurrentVersion, Versions
  <2>2. Advances /\ AnnouncementsOrdered'
    BY <1>3, <1>v, <2>1 DEF Seed, Advances, AnnouncementsOrdered, IInv, TypeOK
  <2>3. ASSUME NEW q \in Promoters PROVE PromoterOK(q)'
    BY <1>3, <2>1 DEF Seed, PromoterOK, IInv, TypeOK, PromoterState
  <2> QED
    BY <1>3, <2>2, <2>3, EntryStable, ReaderStable DEF Seed, IInv
<1>4. CASE Incr(p)
  <2>1. /\ version # 0 /\ CurrentVersion = version
        /\ version' = version + 1 /\ CurrentVersion' = version + 1
        /\ version + 1 \in Versions
    BY <1>4, <1>v DEF Incr, IInv, PromoterOK, CurrentVersion, TypeOK, Versions
  <2>2. /\ announced[version] <= announced'[version + 1]
        /\ announced'[version + 1] <= db
        /\ \A v \in Versions : v <= version => announced'[v] = announced[v]
    <3>1. announced[version] <= db /\ promoter[p].last <= db
      BY <1>v, <2>1 DEF IInv, AnnouncementsOrdered, PromoterOK, Versions
    <3>2. announced[version] \in Nat /\ promoter[p].last \in Nat
      BY <1>v, <2>1 DEF IInv, TypeOK, PromoterState
    <3>3. announced' = [announced EXCEPT ![version + 1] =
            IF announced[version] < promoter[p].last
            THEN promoter[p].last ELSE announced[version]]
      BY <1>4, <2>1 DEF Incr
    <3>4. announced'[version + 1] = IF announced[version] < promoter[p].last
                                    THEN promoter[p].last ELSE announced[version]
      BY <2>1, <3>3 DEF IInv, TypeOK
    <3>5. ASSUME NEW v \in Versions, v <= version PROVE announced'[v] = announced[v]
      BY <2>1, <3>3, <3>5 DEF IInv, TypeOK, Versions
    <3> QED
      BY <3>1, <3>2, <3>4, <3>5
  <2>3. Advances
    BY <1>4, <2>1, <2>2 DEF Incr, Advances, IInv, TypeOK
  <2>4. AnnouncementsOrdered'
    <3>1. SUFFICES ASSUME NEW v \in Versions, v <= version + 1
                   PROVE  announced'[v] <= announced'[version + 1] /\ announced'[v] <= db
      BY <1>4, <2>1 DEF AnnouncementsOrdered, Incr
    <3>2. CASE v = version + 1
      BY <2>1, <2>2, <3>2 DEF TypeOK
    <3>3. CASE v <= version
      <4>1. announced[v] <= announced[version] /\ announced[v] <= db
        BY <2>1, <3>3 DEF IInv, AnnouncementsOrdered
      <4>2. announced[v] \in Nat /\ announced[version] \in Nat /\ announced'[version + 1] \in Nat
        BY <1>v, <2>1 DEF IInv, TypeOK
      <4> QED
        BY <2>2, <3>3, <4>1, <4>2
    <3> QED
      BY <3>1, <3>2, <3>3 DEF IInv, TypeOK, Versions
  <2>5. ASSUME NEW q \in Promoters PROVE PromoterOK(q)'
    <3>1. promoter'[q] = promoter[q] \/ promoter'[q] = Resting
      BY <1>4 DEF Incr, IInv, TypeOK
    <3> QED
      BY <1>4, <2>1, <3>1 DEF Incr, PromoterOK, IInv, TypeOK, Resting, Versions
  <2> QED
    BY <1>4, <2>3, <2>4, <2>5, EntryStable, ReaderStable DEF Incr, IInv
<1>5. CASE GiveUp(p)
  <2>1. Advances /\ AnnouncementsOrdered'
    BY <1>5, <1>v DEF GiveUp, Advances, AnnouncementsOrdered, CurrentVersion, IInv, TypeOK
  <2>2. ASSUME NEW q \in Promoters PROVE PromoterOK(q)'
    <3>1. promoter'[q] = promoter[q] \/ promoter'[q] = Resting
      BY <1>5 DEF GiveUp, IInv, TypeOK
    <3> QED
      BY <1>5, <3>1 DEF GiveUp, PromoterOK, IInv, TypeOK, Resting
  <2> QED
    BY <1>5, <2>1, <2>2, EntryStable, ReaderStable DEF GiveUp, IInv
<1> QED
  BY <1>1, <1>2, <1>3, <1>4, <1>5 DEF Promotion

\* The steps of a request.
LEMMA AnsweringStep ==
  ASSUME IInv, TypeOK', NEW r \in Readers, Begin(r) \/ Answering(r)
  PROVE  IInv'
<1>v. CurrentVersion \in Versions /\ reader[r] \in ReaderState /\ db \in Nat
  BY CurrentVersionType DEF IInv, TypeOK
<1>s. UNCHANGED db /\ UNCHANGED version /\ UNCHANGED announced /\ UNCHANGED promoter
  BY DEF Begin, Answering, ReadVersion, Hit, Miss, FallOpen, Select, Store,
         SkipStore, End, readVars, cacheVars
<1>c. UNCHANGED CurrentVersion
  BY <1>s DEF CurrentVersion
<1>a. Advances /\ AnnouncementsOrdered' /\ \A p \in Promoters : PromoterOK(p)'
  <2>1. Advances
    BY <1>s, <1>c, <1>v DEF Advances, IInv, TypeOK, Versions
  <2>2. AnnouncementsOrdered'
    BY <1>s, <1>c DEF AnnouncementsOrdered, IInv
  <2>3. \A p \in Promoters : PromoterOK(p)'
    BY <1>s DEF PromoterOK, IInv
  <2> QED
    BY <2>1, <2>2, <2>3
<1>o. \A q \in Readers \ {r} : reader'[q] = reader[q]
  BY DEF Begin, Answering, ReadVersion, Hit, Miss, FallOpen, Select, Store,
         SkipStore, End, IInv, TypeOK
<1>p. \A f \in Facets : reader[r].payload[f] \in Nat
  BY <1>v DEF ReaderState, Payload
<1> SUFFICES (\A v \in Versions : EntryOK(v)') /\ ReaderOK(r)'
  BY <1>a, <1>o, ReaderStable DEF IInv
<1> USE DEF readVars, cacheVars
<1>e. UNCHANGED entry => \A v \in Versions : EntryOK(v)'
  BY <1>a, EntryStable DEF IInv
\* An answer is fresh when the payload it is made of is.
<1>r. ASSUME NEW payload, reader' = [reader EXCEPT ![r] = Reply(r, payload)],
             reader[r].lower <= announced[CurrentVersion],
             \A f \in Facets : reader[r].lower <= payload[f] /\ payload[f] <= db
      PROVE  ReaderOK(r)'
  <2>1. reader'[r] = Reply(r, payload)
    BY <1>r DEF IInv, TypeOK
  <2>2. /\ reader'[r].pc = "reply" /\ reader'[r].payload = payload
        /\ reader'[r].lower = reader[r].lower
    BY <2>1 DEF Reply, Idle
  <2> QED
    BY <1>r, <1>s, <1>c, <2>2 DEF ReaderOK, HasVersion
<1>1. CASE Begin(r)
  <2>1. /\ reader'[r].pc = "version" /\ reader'[r].lower = announced[CurrentVersion]
        /\ reader'[r].read = reader[r].read /\ reader'[r].caching = reader[r].caching
    BY <1>1 DEF Begin, IInv, TypeOK, ReaderState
  <2> QED
    BY <1>1, <1>e, <1>s, <1>c, <1>v, <2>1 DEF Begin, ReaderOK, HasVersion, IInv, TypeOK
<1>2. CASE ReadVersion(r)
  <2>1. /\ reader'[r].pc = "get" /\ reader'[r].lower = reader[r].lower
        /\ reader'[r].version = CurrentVersion
        /\ reader'[r].read = reader[r].read /\ reader'[r].caching = reader[r].caching
    BY <1>2 DEF ReadVersion, IInv, TypeOK, ReaderState
  <2> QED
    BY <1>2, <1>e, <1>s, <1>c, <1>v, <2>1
       DEF ReadVersion, ReaderOK, HasVersion, IInv, TypeOK, Versions
<1>3. CASE Hit(r)
  <2>1. /\ entry[reader[r].version] # NoEntry
        /\ reader[r].version \in Versions
        /\ reader[r].version <= CurrentVersion
        /\ reader[r].lower <= announced[reader[r].version]
        /\ reader[r].lower <= announced[CurrentVersion]
    BY <1>3, <1>v DEF Hit, ReaderOK, HasVersion, IInv, ReaderState
  <2>2. entry[reader[r].version] \in Payload /\ reader[r].lower \in Nat
        /\ announced[reader[r].version] \in Nat
    BY <2>1, <1>v DEF IInv, TypeOK, ReaderState
  <2>3. ASSUME NEW f \in Facets
        PROVE  /\ reader[r].lower <= entry[reader[r].version][f]
               /\ entry[reader[r].version][f] <= db
    BY <2>1, <2>2 DEF EntryOK, IInv, Payload
  <2> QED
    BY <1>3, <1>e, <1>r, <2>1, <2>3 DEF Hit
<1>4. CASE Miss(r) \/ FallOpen(r)
  <2>1. /\ reader'[r].pc = "select"
        /\ reader'[r].lower = reader[r].lower
        /\ reader'[r].version = reader[r].version
        /\ reader'[r].read = reader[r].read
        /\ reader'[r].caching => reader[r].pc = "get"
    BY <1>4 DEF Miss, FallOpen, ReaderOK, IInv, TypeOK, ReaderState
  <2>2. reader[r].read = 0 /\ reader[r].pc \in {"version", "get"}
    BY <1>4 DEF Miss, FallOpen, ReaderOK, IInv
  <2>3. reader[r].lower <= announced[CurrentVersion]
    BY <2>2 DEF ReaderOK, IInv
  <2>4. \A f \in Facets : ~(f <= 0)
    BY DEF Facets
  <2> QED
    BY <1>4, <1>e, <1>s, <1>c, <2>1, <2>2, <2>3, <2>4
       DEF Miss, FallOpen, ReaderOK, HasVersion, IInv
<1>5. CASE Select(r)
  <2> DEFINE n == reader[r].read + 1
  <2>1. /\ reader[r].pc = "select" /\ n \in Facets /\ reader[r].read \in Nat
    BY <1>5, <1>v DEF Select, ReaderState, Facets
  <2>2. reader'[r] = [reader[r] EXCEPT !.read = n,
                                       !.payload = [reader[r].payload EXCEPT ![n] = db]]
    BY <1>5 DEF Select, IInv, TypeOK
  <2>3. /\ reader'[r].pc = "select" /\ reader'[r].read = n
        /\ reader'[r].payload = [reader[r].payload EXCEPT ![n] = db]
        /\ reader'[r].lower = reader[r].lower
        /\ reader'[r].version = reader[r].version
        /\ reader'[r].caching = reader[r].caching
    BY <2>1, <2>2, <1>v DEF ReaderState
  <2>4. HasVersion(r)' <=> HasVersion(r)
    BY <2>1, <2>3 DEF HasVersion
  <2>5. /\ reader[r].lower <= announced[CurrentVersion]
        /\ HasVersion(r) => /\ reader[r].version <= CurrentVersion
                            /\ reader[r].lower <= announced[reader[r].version]
    BY <2>1 DEF ReaderOK, IInv
  <2>6. reader[r].lower <= db /\ (HasVersion(r) => announced[reader[r].version] <= db)
    <3>1. \A v \in Versions : v <= CurrentVersion => announced[v] <= db /\ announced[v] \in Nat
      BY DEF IInv, AnnouncementsOrdered, TypeOK
    <3>2. reader[r].version \in Versions /\ reader[r].lower \in Nat
      BY <1>v DEF ReaderState
    <3>3. announced[CurrentVersion] <= db /\ announced[CurrentVersion] \in Nat
      BY <3>1, <1>v DEF Versions
    <3> QED
      BY <2>5, <3>1, <3>2, <3>3, <1>v
  <2>7. ASSUME NEW f \in Facets, f <= n
        PROVE  /\ reader[r].lower <= reader'[r].payload[f]
               /\ reader'[r].payload[f] <= db
               /\ HasVersion(r) => announced[reader[r].version] <= reader'[r].payload[f]
    <3>1. CASE f = n
      <4>1. reader'[r].payload[f] = db
        BY <2>3, <3>1, <1>v DEF ReaderState, Payload
      <4> QED
        BY <2>6, <4>1, <1>v DEF ReaderState
    <3>2. CASE f <= reader[r].read
      <4>1. reader'[r].payload[f] = reader[r].payload[f]
        BY <2>1, <2>3, <3>2, <1>v DEF ReaderState, Payload, Facets
      <4> QED
        BY <2>1, <3>2, <4>1 DEF ReaderOK, IInv
    <3> QED
      BY <2>1, <2>7, <3>1, <3>2 DEF Facets
  <2> QED
    BY <1>5, <1>e, <1>s, <1>c, <2>3, <2>4, <2>5, <2>7 DEF Select, ReaderOK
<1>6. ASSUME Computed(r)
      PROVE  /\ reader[r].lower <= announced[CurrentVersion]
             /\ \A f \in Facets : reader[r].lower <= reader[r].payload[f] /\ reader[r].payload[f] <= db
             /\ reader[r].caching =>
                  /\ reader[r].version <= CurrentVersion
                  /\ \A f \in Facets : announced[reader[r].version] <= reader[r].payload[f]
  <2>1. reader[r].pc = "select" /\ \A f \in Facets : f <= reader[r].read
    BY <1>6 DEF Computed, Facets
  <2> QED
    BY <2>1 DEF ReaderOK, HasVersion, IInv
<1>7. CASE Store(r)
  <2>1. ReaderOK(r)'
    BY <1>6, <1>7, <1>r DEF Store
  <2>2. ASSUME NEW v \in Versions PROVE EntryOK(v)'
    <3>1. CASE v = reader[r].version
      <4>1. entry'[v] = reader[r].payload
        BY <1>7, <3>1 DEF Store, IInv, TypeOK
      <4> QED
        BY <1>6, <1>7, <1>s, <1>c, <3>1, <4>1 DEF Store, EntryOK
    <3>2. CASE v # reader[r].version
      <4>1. entry'[v] = entry[v]
        BY <1>7, <3>2 DEF Store, IInv, TypeOK
      <4> QED
        BY <1>a, <4>1, EntryStable DEF IInv
    <3> QED
      BY <3>1, <3>2
  <2> QED
    BY <2>1, <2>2
<1>8. CASE SkipStore(r)
  BY <1>6, <1>8, <1>e, <1>r DEF SkipStore
<1>9. CASE End(r)
  <2>1. reader'[r] = Idle
    BY <1>9 DEF End, IInv, TypeOK
  <2>2. reader'[r].pc = "idle" /\ reader'[r].read = 0 /\ ~reader'[r].caching
    BY <2>1 DEF Idle
  <2> QED
    BY <1>9, <1>e, <2>2 DEF End, ReaderOK, HasVersion
<1> QED
  BY <1>1, <1>2, <1>3, <1>4, <1>5, <1>7, <1>8, <1>9 DEF Answering

\* An entry that expires leaves nothing to be stale.
LEMMA ExpireStep ==
  ASSUME IInv, TypeOK', NEW v \in Versions, Expire(v)
  PROVE  IInv'
<1>1. CurrentVersion \in Versions /\ UNCHANGED CurrentVersion
  BY CurrentVersionType DEF Expire, CurrentVersion, IInv, TypeOK
<1>2. Advances
  BY <1>1 DEF Expire, Advances, IInv, TypeOK, Versions
<1>3. ASSUME NEW w \in Versions PROVE EntryOK(w)'
  <2>1. entry'[w] = entry[w] \/ entry'[w] = NoEntry
    BY DEF Expire, IInv, TypeOK
  <2> QED
    BY <1>2, <2>1, EntryStable DEF IInv, EntryOK
<1>4. AnnouncementsOrdered' /\ \A p \in Promoters : PromoterOK(p)'
  BY <1>1 DEF Expire, AnnouncementsOrdered, PromoterOK, IInv
<1> QED
  BY <1>2, <1>3, <1>4, ReaderStable DEF Expire, IInv

LEMMA StutterStep == IInv /\ UNCHANGED vars => IInv'
BY DEF IInv, vars, TypeOK, AnnouncementsOrdered, PromoterOK, EntryOK, ReaderOK,
       HasVersion, CurrentVersion

LEMMA NextInv == IInv /\ [Next]_vars => IInv'
<1> SUFFICES ASSUME IInv, [Next]_vars PROVE IInv'
  OBVIOUS
<1>1. TypeOK'
  BY TypeStep DEF IInv
<1> QED
  BY <1>1, PromotionStep, AnsweringStep, ExpireStep, StutterStep DEF Next

THEOREM Invariant == Spec => []IInv
BY InitInv, NextInv, PTL DEF Spec

\* No cache entry is ever older than the promotion that made its version
\* current, however requests and promotions interleave and fail.
THEOREM EntriesAreFresh == Spec => []EntriesFresh
<1>1. IInv => EntriesFresh
  BY DEF IInv, EntriesFresh, EntryOK
<1> QED
  BY <1>1, Invariant, PTL

\* No answer is older than what had been announced when its request arrived.
THEOREM AnswersAreFresh == Spec => []AnswersFresh
<1>1. IInv => AnswersFresh
  BY DEF IInv, AnswersFresh, ReaderOK
<1> QED
  BY <1>1, Invariant, PTL
-----------------------------------------------------------------------------
(***************************************************************************)
(* Refinement: the cache implements FiltersService                         *)
(***************************************************************************)

LEMMA ShownIdle == Shown(Idle) = Service!NoRequest
BY DEF Shown, Idle, Service!NoRequest, Service!NoPayload, Service!Facets, Facets, Blank

LEMMA RefineInit == Init => Service!Init
<1> SUFFICES ASSUME Init PROVE Service!Init
  OBVIOUS
<1>1. announced[CurrentVersion] = 0
  BY DEF Init, CurrentVersion, Versions
<1>2. Requests = [r \in Readers |-> Service!NoRequest]
  BY ShownIdle DEF Init, Requests
<1> QED
  BY <1>1, <1>2 DEF Init, Service!Init, Requests, Shown

\* A step of a promotion commits, announces or does not show.
LEMMA RefinePromotion ==
  ASSUME IInv, IInv', NEW p \in Promoters, Promotion(p)
  PROVE  [Service!Next]_Service!vars
<1>1. UNCHANGED Requests
  BY DEF Promotion, Commit, BeginBump, Seed, Incr, GiveUp, Requests, Shown
<1>2. CASE Commit(p)
  <2>1. Service!Commit
    BY <1>1, <1>2 DEF Commit, Service!Commit, cacheVars, CurrentVersion
  <2> QED
    BY <2>1 DEF Service!Next
<1>3. CASE Incr(p)
  <2>1. /\ CurrentVersion \in Versions /\ CurrentVersion' \in Versions
        /\ CurrentVersion = version /\ CurrentVersion' = version + 1 /\ UNCHANGED db
    BY <1>3, CurrentVersionType
       DEF Incr, CurrentVersion, IInv, PromoterOK, TypeOK, Versions
  <2>2. /\ announced'[CurrentVersion'] \in Nat /\ announced[CurrentVersion] \in Nat
        /\ promoter[p].last \in Nat /\ db \in Nat
    BY <2>1 DEF IInv, TypeOK, PromoterState
  <2>3. announced'[CurrentVersion'] = IF announced[CurrentVersion] < promoter[p].last
                                      THEN promoter[p].last ELSE announced[CurrentVersion]
    BY <1>3, <2>1 DEF Incr, IInv, TypeOK
  <2>4. announced'[CurrentVersion'] <= db
    BY <2>1 DEF IInv, AnnouncementsOrdered, Versions
  <2>5. announced'[CurrentVersion'] \in announced[CurrentVersion] .. db
    BY <2>2, <2>3, <2>4
  <2>6. Service!Announce
    BY <1>1, <2>1, <2>5 DEF Service!Announce
  <2> QED
    BY <2>6 DEF Service!Next
<1>4. CASE BeginBump(p) \/ Seed(p) \/ GiveUp(p)
  <2>1. UNCHANGED db /\ UNCHANGED announced /\ UNCHANGED CurrentVersion
    BY <1>4 DEF BeginBump, Seed, GiveUp, cacheVars, CurrentVersion
  <2> QED
    BY <1>1, <2>1 DEF Service!vars
<1> QED
  BY <1>2, <1>3, <1>4 DEF Promotion

\* A step of a request opens, answers or closes it, or does not show.
LEMMA RefineAnswering ==
  ASSUME IInv, IInv', NEW r \in Readers, Begin(r) \/ Answering(r)
  PROVE  [Service!Next]_Service!vars
<1>s. UNCHANGED db /\ UNCHANGED announced /\ UNCHANGED CurrentVersion
  BY DEF Begin, Answering, ReadVersion, Hit, Miss, FallOpen, Select, Store,
         SkipStore, End, readVars, cacheVars, CurrentVersion
<1>t. reader[r] \in ReaderState /\ Requests[r] = Shown(reader[r])
  BY DEF IInv, TypeOK, Requests
<1>m. ASSUME NEW rd, reader' = [reader EXCEPT ![r] = rd]
      PROVE  Requests' = [Requests EXCEPT ![r] = Shown(rd)]
  <2>1. \A q \in Readers : reader'[q] = IF q = r THEN rd ELSE reader[q]
    BY <1>m DEF IInv, TypeOK
  <2> QED
    BY <2>1 DEF Requests
<1>h. ASSUME NEW rd, reader' = [reader EXCEPT ![r] = rd], Shown(rd) = Shown(reader[r])
      PROVE  UNCHANGED Service!vars
  <2>1. Requests' = Requests
    BY <1>h, <1>m, <1>t DEF Requests
  <2> QED
    BY <1>s, <2>1 DEF Service!vars
\* A reply within the bounds is an answer of the service.
<1>a. ASSUME NEW payload \in Payload,
             reader' = [reader EXCEPT ![r] = Reply(r, payload)],
             reader[r].pc \notin {"idle", "reply"}
      PROVE  Service!Answer(r)
  <2>1. /\ reader'[r].pc = "reply" /\ reader'[r].payload = payload
        /\ reader'[r].lower = reader[r].lower
    BY <1>a DEF Reply, Idle, IInv, TypeOK
  <2>2. \A f \in Facets : reader[r].lower <= payload[f] /\ payload[f] <= db
    BY <1>s, <2>1 DEF IInv, ReaderOK
  <2>3. payload \in [Facets -> reader[r].lower .. db]
    BY <2>2, <1>t DEF Payload, ReaderState, IInv, TypeOK
  <2>4. Requests[r].pc = "open" /\ Requests[r].lower = reader[r].lower
    BY <1>a, <1>t DEF Shown
  <2>5. Shown(Reply(r, payload)) = [pc |-> "answered", lower |-> reader[r].lower, payload |-> payload]
    BY DEF Shown, Reply, Idle
  <2> QED
    BY <1>a, <1>m, <1>s, <2>3, <2>4, <2>5 DEF Service!Answer, Service!Facets, Facets
<1>1. CASE Begin(r)
  <2>1. reader' = [reader EXCEPT ![r] = [reader[r] EXCEPT !.pc = "version",
                                                   !.lower = announced[CurrentVersion]]]
    BY <1>1 DEF Begin
  <2>2. Requests[r] = [pc |-> "none", lower |-> reader[r].lower, payload |-> Blank]
    BY <1>1, <1>t DEF Begin, Shown
  <2>3. Shown([reader[r] EXCEPT !.pc = "version", !.lower = announced[CurrentVersion]])
          = [pc |-> "open", lower |-> announced[CurrentVersion], payload |-> Blank]
    BY <1>t DEF Shown, ReaderState
  <2>4. Requests' = [Requests EXCEPT ![r] =
          [pc |-> "open", lower |-> announced[CurrentVersion], payload |-> Blank]]
    BY <1>m, <2>1, <2>3
  <2>5. Requests[r].pc = "none" /\ Blank = Service!NoPayload
    BY <2>2 DEF Service!NoPayload, Service!Facets, Facets, Blank
  <2>6. Service!Begin(r)
    BY <1>s, <2>4, <2>5 DEF Service!Begin
  <2> QED
    BY <2>6 DEF Service!Next
<1>2. CASE ReadVersion(r) \/ Miss(r) \/ FallOpen(r) \/ Select(r)
  <2>1. CASE ReadVersion(r)
    <3>1. Shown([reader[r] EXCEPT !.pc = "get", !.version = CurrentVersion]) = Shown(reader[r])
      BY <1>t, <2>1 DEF ReadVersion, Shown, ReaderState
    <3> QED
      BY <1>h, <2>1, <3>1 DEF ReadVersion
  <2>2. CASE Miss(r)
    <3>1. Shown([reader[r] EXCEPT !.pc = "select", !.caching = TRUE]) = Shown(reader[r])
      BY <1>t, <2>2 DEF Miss, Shown, ReaderState
    <3> QED
      BY <1>h, <2>2, <3>1 DEF Miss
  <2>3. CASE FallOpen(r)
    <3>1. Shown([reader[r] EXCEPT !.pc = "select"]) = Shown(reader[r])
      BY <1>t, <2>3 DEF FallOpen, Shown, ReaderState
    <3> QED
      BY <1>h, <2>3, <3>1 DEF FallOpen
  <2>4. CASE Select(r)
    <3>1. Shown([reader[r] EXCEPT
                   !.read = @ + 1,
                   !.payload = [@ EXCEPT ![reader[r].read + 1] = db]]) = Shown(reader[r])
      BY <1>t, <2>4 DEF Select, Shown, ReaderState
    <3> QED
      BY <1>h, <2>4, <3>1 DEF Select
  <2> QED
    BY <1>2, <2>1, <2>2, <2>3, <2>4
<1>3. CASE Hit(r) \/ Store(r) \/ SkipStore(r)
  <2>1. PICK payload \in Payload : reader' = [reader EXCEPT ![r] = Reply(r, payload)]
    BY <1>3, <1>t DEF Hit, Store, SkipStore, IInv, TypeOK, ReaderState
  <2>2. reader[r].pc \notin {"idle", "reply"}
    BY <1>3 DEF Hit, Store, SkipStore, Computed
  <2> QED
    BY <1>a, <2>1, <2>2 DEF Service!Next
<1>4. CASE End(r)
  <2>1. Requests' = [Requests EXCEPT ![r] = Service!NoRequest]
    BY <1>4, <1>m, ShownIdle DEF End
  <2>2. Requests[r].pc # "none"
    BY <1>4, <1>t DEF End, Shown
  <2>3. Service!Close(r)
    BY <1>s, <2>1, <2>2 DEF Service!Close
  <2> QED
    BY <2>3 DEF Service!Next
<1> QED
  BY <1>1, <1>2, <1>3, <1>4 DEF Answering

LEMMA RefineNext == IInv /\ IInv' /\ [Next]_vars => [Service!Next]_Service!vars
<1> SUFFICES ASSUME IInv, IInv', [Next]_vars PROVE [Service!Next]_Service!vars
  OBVIOUS
<1>1. ASSUME NEW v \in Versions, Expire(v) PROVE UNCHANGED Service!vars
  BY <1>1 DEF Expire, Service!vars, Requests, Shown, CurrentVersion
<1>2. CASE UNCHANGED vars
  BY <1>2 DEF vars, Service!vars, Requests, Shown, CurrentVersion
<1> QED
  BY <1>1, <1>2, RefinePromotion, RefineAnswering DEF Next

\* However it caches, get_or_compute keeps what FiltersService promises.
THEOREM CacheImplementsService == Spec => ImplementsFiltersService
BY RefineInit, RefineNext, Invariant, PTL
   DEF Spec, ImplementsFiltersService, Service!Spec
=============================================================================
