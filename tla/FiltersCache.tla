----------------------------- MODULE FiltersCache -----------------------------
(***************************************************************************)
(* The versioned Redis cache of the public filters response                *)
(* (app/core/filters_cache.py), the API requests that read through it, and *)
(* the promotions that invalidate it.                                      *)
(*                                                                         *)
(* One action is one Redis command, one SELECT or one database commit.  As *)
(* in FiltersService, the jobs table is known by the number of commits     *)
(* that produced it and a payload by the commits its filters come from.    *)
(*                                                                         *)
(* The version key is assumed to live as long as the server does: it has   *)
(* no expiry, and a Redis that loses its memory is not modelled.           *)
(***************************************************************************)
EXTENDS Integers

CONSTANTS
  Promoters,        \* worker processes that promote
  Readers,          \* requests the API serves at a time
  NumFacets,        \* the filters of the response: one SELECT each
  MaxCommits,       \* bound: commits to the jobs table
  MaxVersion,       \* bound: the last version of the cache
  NoEntry           \* the cache key does not exist

ASSUME CacheAssumption ==
  /\ NumFacets \in Nat
  /\ MaxCommits \in Nat
  /\ MaxVersion \in Nat \ {0}

VARIABLES
  db,               \* commits to the jobs table so far
  version,          \* filters:version; 0 when the key does not exist
  entry,            \* filters:v<n>
  promoter,         \* each worker, in its promotion
  reader,           \* each request
  announced         \* history: the last commit known when n became current

vars == <<db, version, entry, promoter, reader, announced>>

Facets == 1 .. NumFacets
Payload == [Facets -> Nat]
Versions == 1 .. MaxVersion
Blank == [f \in Facets |-> 0]

\* _current_version: a missing key counts as 1.
CurrentVersion == IF version = 0 THEN 1 ELSE version

PromoterState == [pc : {"idle", "promoting", "seed", "incr"},
                  last : Nat]       \* its last commit

ReaderState ==
  [pc : {"idle", "version", "get", "select", "reply"},
   version : Versions,              \* the version it has read
   read : 0 .. NumFacets,           \* SELECTs done
   payload : Payload,
   caching : BOOLEAN,               \* the result will be stored
   lower : Nat]                     \* history: announced when it arrived

Idle == [pc |-> "idle", version |-> 1, read |-> 0, payload |-> Blank,
         caching |-> FALSE, lower |-> 0]

\* All that is left of a request once its answer is known.
Reply(r, payload) ==
  [Idle EXCEPT !.pc = "reply", !.payload = payload, !.lower = reader[r].lower]

Resting == [pc |-> "idle", last |-> 0]

Init ==
  /\ db = 0
  /\ version = 0
  /\ entry = [v \in Versions |-> NoEntry]
  /\ promoter = [p \in Promoters |-> Resting]
  /\ reader = [r \in Readers |-> Idle]
  /\ announced = [v \in Versions |-> 0]
-----------------------------------------------------------------------------
(***************************************************************************)
(* A promotion, as far as the cache is concerned                           *)
(***************************************************************************)
cacheVars == <<version, entry, announced>>

\* A batch, the sweep or the outcome of the promotion is committed.
Commit(p) ==
  /\ promoter[p].pc \in {"idle", "promoting"}
  /\ db < MaxCommits
  /\ db' = db + 1
  /\ promoter' = [promoter EXCEPT ![p] = [pc |-> "promoting", last |-> db + 1]]
  /\ UNCHANGED <<cacheVars, reader>>

\* The last commit is done: FiltersCacheInvalidator.bump_version is called.
BeginBump(p) ==
  /\ promoter[p].pc = "promoting"
  /\ promoter' = [promoter EXCEPT ![p].pc = "seed"]
  /\ UNCHANGED <<db, cacheVars, reader>>

\* Mutant: the key is not seeded.
SeedNothing(p) ==
  /\ promoter[p].pc = "seed"
  /\ promoter' = [promoter EXCEPT ![p].pc = "incr"]
  /\ UNCHANGED <<db, cacheVars, reader>>

\* SET filters:version 1 NX
Seed(p) ==
  /\ promoter[p].pc = "seed"
  /\ version' = CurrentVersion
  /\ promoter' = [promoter EXCEPT ![p].pc = "incr"]
  /\ UNCHANGED <<db, entry, announced, reader>>

\* INCR filters:version.  When the reply is lost the client sends the command
\* again, so one call may count more than once.
Incr(p) ==
  /\ promoter[p].pc = "incr"
  /\ version < MaxVersion
  /\ version' = version + 1
  /\ announced' = [announced EXCEPT ![version + 1] =
                     IF announced[CurrentVersion] < promoter[p].last
                     THEN promoter[p].last ELSE announced[CurrentVersion]]
  /\ \/ promoter' = [promoter EXCEPT ![p] = Resting]
     \/ UNCHANGED promoter
  /\ UNCHANGED <<db, entry, reader>>

\* The promotion fails or the worker dies between any two steps, or Redis
\* cannot be reached and the error is logged: nothing (more) is announced.
GiveUp(p) ==
  /\ promoter[p].pc # "idle"
  /\ promoter' = [promoter EXCEPT ![p] = Resting]
  /\ UNCHANGED <<db, cacheVars, reader>>
-----------------------------------------------------------------------------
(***************************************************************************)
(* FiltersCache.get_or_compute                                             *)
(***************************************************************************)
readVars == <<db, cacheVars, promoter>>

\* A request arrives; history: what has been announced by then.
Begin(r) ==
  /\ reader[r].pc = "idle"
  /\ reader' = [reader EXCEPT ![r].pc = "version", ![r].lower = announced[CurrentVersion]]
  /\ UNCHANGED readVars

ReadVersion(r) ==
  /\ reader[r].pc = "version"
  /\ reader' = [reader EXCEPT ![r].pc = "get", ![r].version = CurrentVersion]
  /\ UNCHANGED readVars

\* Mutant: the reply is not compared with None.
HitUnchecked(r) ==
  /\ reader[r].pc = "get"
  /\ reader' = [reader EXCEPT ![r] = Reply(r, entry[reader[r].version])]
  /\ UNCHANGED readVars

Hit(r) ==
  /\ reader[r].pc = "get"
  /\ entry[reader[r].version] # NoEntry
  /\ reader' = [reader EXCEPT ![r] = Reply(r, entry[reader[r].version])]
  /\ UNCHANGED readVars

Miss(r) ==
  /\ reader[r].pc = "get"
  /\ entry[reader[r].version] = NoEntry
  /\ reader' = [reader EXCEPT ![r].pc = "select", ![r].caching = TRUE]
  /\ UNCHANGED readVars

\* RedisError on either read: compute without the cache.
FallOpen(r) ==
  /\ reader[r].pc \in {"version", "get"}
  /\ reader' = [reader EXCEPT ![r].pc = "select"]
  /\ UNCHANGED readVars

\* One of the sequential SELECTs of get_filter_metadata, under READ COMMITTED.
Select(r) ==
  /\ reader[r].pc = "select"
  /\ reader[r].read < NumFacets
  /\ reader' = [reader EXCEPT ![r].read = @ + 1,
                              ![r].payload = [@ EXCEPT ![reader[r].read + 1] = db]]
  /\ UNCHANGED readVars

Computed(r) == reader[r].pc = "select" /\ reader[r].read = NumFacets

\* Mutant: the payload is stored under the version current by now.
StoreUnderCurrentVersion(r) ==
  /\ Computed(r) /\ reader[r].caching
  /\ entry' = [entry EXCEPT ![CurrentVersion] = reader[r].payload]
  /\ reader' = [reader EXCEPT ![r] = Reply(r, reader[r].payload)]
  /\ UNCHANGED <<db, version, announced, promoter>>

\* _store, under the version read at the start.
Store(r) ==
  /\ Computed(r) /\ reader[r].caching
  /\ entry' = [entry EXCEPT ![reader[r].version] = reader[r].payload]
  /\ reader' = [reader EXCEPT ![r] = Reply(r, reader[r].payload)]
  /\ UNCHANGED <<db, version, announced, promoter>>

\* Falling open stores nothing, and a RedisError in _store is logged.
SkipStore(r) ==
  /\ Computed(r)
  /\ reader' = [reader EXCEPT ![r] = Reply(r, reader[r].payload)]
  /\ UNCHANGED readVars

\* The response is sent, the query fails or the client goes away.
End(r) ==
  /\ reader[r].pc # "idle"
  /\ reader' = [reader EXCEPT ![r] = Idle]
  /\ UNCHANGED readVars

\* Mutant: only the entry of a past version expires.
ExpirePast(v) ==
  /\ entry[v] # NoEntry /\ v < CurrentVersion
  /\ entry' = [entry EXCEPT ![v] = NoEntry]
  /\ UNCHANGED <<db, version, announced, promoter, reader>>

\* Redis drops an entry when its TTL (ex=ttl_seconds) is over.
Expire(v) ==
  /\ entry[v] # NoEntry
  /\ entry' = [entry EXCEPT ![v] = NoEntry]
  /\ UNCHANGED <<db, version, announced, promoter, reader>>
-----------------------------------------------------------------------------
Promotion(p) == Commit(p) \/ BeginBump(p) \/ Seed(p) \/ Incr(p) \/ GiveUp(p)

Answering(r) ==
  \/ ReadVersion(r) \/ Hit(r) \/ Miss(r) \/ FallOpen(r)
  \/ Select(r) \/ Store(r) \/ SkipStore(r) \/ End(r)

Next ==
  \/ \E p \in Promoters : Promotion(p)
  \/ \E r \in Readers : Begin(r) \/ Answering(r)
  \/ \E v \in Versions : Expire(v)

Spec == Init /\ [][Next]_vars

\* A TTL runs out, and a request that has begun is answered or dies.
Fairness ==
  /\ \A v \in Versions : WF_vars(Expire(v))
  /\ \A r \in Readers : WF_vars(Answering(r))

FairSpec == Spec /\ Fairness
-----------------------------------------------------------------------------
(***************************************************************************)
(* Properties                                                              *)
(***************************************************************************)

\* Types; in particular the version a request uses is one a key exists for.
TypeOK ==
  /\ db \in Nat
  /\ version \in 0 .. MaxVersion
  /\ entry \in [Versions -> Payload \cup {NoEntry}]
  /\ promoter \in [Promoters -> PromoterState]
  /\ reader \in [Readers -> ReaderState]
  /\ announced \in [Versions -> Nat]

\* No entry is older than the promotion that made its version current: a slow
\* request that computed before a bump cannot poison the version after it.
EntriesFresh ==
  \A v \in Versions : entry[v] # NoEntry =>
    v <= CurrentVersion /\ \A f \in Facets : announced[v] <= entry[v][f]

\* An answer is never older, in any of its filters, than the last promotion
\* announced when the request arrived.
AnswersFresh ==
  \A r \in Readers : reader[r].pc = "reply" =>
    \A f \in Facets : reader[r].lower <= reader[r].payload[f]

(***************************************************************************)
(* The inductive invariant behind both: announcements only grow with the   *)
(* version, a worker increments a seeded key, and whatever a request has   *)
(* read or computed was read after it learnt its version.                  *)
(***************************************************************************)
AnnouncementsOrdered ==
  \A v \in Versions : v <= CurrentVersion =>
    /\ announced[v] <= announced[CurrentVersion]
    /\ announced[v] <= db

PromoterOK(p) ==
  /\ promoter[p].last <= db
  /\ promoter[p].pc = "incr" => version # 0

EntryOK(v) ==
  entry[v] # NoEntry =>
    /\ v <= CurrentVersion
    /\ \A f \in Facets : announced[v] <= entry[v][f] /\ entry[v][f] <= db

HasVersion(r) ==
  reader[r].pc = "get" \/ (reader[r].pc = "select" /\ reader[r].caching)

ReaderOK(r) ==
  /\ reader[r].pc # "idle" => reader[r].lower <= announced[CurrentVersion]
  /\ reader[r].pc \in {"idle", "version", "get"} => reader[r].read = 0 /\ ~reader[r].caching
  /\ HasVersion(r) => /\ reader[r].version <= CurrentVersion
                      /\ reader[r].lower <= announced[reader[r].version]
  /\ \A f \in Facets :
       reader[r].pc = "reply" \/ (reader[r].pc = "select" /\ f <= reader[r].read) =>
         /\ reader[r].lower <= reader[r].payload[f]
         /\ reader[r].payload[f] <= db
         /\ HasVersion(r) => announced[reader[r].version] <= reader[r].payload[f]

IInv ==
  /\ TypeOK
  /\ AnnouncementsOrdered
  /\ \A p \in Promoters : PromoterOK(p)
  /\ \A v \in Versions : EntryOK(v)
  /\ \A r \in Readers : ReaderOK(r)

\* What FiltersService sees of a request: only its arrival and its answer.
Shown(rd) ==
  [pc |-> CASE rd.pc = "idle" -> "none"
            [] rd.pc = "reply" -> "answered"
            [] OTHER -> "open",
   lower |-> rd.lower,
   payload |-> IF rd.pc = "reply" THEN rd.payload ELSE Blank]

Requests == [r \in Readers |-> Shown(reader[r])]

Service == INSTANCE FiltersService WITH
  published <- announced[CurrentVersion], request <- Requests

\* The cache keeps the promise of FiltersService.
ImplementsFiltersService == Service!Spec

\* Once the catalogue stops changing, the current entry ends up showing its
\* last state, even when a bump was lost: a stale entry dies with its TTL.
EventuallyCurrent ==
  <>[](entry[CurrentVersion] # NoEntry =>
         \A f \in Facets : entry[CurrentVersion][f] = db)
=============================================================================
