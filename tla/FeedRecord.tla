----------------------------- MODULE FeedRecord -----------------------------
(***************************************************************************)
(* What one element of a feed becomes: the fallbacks of JobFeedRecord      *)
(* (app/imports/schemas.py), the hash of the raw element                   *)
(* (app/imports/hashing.py), what is inferred from its words               *)
(* (app/services/inference_service.py), the row of the job that promotion  *)
(* rewrites when the hash differs, and the posting that search engines     *)
(* read (app/services/structured_data_service.py).                         *)
(*                                                                         *)
(* A value of an element is the class of texts the code tells apart:       *)
(* "none" when the element is absent, "blank" when it is empty.  The order *)
(* of the elements, which the hash is not to depend on, is not kept.       *)
(***************************************************************************)
EXTENDS Integers, SequencesExt

CONSTANTS
  Elements          \* the elements the feed may carry for the job

VARIABLES
  row,              \* the row of the job: <<>> or one
  latest,           \* history: <<>> or the last element not rejected
  flagged           \* fallback_fields of that element

vars == <<row, latest, flagged>>

Missing == {"none", "blank"}
Present(value) == IF value = "blank" THEN "none" ELSE value

\* _EMPLOYMENT_TYPE_MAP: what is stored for each spelling.
SpellingsOf ==
  [full_time |-> {"ft", "full time", "fulltime", "permanent"},
   part_time |-> {"pt", "part time", "parttime"},
   contract |-> {"contract", "contractor", "1099", "freelance", "freelancer"},
   temporary |-> {"temp", "temporary", "seasonal", "fixed term"},
   internship |-> {"intern", "internship"},
   other |-> {"any", "other"}]
EmploymentTypes == DOMAIN SpellingsOf
Spellings == UNION {SpellingsOf[t] : t \in EmploymentTypes}

\* An amount of money, or none, or a text that is not one.
NoAmount == -1
Unusable == -2

\* The rules on the words of a title or a description, in their order, and what
\* each infers.
PlaceWords == <<"remote", "hybrid", "onsite", "on-site", "work from home", "in-office">>
PlaceOf == <<"remote", "hybrid", "onsite", "onsite", "remote", "onsite">>
TextPlaces == <<"remote", "hybrid", "onsite">>
LevelWords == <<"senior", "junior", "entry level", "principal", "lead">>
LevelOf == <<"senior", "entry", "entry", "lead", "lead">>

Element ==
  [title : {"none", "blank", "title"}, says : SUBSET (ToSet(PlaceWords) \cup ToSet(LevelWords)),
   text : SUBSET ToSet(TextPlaces),
   employment : Missing \cup Spellings \cup {"unheard"},
   currency : Missing \cup {"code", "named", "unclear"},
   low : Int, high : Int,
   logo : Missing \cup {"url", "broken"},
   apply : Missing \cup {"url", "lenient", "broken"},
   price : Int, priced : Missing \cup {"code", "named", "unclear"},
   unmapped : Missing \cup {"extra"}]

RecordAssumption == Elements \subseteq Element

-----------------------------------------------------------------------------
(***************************************************************************)
(* JobFeedRecord: each field's value, and whether it fell back.            *)
(***************************************************************************)

\* normalize_employment_type: an unknown spelling becomes "other".
Employment(e) ==
  IF e.employment \in Missing THEN "none"
  ELSE IF e.employment \in Spellings
       THEN CHOOSE t \in EmploymentTypes : e.employment \in SpellingsOf[t]
       ELSE "other"

\* normalize_currency_code: a code, alone or behind a name.
Currency(text) == IF text \in {"code", "named"} THEN "code" ELSE "none"

Amount(a) == IF a = Unusable THEN NoAmount ELSE a
Url(text) == IF text = "url" THEN "url" ELSE "none"

\* An address that does not parse is kept when it can still be used.
ApplyUrl(e) == IF e.apply \in {"url", "lenient"} THEN e.apply ELSE "none"

\* salary_range_is_valid.
Inverted(e) ==
  /\ Amount(e.low) # NoAmount /\ Amount(e.high) # NoAmount
  /\ Amount(e.low) > Amount(e.high)

\* apply_field_fallbacks.
Fallbacks(e) ==
  {f \in {"employment_type"} : e.employment = "unheard"}
  \cup {f \in {"salary_currency"} : e.currency \in {"named", "unclear"}}
  \cup {f \in {"sell_price_currency"} : e.priced \in {"named", "unclear"}}
  \cup {f \in {"salary_min"} : e.low = Unusable}
  \cup {f \in {"salary_max"} : e.high = Unusable}
  \cup {f \in {"sell_price"} : e.price = Unusable}
  \cup {f \in {"advertiser_logo_url"} : e.logo = "broken"}
  \cup {f \in {"apply_url"} : e.apply \in {"lenient", "broken"}}
  \cup {f \in {"salary_range"} : Inverted(e)}

Rejected(e) == Present(e.title) = "none" \/ ApplyUrl(e) = "none"

\* What the first rule that matches infers.
FirstMatch(words, rules, results, otherwise) ==
  LET found == SelectInSeq(rules, LAMBDA word : word \in words)
  IN  IF found = 0 THEN otherwise ELSE results[found]

\* infer_remote_status: the title's rules before the description's.
RemoteStatus(e) ==
  FirstMatch(e.says, PlaceWords, PlaceOf, FirstMatch(e.text, TextPlaces, TextPlaces, "none"))

\* infer_experience_level, of the title only.
ExperienceLevel(e) == FirstMatch(e.says, LevelWords, LevelOf, "none")

\* The columns of the job.
ColumnsOf(e) ==
  [employment |-> Employment(e), currency |-> Currency(e.currency),
   low |-> IF Inverted(e) THEN NoAmount ELSE Amount(e.low),
   high |-> IF Inverted(e) THEN NoAmount ELSE Amount(e.high),
   logo |-> Url(e.logo), apply |-> ApplyUrl(e),
   remote |-> RemoteStatus(e), level |-> ExperienceLevel(e)]

-----------------------------------------------------------------------------
(***************************************************************************)
(* The row.                                                                *)
(***************************************************************************)
Stored(e, hash) == [payload |-> e, hash |-> hash, columns |-> ColumnsOf(e)]

Init ==
  /\ row = <<>>
  /\ latest = <<>>
  /\ flagged = {}

\* Mutant: a hash of the normalised values.
HashOfColumns(e) == ColumnsOf(e)

\* compute_payload_hash: of the element as it came.
PayloadHash(e) == e

\* An import that carries e: a row with e's hash is unchanged.
Import(e) ==
  /\ ~Rejected(e)
  /\ row' = IF row # <<>> /\ row[1].hash = PayloadHash(e) THEN row
            ELSE <<Stored(e, PayloadHash(e))>>
  /\ latest' = <<e>>
  /\ flagged' = Fallbacks(e)

\* A rejected element is counted and logged; nothing of it is staged or promoted.
Reject(e) ==
  /\ Rejected(e)
  /\ UNCHANGED vars

Next == \E e \in Elements : Import(e) \/ Reject(e)

Spec == Init /\ [][Next]_vars

-----------------------------------------------------------------------------
\* build_job_posting_ld: the type of employment as schema.org names it, and the
\* salary, which has a currency only beside an amount.
SchemaType ==
  [full_time |-> "FULL_TIME", part_time |-> "PART_TIME", contract |-> "CONTRACTOR",
   temporary |-> "TEMPORARY", internship |-> "INTERN", other |-> "OTHER"]

Posting(columns) ==
  LET paid == columns.low # NoAmount \/ columns.high # NoAmount
  IN  [type |-> IF columns.employment \in DOMAIN SchemaType
                THEN SchemaType[columns.employment] ELSE "none",
       low |-> columns.low, high |-> columns.high,
       currency |-> IF paid THEN columns.currency ELSE "none"]

TypeOK ==
  /\ Len(row) = Len(latest) /\ Len(row) <= 1
  /\ ToSet(latest) \cup {r.payload : r \in ToSet(row)} \subseteq Elements
  /\ flagged \subseteq {"employment_type", "salary_currency", "sell_price_currency", "salary_min",
                      "salary_max", "sell_price", "advertiser_logo_url", "apply_url", "salary_range"}

\* The row shows the last element, raw and in its columns: also when two
\* elements differ in nothing but what normalising takes away.
RowFollowsFeed ==
  row # <<>> => row[1].payload = latest[1] /\ row[1].columns = ColumnsOf(latest[1])

\* A value that was supplied and is not stored is among the fallbacks that the
\* administrators are shown.
LossesFlagged ==
  row # <<>> =>
    LET lost(supplied, column) == supplied \notin Missing /\ column = "none"
        gone(supplied, column) == supplied # NoAmount /\ column = NoAmount
        e == latest[1]
        c == row[1].columns
    IN  /\ lost(e.currency, c.currency) => "salary_currency" \in flagged
        /\ lost(e.logo, c.logo) => "advertiser_logo_url" \in flagged
        /\ gone(e.low, c.low) => flagged \cap {"salary_min", "salary_range"} # {}
        /\ gone(e.high, c.high) => flagged \cap {"salary_max", "salary_range"} # {}

\* A posting names the employment of every element that names one, and never an
\* inverted salary or a currency without an amount.
PostingsSound ==
  row # <<>> =>
    LET posting == Posting(row[1].columns)
        paid == {posting.low, posting.high} # {NoAmount}
    IN  /\ latest[1].employment \notin Missing => posting.type # "none"
        /\ NoAmount \notin {posting.low, posting.high} => posting.low <= posting.high
        /\ posting.currency # "none" => paid

\* What the job board stores and shows of a job is what its feed says.
RecordsFaithful == RowFollowsFeed /\ LossesFlagged /\ PostingsSound
=============================================================================
