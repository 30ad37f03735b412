------------------------------- MODULE MCParts -------------------------------
(***************************************************************************)
(* Small instances, for TLC, of parts of the system that have no variable  *)
(* in common, so that one says nothing about the others: a behaviour moves *)
(* one of them and leaves the others where they began.                     *)
(***************************************************************************)
EXTENDS PublicJobs, SequencesExt

CONSTANTS
  c1,                                       \* a client of PublicJobs
  Subjects, Emails, Postings, Requests,     \* those of Members
  s1, s2, e1, e2, j1, q1, q2,
  Runs, References,                         \* those of FeedIntake
  MaxAmount, MaxAttempts, MaxDownload, MaxExtracted,
  r1, ref1, ref2,
  Linkable, Owners, OwnerOf, Hashes, Admins, Script,   \* those of AffiliateLinks
  LinkBatch, LinkSlice, MaxHashAttempts,
  k1, k2, h1, h2, a1,
  Named, Settings, Refused, MaxActions,     \* those of ProviderAdmin
  v1, v2, bad, b1, b2,
  MaxListed, MaxLimit, NoFilter,               \* those of RunHistory
  Addresses, Passwords, SignIns, Commands,  \* those of AdminAccounts
  x1, x2, m1, n1, d1, d2, d3

VARIABLES
  part,                                           \* the part that moves
  user, posting, saved, request, kept, renamed,   \* of Members
  run, task, files,                               \* of FeedIntake
  linked, link, writer, listed, gap,              \* of AffiliateLinks
  provider, audit, lastId, sent, asked, made,     \* of ProviderAdmin
  status, walk,                                   \* of RunHistory
  account, chosen, session, signIn, command,      \* of AdminAccounts
  row, latest, flagged                            \* of FeedRecord

\* A good element, one with an inverted range, one with an unusable bound, one
\* without a title.
Element(ref, essential, low, high) ==
  [reference |-> ref, essential |-> essential, low |-> low, high |-> high]
Elements == {Element(ref1, TRUE, 1, 2), Element(ref2, TRUE, 2, 1), Element(ref2, TRUE, 1, 3),
             Element(ref1, FALSE, -1, -1)}

\* Every short feed, one too long to be extracted and one too long to download.
Published ==
  [jobs : UNION {[1 .. n -> Elements] : n \in 0 .. 2},
   archive : {"sound", "malformed", "unusable"}]
  \cup [jobs : {[i \in 1 .. n |-> Element(ref1, TRUE, 1, 2)] : n \in 3 .. 4},
        archive : {"sound"}]

\* Elements that vary one group of fields, each with every value.
Plain ==
  [title |-> "title", says |-> {}, text |-> {}, employment |-> "none", currency |-> "none",
   low |-> -1, high |-> -1, logo |-> "none", apply |-> "url", price |-> -1,
   priced |-> "none", unmapped |-> "none"]
Currencies == {"none", "blank", "code", "named", "unclear"}
Amounts == {-2, -1, 1, 2}

\* Every pair of words of a title.
TitleWords ==
  {{u, w} : u, w \in {"remote", "hybrid", "onsite", "on-site", "work from home", "in-office",
                      "senior", "junior", "entry level", "principal", "lead"}}
Varied ==
  {[Plain EXCEPT !.low = l, !.high = h, !.currency = c] : l, h \in Amounts, c \in Currencies}
  \cup {[Plain EXCEPT !.price = p, !.priced = c] : p \in Amounts, c \in Currencies}
  \cup {[Plain EXCEPT !.title = t, !.logo = g, !.apply = a] :
          t \in {"none", "blank", "title"}, g \in {"none", "blank", "url", "broken"},
          a \in {"none", "blank", "url", "lenient", "broken"}}
  \cup {[Plain EXCEPT !.says = s, !.text = t] : s \in TitleWords \cup {{}}, t \in {{}, {"hybrid", "onsite"}}}
  \cup {[Plain EXCEPT !.unmapped = x] : x \in {"blank", "extra"}}
  \cup {[Plain EXCEPT !.employment = t] :
          t \in {"blank", "permanent", "part time", "freelance", "seasonal", "intern", "any",
                 "unheard"}}

\* All jobs are one provider's.
OneOwner == [j \in Linkable |-> 1]

Member == INSTANCE Members WITH Jobs <- Postings, job <- posting
Intake == INSTANCE FeedIntake WITH Snapshots <- Published
Links == INSTANCE AffiliateLinks WITH
  Jobs <- Linkable, Providers <- Owners, job <- linked,
  BatchSize <- LinkBatch, SliceSize <- LinkSlice
Administration == INSTANCE ProviderAdmin WITH
  Providers <- Named, Existing <- {b1}, request <- asked
History == INSTANCE RunHistory WITH MaxRuns <- MaxListed
Accounts == INSTANCE AdminAccounts WITH
  Emails <- Addresses, Requests <- SignIns, request <- signIn
Record == INSTANCE FeedRecord WITH Elements <- Varied

ASSUME MembersAreAsAssumed == Member!MembersAssumption
ASSUME IntakeIsAsAssumed == Intake!IntakeAssumption
ASSUME LinksAreAsAssumed == Links!LinksAssumption
ASSUME AdministrationIsAsAssumed == Administration!AdminAssumption
ASSUME AccountsAreAsAssumed == Accounts!AccountsAssumption
ASSUME RecordIsAsAssumed == Record!RecordAssumption
ASSUME HistoryIsAsAssumed == History!HistoryAssumption

MemberVars == <<user, posting, saved, request, kept, renamed>>
IntakeVars == <<run, task, files>>
LinkVars == <<linked, link, writer, listed, gap>>
AdminVars == <<provider, audit, lastId, sent, asked, made>>
HistoryVars == <<status, walk>>
AccountVars == <<account, chosen, session, signIn, command>>
RecordVars == <<row, latest, flagged>>
AllVars == <<part, vars, MemberVars, IntakeVars, LinkVars, AdminVars, HistoryVars, AccountVars,
             RecordVars>>

MCInit ==
  /\ part \in {"paging", "members", "intake", "links", "providers", "history", "accounts", "record"}
  /\ Init /\ Member!Init /\ Intake!Init /\ Links!Init /\ Administration!Init
  /\ History!Init /\ Accounts!Init /\ Record!Init

MCNext ==
  \/ part = "paging" /\ Next
     /\ UNCHANGED <<part, MemberVars, IntakeVars, LinkVars, AdminVars, HistoryVars, AccountVars, RecordVars>>
  \/ part = "members" /\ Member!Next
     /\ UNCHANGED <<part, vars, IntakeVars, LinkVars, AdminVars, HistoryVars, AccountVars, RecordVars>>
  \/ part = "intake" /\ Intake!Next
     /\ UNCHANGED <<part, vars, MemberVars, LinkVars, AdminVars, HistoryVars, AccountVars, RecordVars>>
  \/ part = "links" /\ Links!Next
     /\ UNCHANGED <<part, vars, MemberVars, IntakeVars, AdminVars, HistoryVars, AccountVars, RecordVars>>
  \/ part = "providers" /\ Administration!Next
     /\ UNCHANGED <<part, vars, MemberVars, IntakeVars, LinkVars, HistoryVars, AccountVars, RecordVars>>
  \/ part = "history" /\ History!Next
     /\ UNCHANGED <<part, vars, MemberVars, IntakeVars, LinkVars, AdminVars, AccountVars, RecordVars>>
  \/ part = "accounts" /\ Accounts!Next
     /\ UNCHANGED <<part, vars, MemberVars, IntakeVars, LinkVars, AdminVars, HistoryVars, RecordVars>>
  \/ part = "record" /\ Record!Next
     /\ UNCHANGED <<part, vars, MemberVars, IntakeVars, LinkVars, AdminVars, HistoryVars, AccountVars>>

MCSpec == MCInit /\ [][MCNext]_AllVars

\* Types of every part, what owns what in them, and the limits they keep.
\* A part that does not move is as it was in the first state.
PartsTypeOK ==
  /\ part = "paging" => TypeOK
  /\ part = "members" => Member!TypeOK
  /\ part = "intake" => Intake!TypeOK
  /\ part = "links" => Links!TypeOK
  /\ part = "providers" => Administration!TypeOK
  /\ part = "history" => History!TypeOK
  /\ part = "accounts" => Accounts!TypeOK
  /\ part = "record" => Record!TypeOK

\* Of callbacks that insert one account at the same time, each ends right.
RefusedInsertsResolved == part = "members" => Member!RefusedInsertsResolved

\* Saving twice at the same time does not fail.
SavesFailOnlyIfUndone == part = "members" => Member!SavesFailOnlyIfUndone

\* What a member was answered to be stored stays until it is undone.
AnsweredEditsKept == part = "members" => Member!AnsweredEditsKept

\* What is staged is one whole snapshot.
StagedIsOneSnapshot == part = "intake" => Intake!StagedIsOneSnapshot

\* A run's counts are those of its feed, and its task leaves no files.
TasksEndClean == part = "intake" => Intake!TasksEndClean

\* No record but a repeated one makes the whole feed fail.
OnlyRepeatsRefused == part = "intake" => Intake!OnlyRepeatsRefused

\* A download that was cut off can be retried.
CutOffIsTransient == part = "intake" => Intake!CutOffIsTransient

\* Every job an administrator confirms is answered with a link that leads to it.
ConfirmedJobsHaveLinks == part = "links" => Links!ConfirmedJobsHaveLinks

\* A backfill that ends well leaves no job of its providers without a link.
BackfillLeavesNoGap == part = "links" => Links!BackfillLeavesNoGap

\* The audit trail of the providers tells what happened to them.
AuditTrailTrue == part = "providers" => Administration!AuditTrailTrue

\* Paging through the history of imports by offset misses no run.
WalkMissesNoRun == part = "history" => History!WalkMissesNoRun

\* A password that was reset stays so, and ends the sessions before it.
ResetsHold == part = "accounts" => Accounts!ResetsHold

\* What is stored and shown of a job is what its feed says.
RecordsFaithful == part = "record" => Record!RecordsFaithful
=============================================================================
