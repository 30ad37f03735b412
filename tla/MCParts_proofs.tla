---------------------------- MODULE MCParts_proofs ----------------------------
(***************************************************************************)
(* Proofs about the parts of MCParts, for every value of their constants:  *)
(* the accounts of administrators, the intake of a feed, the affiliate     *)
(* links, the record of a job, the history of imports, the requests about  *)
(* providers with their audit trail; from Members_proofs and               *)
(* PublicJobs_proofs, the members and the paging; and the types of all.    *)
(***************************************************************************)
EXTENDS MCParts, PublicJobs_proofs

\* A part moves by its own steps, or does not move.
LEMMA PartsMove ==
  ASSUME [MCNext]_AllVars
  PROVE  /\ Member!Next \/ UNCHANGED MemberVars
         /\ Intake!Next \/ UNCHANGED IntakeVars
         /\ Accounts!Next \/ UNCHANGED AccountVars
BY DEF MCNext, AllVars

-----------------------------------------------------------------------------
(***************************************************************************)
(* Members: what is proved of them holds here.                             *)
(***************************************************************************)

Proved == INSTANCE Members_proofs WITH Jobs <- Postings, job <- posting

LEMMA MembersAgree ==
  /\ MCInit => Proved!Init
  /\ Member!Next => Proved!Next
<1>1. MCInit => Proved!Init
  BY DEF MCInit, Member!Init, Proved!Init, Member!Idle, Proved!Idle, Member!Someone,
     Proved!Someone, Member!SomeMail, Proved!SomeMail, Member!SomeJob, Proved!SomeJob
<1>2. Member!Next => Proved!Next
  BY DEF Member!Next, Proved!Next, Member!SignIn, Proved!SignIn, Member!SavedJobs,
     Proved!SavedJobs, Member!Callback, Proved!Callback, Member!FindIdentity,
     Proved!FindIdentity, Member!FindEmail, Proved!FindEmail, Member!CreateUser,
     Proved!CreateUser, Member!CommitUser, Proved!CommitUser, Member!Rename,
     Proved!Rename, Member!Ask, Proved!Ask, Member!CheckActive, Proved!CheckActive,
     Member!InsertSaved, Proved!InsertSaved, Member!FindExisting, Proved!FindExisting,
     Member!CommitSaved, Proved!CommitSaved, Member!Unsave, Proved!Unsave,
     Member!Sweep, Proved!Sweep, Member!HardDelete, Proved!HardDelete, Member!Leave,
     Proved!Leave, Member!Known, Proved!Known, Member!Taken, Proved!Taken, Member!Goto,
     Proved!Goto, Member!Answer, Proved!Answer, Member!tables, Proved!tables,
     Member!Rivals, Proved!Rivals, Member!Pair, Proved!Pair, Member!Undo, Proved!Undo,
     Member!Crossed, Proved!Crossed, Member!Idle, Proved!Idle, Member!Someone,
     Proved!Someone, Member!SomeMail, Proved!SomeMail, Member!SomeJob, Proved!SomeJob,
     Member!Bookmark, Proved!Bookmark
<1> QED
  BY <1>1, <1>2

LEMMA MembersInv ==
  MCSpec => []Proved!IInv
<1>1. Proved!MembersAssumption
  BY MembersAreAsAssumed DEF Member!MembersAssumption, Proved!MembersAssumption
<1>2. MCInit => Proved!IInv
  BY <1>1, MembersAgree, Proved!InitHolds
<1>3. Proved!IInv /\ [MCNext]_AllVars => Proved!IInv'
  <2>1. [MCNext]_AllVars => [Proved!Next]_Proved!vars
    BY PartsMove, MembersAgree DEF MemberVars, Proved!vars
  <2> QED
    BY <1>1, <2>1, Proved!NextKeeps
<1> QED
  BY <1>2, <1>3, PTL DEF MCSpec

\* An insert of an account that another callback got ahead of ends with that
\* account or with the other identity that holds the address
\* (app/services/auth/google_oauth_service.py, get_or_create_user).
THEOREM RefusalsEndRight ==
  MCSpec => []RefusedInsertsResolved
<1>1. Proved!IInv => RefusedInsertsResolved
  BY Proved!Consequences
  DEF RefusedInsertsResolved, Member!RefusedInsertsResolved, Proved!RefusedInsertsResolved,
      Member!Known, Proved!Known, Member!Other, Proved!Other
<1> QED
  BY <1>1, MembersInv, PTL

\* Saving a job that is saved already, at the same time or before, is no error
\* (app/db/saved_job_repositories.py, save_job).
THEOREM SavingTwiceWorks ==
  MCSpec => []SavesFailOnlyIfUndone
<1>1. Proved!IInv => SavesFailOnlyIfUndone
  BY Proved!Consequences
  DEF SavesFailOnlyIfUndone, Member!SavesFailOnlyIfUndone, Proved!SavesFailOnlyIfUndone
<1> QED
  BY <1>1, MembersInv, PTL

\* What a member was told is stored stays until he, or the deletion of the job,
\* undoes it.
THEOREM AnswersAreKept ==
  MCSpec => []AnsweredEditsKept
<1>1. Proved!IInv => AnsweredEditsKept
  BY Proved!Consequences
  DEF AnsweredEditsKept, Member!AnsweredEditsKept, Proved!AnsweredEditsKept,
      Member!Listed, Proved!Listed
<1> QED
  BY <1>1, MembersInv, PTL

-----------------------------------------------------------------------------
(***************************************************************************)
(* Accounts of administrators.                                             *)
(***************************************************************************)

AccountsTyped ==
  /\ account \subseteq Accounts!Account
  /\ \A a, b \in account : a.email = b.email => a = b
  /\ chosen \in [Addresses -> SUBSET Accounts!Last]
  /\ session \in [SignIns -> Accounts!Tokens]
  /\ signIn \in [SignIns -> Accounts!Request]
  /\ command \in [Commands -> Accounts!Command]

\* A sign-in to an account has checked the password in force, or the reset that
\* set this one has crossed it.
Standing(r) ==
  /\ Accounts!Of(r.email) # {}
  /\ \/ \E a \in Accounts!Of(r.email) : a.password = r.password
     \/ \E l \in chosen[r.email] : l.by \in r.crossed

\* So has every sign-in that has checked a password or opened a session with it.
ChecksStand ==
  \A q \in SignIns :
    /\ session[q] # "none" => signIn[q].pc = "answered"
    /\ signIn[q].pc \in {"login", "issue"} \/ Accounts!Open(q) => Standing(signIn[q])

\* A reset whose UPDATE has begun misses only sessions that it has crossed, and
\* revokes only tokens that were issued.
Reaches(c, r) == r.email = command[c].email /\ c \notin r.crossed

ResetsReach ==
  \A c \in Commands :
    /\ command[c].matched # {} => command[c].pc = "update"
    /\ \A q \in command[c].revoking : session[q] # "none"
    /\ command[c].pc \in {"update", "commit"} =>
         \A q \in SignIns :
           Accounts!Open(q) /\ Reaches(c, signIn[q]) =>
             q \in command[c].matched \cup command[c].revoking

AccountsInv ==
  AccountsTyped /\ Accounts!LastPasswordStands /\ ChecksStand /\ ResetsReach

LEMMA AccountsInit ==
  ASSUME Accounts!Init
  PROVE  AccountsInv
<1>1. Accounts!SomeEmail \in Addresses /\ Accounts!SomePassword \in Passwords
  BY AccountsAreAsAssumed DEF Accounts!AccountsAssumption, Accounts!SomeEmail,
     Accounts!SomePassword
<1>2. AccountsTyped
  BY <1>1 DEF Accounts!Init, AccountsTyped, Accounts!Request, Accounts!Command, Accounts!Tokens
<1>3. Accounts!LastPasswordStands /\ ChecksStand /\ ResetsReach
  BY DEF Accounts!Init, Accounts!LastPasswordStands, ChecksStand, ResetsReach, Accounts!Open
<1> QED
  BY <1>2, <1>3 DEF AccountsInv

\* A step of one sign-in that leaves accounts and commands alone.
LEMMA SignInStep ==
  ASSUME AccountsInv, NEW q \in SignIns, NEW r \in Accounts!Request,
         signIn' = [signIn EXCEPT ![q] = r], UNCHANGED <<account, chosen, command>>,
         session' \in [SignIns -> Accounts!Tokens],
         \A p \in SignIns \ {q} : session'[p] = session[p],
         session'[q] # "none" => r.pc = "answered",
         session'[q] = "none" => session[q] = "none",
         r.pc \in {"login", "issue"} \/ session'[q] \in {"live", "rotating"} => Standing(r),
         session'[q] \in {"live", "rotating"} =>
           \A c \in Commands :
             command[c].pc \in {"update", "commit"} /\ Reaches(c, r) =>
               q \in command[c].matched \cup command[c].revoking
  PROVE  AccountsInv'
<1>1. AccountsTyped /\ Accounts!LastPasswordStands /\ ChecksStand /\ ResetsReach
  BY DEF AccountsInv
<1>2. \A p \in SignIns : signIn'[p] = IF p = q THEN r ELSE signIn[p]
  BY <1>1 DEF AccountsTyped
<1>3. AccountsTyped'
  BY <1>1 DEF AccountsTyped
<1>4. Accounts!LastPasswordStands'
  BY <1>1 DEF Accounts!LastPasswordStands
<1>5. ChecksStand'
  <2>1. \A s : Standing(s)' <=> Standing(s)
    BY DEF Standing, Accounts!Of
  <2>2. ASSUME NEW p \in SignIns
        PROVE  /\ session'[p] # "none" => signIn'[p].pc = "answered"
               /\ signIn'[p].pc \in {"login", "issue"} \/ session'[p] \in {"live", "rotating"} =>
                    Standing(signIn'[p])
    <3>1. CASE p = q
      BY <3>1, <1>2
    <3>2. CASE p # q
      BY <3>2, <1>1, <1>2 DEF ChecksStand, Accounts!Open
    <3> QED
      BY <3>1, <3>2
  <2>3. \A p \in SignIns : Standing(signIn[p])' <=> Standing(signIn'[p])
    BY DEF Standing, Accounts!Of
  <2> QED
    BY <2>2, <2>3 DEF ChecksStand, Accounts!Open
<1>6. ResetsReach'
  <2>1. \A c \in Commands : \A p \in command[c].revoking : session'[p] # "none"
    <3>1. \A c \in Commands : command[c].revoking \subseteq SignIns
      BY <1>1 DEF AccountsTyped, Accounts!Command
    <3> QED
      BY <3>1, <1>1 DEF ResetsReach
  <2>2. ASSUME NEW c \in Commands, command[c].pc \in {"update", "commit"}, NEW p \in SignIns,
               session'[p] \in {"live", "rotating"}, Reaches(c, signIn'[p])
        PROVE  p \in command[c].matched \cup command[c].revoking
    <3>1. CASE p = q
      BY <3>1, <2>2, <1>2
    <3>2. CASE p # q
      BY <3>2, <2>2, <1>1, <1>2 DEF ResetsReach, Accounts!Open
    <3> QED
      BY <3>1, <3>2
  <2>3. \A c \in Commands, p \in SignIns : Reaches(c, signIn[p])' <=> Reaches(c, signIn'[p])
    BY DEF Reaches
  <2>4. \A c \in Commands : command[c].matched # {} => command[c].pc = "update"
    BY <1>1 DEF ResetsReach
  <2>5. \A c \in Commands : command'[c] = command[c]
    OBVIOUS
  <2> QED
    BY <2>1, <2>2, <2>3, <2>4, <2>5 DEF ResetsReach, Accounts!Open
<1> QED
  BY <1>3, <1>4, <1>5, <1>6 DEF AccountsInv

LEMMA SignInKeeps ==
  ASSUME AccountsInv, NEW q \in SignIns, NEW e \in Addresses, NEW p \in Passwords,
         Accounts!SignIn(q, e, p)
  PROVE  AccountsInv'
<1> DEFINE r == [signIn[q] EXCEPT !.pc = "lookup", !.email = e, !.password = p]
<1>1. /\ signIn[q] \in Accounts!Request /\ signIn[q].pc = "idle"
      /\ session \in [SignIns -> Accounts!Tokens] /\ session[q] = "none"
  BY DEF AccountsInv, AccountsTyped, ChecksStand, Accounts!SignIn
<1>2. r \in Accounts!Request /\ r.pc = "lookup"
  BY <1>1 DEF Accounts!Request
<1>3. signIn' = [signIn EXCEPT ![q] = r] /\ UNCHANGED <<account, chosen, session, command>>
  BY DEF Accounts!SignIn
<1> HIDE DEF r
<1> QED
  BY <1>1, <1>2, <1>3, SignInStep

LEMMA LookupKeeps ==
  ASSUME AccountsInv, NEW q \in SignIns, Accounts!Lookup(q)
  PROVE  AccountsInv'
<1> DEFINE t == signIn[q]
           found == Accounts!Of(t.email)
           in == [t EXCEPT !.pc = "login", !.loaded = found]
           out == [t EXCEPT !.pc = "answered", !.outcome = "refused"]
<1>1. /\ t \in Accounts!Request /\ t.pc = "lookup"
      /\ session \in [SignIns -> Accounts!Tokens] /\ session[q] = "none"
      /\ found \in SUBSET Accounts!Account
      /\ UNCHANGED <<account, chosen, session, command>>
  BY DEF AccountsInv, AccountsTyped, ChecksStand, Accounts!Lookup, Accounts!Of
<1>2. /\ in \in Accounts!Request /\ in.pc = "login" /\ in.email = t.email
      /\ in.password = t.password
      /\ out \in Accounts!Request /\ out.pc = "answered"
  BY <1>1 DEF Accounts!Request
<1>3. CASE \E a \in found : a.active /\ a.password = t.password
  <2>1. signIn' = [signIn EXCEPT ![q] = in]
    BY <1>3 DEF Accounts!Lookup
  <2>2. Standing(in)
    BY <1>2, <1>3 DEF Accounts!Of, Standing
  <2>3. session'[q] = "none" /\ \A p \in SignIns : session'[p] = session[p]
    BY <1>1
  <2>4. session' \in [SignIns -> Accounts!Tokens]
    BY <1>1
  <2> HIDE DEF in, t, found
  <2> QED
    BY <2>1, <2>2, <2>3, <2>4, <1>1, <1>2, SignInStep
<1>4. CASE ~ \E a \in found : a.active /\ a.password = t.password
  <2>1. signIn' = [signIn EXCEPT ![q] = out]
    BY <1>4 DEF Accounts!Lookup, Accounts!Answer
  <2> HIDE DEF out, t
  <2> QED
    BY <2>1, <1>1, <1>2, SignInStep
<1> QED
  BY <1>3, <1>4

LEMMA IssueTokenKeeps ==
  ASSUME AccountsInv, NEW q \in SignIns, Accounts!IssueToken(q)
  PROVE  AccountsInv'
<1> DEFINE t == signIn[q]
           x == t.crossed \cup Accounts!Unseen(t.email)
           r == [t EXCEPT !.pc = "answered", !.outcome = "in", !.crossed = x]
<1>1. /\ t \in Accounts!Request /\ t.pc = "issue" /\ t.crossed \in SUBSET Commands
      /\ session \in [SignIns -> Accounts!Tokens]
      /\ Standing(t)
  BY DEF AccountsInv, AccountsTyped, ChecksStand, Accounts!IssueToken, Accounts!Request
<1>2. x \in SUBSET Commands
  BY <1>1 DEF Accounts!Unseen
<1>3. /\ session' = [session EXCEPT ![q] = "live"] /\ UNCHANGED <<account, chosen, command>>
      /\ signIn' = [signIn EXCEPT ![q] = r]
  BY DEF Accounts!IssueToken
<1>4. /\ t.crossed \subseteq x
      /\ \A c \in Commands :
           command[c].pc \in {"update", "commit"} /\ command[c].email = t.email => c \in x
  BY DEF Accounts!Unseen
<1> HIDE DEF x
<1>5. /\ r \in Accounts!Request /\ r.pc = "answered" /\ r.email = t.email
      /\ r.password = t.password /\ r.crossed = x
  BY <1>1, <1>2 DEF Accounts!Request
<1> HIDE DEF r
<1>6. /\ session' \in [SignIns -> Accounts!Tokens]
      /\ session'[q] # "none" /\ \A p \in SignIns \ {q} : session'[p] = session[p]
  BY <1>1, <1>3 DEF Accounts!Tokens
<1>7. Standing(r)
  BY <1>1, <1>4, <1>5 DEF Standing
<1>8. \A c \in Commands : command[c].pc \in {"update", "commit"} => ~Reaches(c, r)
  BY <1>4, <1>5 DEF Reaches
<1>9. UNCHANGED <<account, chosen, command>> /\ signIn' = [signIn EXCEPT ![q] = r]
  BY <1>3
<1> HIDE DEF t
<1> QED
  BY <1>5, <1>6, <1>7, <1>8, <1>9, SignInStep

\* A step of the rotation of a session's token leaves it open.
LEMMA RotationKeeps ==
  ASSUME AccountsInv, NEW q \in SignIns,
         Accounts!BeginRotation(q) \/ Accounts!RotationFails(q)
  PROVE  AccountsInv'
<1> DEFINE t == signIn[q]
<1>1. /\ AccountsTyped /\ ChecksStand /\ ResetsReach
      /\ session[q] \in {"live", "rotating"}
      /\ \E x \in {"live", "rotating"} : session' = [session EXCEPT ![q] = x]
      /\ UNCHANGED <<account, chosen, signIn, command>>
  BY DEF AccountsInv, Accounts!BeginRotation, Accounts!RotationFails
<1>2. /\ session' \in [SignIns -> Accounts!Tokens] /\ session'[q] \in {"live", "rotating"}
      /\ \A p \in SignIns \ {q} : session'[p] = session[p]
  BY <1>1 DEF AccountsTyped, Accounts!Tokens
<1>3. t \in Accounts!Request /\ signIn' = [signIn EXCEPT ![q] = t]
  BY <1>1 DEF AccountsTyped
<1>4. t.pc = "answered" /\ Standing(t)
  BY <1>1 DEF ChecksStand, Accounts!Open
<1>5. \A c \in Commands :
        command[c].pc \in {"update", "commit"} /\ Reaches(c, t) =>
          q \in command[c].matched \cup command[c].revoking
  BY <1>1 DEF ResetsReach, Accounts!Open
<1>6. UNCHANGED <<account, chosen, command>> /\ session'[q] # "none"
  BY <1>1, <1>2
<1> HIDE DEF t
<1> QED
  BY <1>2, <1>3, <1>4, <1>5, <1>6, SignInStep

\* The successor is none of the rows that an UPDATE under way has matched.
LEMMA CommitRotationKeeps ==
  ASSUME AccountsInv, NEW q \in SignIns, Accounts!CommitRotation(q)
  PROVE  AccountsInv'
<1> DEFINE t == signIn[q]
           x == t.crossed \cup {c \in Commands : q \in command[c].matched}
           r == [t EXCEPT !.crossed = x]
           after(d) == [d EXCEPT !.matched = @ \ {q}]
<1>1. /\ AccountsTyped /\ Accounts!LastPasswordStands /\ ChecksStand /\ ResetsReach
      /\ t \in Accounts!Request /\ t.crossed \in SUBSET Commands
  BY DEF AccountsInv, AccountsTyped, Accounts!Request
<1>2. /\ session[q] = "rotating" /\ session' = [session EXCEPT ![q] = "live"]
      /\ signIn' = [signIn EXCEPT ![q] = r]
      /\ command' = [c \in Commands |-> after(command[c])]
      /\ UNCHANGED <<account, chosen>>
  BY DEF Accounts!CommitRotation
<1>3. /\ x \in SUBSET Commands /\ t.crossed \subseteq x
      /\ \A c \in Commands : q \in command[c].matched => c \in x
  BY <1>1
<1> HIDE DEF x
<1>4. /\ r \in Accounts!Request /\ r.pc = t.pc /\ r.email = t.email
      /\ r.password = t.password /\ r.crossed = x
  BY <1>1, <1>3 DEF Accounts!Request
<1> HIDE DEF r
<1>5. \A d \in Accounts!Command :
        /\ after(d) \in Accounts!Command /\ after(d).pc = d.pc /\ after(d).email = d.email
        /\ after(d).matched = d.matched \ {q} /\ after(d).revoking = d.revoking
  BY DEF Accounts!Command
<1>6. \A c \in Commands : command[c] \in Accounts!Command /\ command[c].revoking \subseteq SignIns
  BY <1>1 DEF AccountsTyped, Accounts!Command
<1> HIDE DEF after
<1>7. \A c \in Commands :
        /\ command'[c] \in Accounts!Command /\ command'[c].pc = command[c].pc
        /\ command'[c].email = command[c].email
        /\ command'[c].matched = command[c].matched \ {q}
        /\ command'[c].revoking = command[c].revoking
  BY <1>2, <1>5, <1>6
<1>8. \A p \in SignIns : /\ signIn'[p] = IF p = q THEN r ELSE signIn[p]
                         /\ session'[p] = IF p = q THEN "live" ELSE session[p]
  BY <1>1, <1>2 DEF AccountsTyped
<1>9. AccountsTyped'
  <2>1. session' \in [SignIns -> Accounts!Tokens]
    BY <1>1, <1>2 DEF AccountsTyped, Accounts!Tokens
  <2>2. signIn' \in [SignIns -> Accounts!Request]
    BY <1>1, <1>2, <1>4 DEF AccountsTyped
  <2>3. command' \in [Commands -> Accounts!Command]
    BY <1>2, <1>5, <1>6
  <2> QED
    BY <2>1, <2>2, <2>3, <1>1, <1>2 DEF AccountsTyped
<1>10. Accounts!LastPasswordStands'
  BY <1>1, <1>2 DEF Accounts!LastPasswordStands
<1>11. ChecksStand'
  <2>1. \A s : Standing(s)' <=> Standing(s)
    BY <1>2 DEF Standing, Accounts!Of
  <2>2. Standing(t) /\ t.pc = "answered"
    BY <1>1, <1>2 DEF ChecksStand, Accounts!Open
  <2>3. Standing(r)
    BY <2>2, <1>3, <1>4 DEF Standing
  <2>4. ASSUME NEW p \in SignIns
        PROVE  /\ session'[p] # "none" => signIn'[p].pc = "answered"
               /\ signIn'[p].pc \in {"login", "issue"} \/ session'[p] \in {"live", "rotating"} =>
                    Standing(signIn'[p])
    <3>1. CASE p = q
      BY <3>1, <2>2, <2>3, <1>4, <1>8
    <3>2. CASE p # q
      BY <3>2, <1>1, <1>8 DEF ChecksStand, Accounts!Open
    <3> QED
      BY <3>1, <3>2
  <2>5. \A p \in SignIns : Standing(signIn[p])' <=> Standing(signIn'[p])
    BY <1>2 DEF Standing, Accounts!Of
  <2> QED
    BY <2>4, <2>5 DEF ChecksStand, Accounts!Open
<1>12. ResetsReach'
  <2>1. \A c \in Commands : command'[c].matched # {} => command'[c].pc = "update"
    BY <1>1, <1>7 DEF ResetsReach
  <2>2. \A c \in Commands : \A p \in command'[c].revoking : session'[p] # "none"
    BY <1>1, <1>6, <1>7, <1>8 DEF ResetsReach
  <2>3. ASSUME NEW c \in Commands, command'[c].pc \in {"update", "commit"}, NEW p \in SignIns,
               session'[p] \in {"live", "rotating"}, signIn'[p].email = command'[c].email,
               c \notin signIn'[p].crossed
        PROVE  p \in command'[c].matched \cup command'[c].revoking
    <3>1. command[c].pc \in {"update", "commit"} /\ signIn'[p].email = command[c].email
      BY <2>3, <1>7
    <3>2. CASE p = q
      <4>1. signIn'[p] = r /\ c \notin t.crossed /\ q \notin command[c].matched
        BY <3>2, <2>3, <1>3, <1>4, <1>8
      <4>2. Reaches(c, t)
        BY <4>1, <3>1, <1>4 DEF Reaches
      <4>3. q \in command[c].matched \cup command[c].revoking
        BY <4>2, <3>1, <1>1, <1>2 DEF ResetsReach, Accounts!Open
      <4> QED
        BY <4>1, <4>3, <3>2, <1>7
    <3>3. CASE p # q
      <4>1. signIn'[p] = signIn[p] /\ session'[p] = session[p]
        BY <3>3, <1>8
      <4>2. Reaches(c, signIn[p]) /\ Accounts!Open(p)
        BY <4>1, <3>1, <2>3 DEF Reaches, Accounts!Open
      <4>3. p \in command[c].matched \cup command[c].revoking
        BY <4>2, <3>1, <1>1 DEF ResetsReach
      <4> QED
        BY <4>3, <3>3, <1>7
    <3> QED
      BY <3>2, <3>3
  <2> QED
    BY <2>1, <2>2, <2>3 DEF ResetsReach, Reaches, Accounts!Open
<1> QED
  BY <1>9, <1>10, <1>11, <1>12 DEF AccountsInv

LEMMA FailKeeps ==
  ASSUME AccountsInv, NEW q \in SignIns, Accounts!Fail(q)
  PROVE  AccountsInv'
<1> DEFINE t == signIn[q]
           r == [t EXCEPT !.pc = "answered", !.outcome = "error"]
<1>1. /\ t \in Accounts!Request /\ t.pc \in {"lookup", "login", "issue"}
      /\ session \in [SignIns -> Accounts!Tokens] /\ session[q] = "none"
  BY DEF AccountsInv, AccountsTyped, ChecksStand, Accounts!Fail
<1>2. r \in Accounts!Request /\ r.pc = "answered"
  BY <1>1 DEF Accounts!Request
<1>3. signIn' = [signIn EXCEPT ![q] = r] /\ UNCHANGED <<account, chosen, session, command>>
  BY DEF Accounts!Fail, Accounts!Answer
<1> HIDE DEF r, t
<1> QED
  BY <1>1, <1>2, <1>3, SignInStep

\* A step that rewrites rows of one address and leaves passwords alone.
LEMMA RowsStep ==
  ASSUME AccountsInv, NEW e \in Addresses, NEW rows \in SUBSET Accounts!Account,
         account' = (account \ Accounts!Of(e)) \cup rows,
         \A a \in rows : a.email = e,
         \A a, b \in rows : a = b,
         \A a \in rows : \E b \in Accounts!Of(e) : a.password = b.password,
         \A b \in Accounts!Of(e) : \E a \in rows : a.password = b.password,
         UNCHANGED <<chosen, session, command>>,
         signIn' \in [SignIns -> Accounts!Request],
         \A q \in SignIns :
           /\ signIn'[q].email = signIn[q].email /\ signIn'[q].password = signIn[q].password
           /\ signIn'[q].crossed = signIn[q].crossed
           /\ \/ signIn'[q].pc = signIn[q].pc
              \/ signIn[q].pc = "login" /\ signIn'[q].pc = "issue"
  PROVE  AccountsInv'
<1>1. AccountsTyped /\ Accounts!LastPasswordStands /\ ChecksStand /\ ResetsReach
  BY DEF AccountsInv
<1>2. \A a \in account' : IF a.email = e THEN a \in rows ELSE a \in account
  BY DEF Accounts!Of
<1>3. AccountsTyped'
  <2>1. account' \subseteq Accounts!Account
    BY <1>1 DEF AccountsTyped
  <2>2. \A a, b \in account' : a.email = b.email => a = b
    BY <1>1, <1>2 DEF AccountsTyped
  <2> QED
    BY <2>1, <2>2, <1>1 DEF AccountsTyped
<1>4. Accounts!LastPasswordStands'
  <2>1. \A a \in rows : {l.password : l \in chosen[e]} = {a.password}
    BY <1>1 DEF Accounts!LastPasswordStands, Accounts!Of
  <2> QED
    BY <2>1, <1>1, <1>2 DEF Accounts!LastPasswordStands
<1>5. ChecksStand'
  <2>1. ASSUME NEW q \in SignIns,
               signIn'[q].pc \in {"login", "issue"} \/ session[q] \in {"live", "rotating"}
        PROVE  /\ \E a \in account' : a.email = signIn'[q].email
               /\ \/ \E a \in account' : /\ a.email = signIn'[q].email
                                         /\ a.password = signIn'[q].password
                  \/ \E l \in chosen[signIn'[q].email] : l.by \in signIn'[q].crossed
    <3>1. Standing(signIn[q])
      BY <2>1, <1>1 DEF ChecksStand, Accounts!Open
    <3>2. ASSUME NEW b \in account, b.email = signIn[q].email
          PROVE  \E a \in account' : /\ a.email = signIn'[q].email /\ a.password = b.password
      <4>1. CASE b.email = e
        <5>1. b \in Accounts!Of(e)
          BY <4>1 DEF Accounts!Of
        <5>2. PICK a \in rows : a.password = b.password
          BY <5>1
        <5> QED
          BY <3>2, <4>1, <5>2
      <4>2. CASE b.email # e
        <5>1. b \in account'
          BY <4>2 DEF Accounts!Of
        <5> QED
          BY <3>2, <5>1
      <4> QED
        BY <4>1, <4>2
    <3>3. \E b \in account : b.email = signIn[q].email
      BY <3>1 DEF Standing, Accounts!Of
    <3>4. \E a \in account' : a.email = signIn'[q].email
      BY <3>2, <3>3
    <3>5. CASE \E l \in chosen[signIn[q].email] : l.by \in signIn[q].crossed
      BY <3>4, <3>5
    <3>6. ASSUME NEW b \in account, b.email = signIn[q].email, b.password = signIn[q].password
          PROVE  \E a \in account' : /\ a.email = signIn'[q].email
                                     /\ a.password = signIn'[q].password
      BY <3>2, <3>6
    <3> QED
      BY <3>1, <3>4, <3>5, <3>6 DEF Standing, Accounts!Of
  <2>2. \A q \in SignIns : session[q] # "none" => signIn'[q].pc = "answered"
    BY <1>1 DEF ChecksStand
  <2> QED
    BY <2>1, <2>2 DEF ChecksStand, Standing, Accounts!Of, Accounts!Open
<1>6. ResetsReach'
  BY <1>1 DEF ResetsReach, Reaches, Accounts!Open
<1> QED
  BY <1>3, <1>4, <1>5, <1>6 DEF AccountsInv

LEMMA RecordLoginKeeps ==
  ASSUME AccountsInv, NEW q \in SignIns, Accounts!RecordLogin(q)
  PROVE  AccountsInv'
<1> DEFINE t == signIn[q]
           e == t.email
           r == [t EXCEPT !.pc = "issue"]
           new(a) == [a EXCEPT !.logins = @ \cup {q}]
           rows == {new(a) : a \in Accounts!Of(e)}
<1>1. /\ AccountsTyped /\ t \in Accounts!Request /\ t.pc = "login" /\ e \in Addresses
  BY DEF AccountsInv, AccountsTyped, Accounts!RecordLogin, Accounts!Request
<1>2. /\ r \in Accounts!Request /\ r.pc = "issue" /\ r.email = t.email
      /\ r.password = t.password /\ r.crossed = t.crossed
  BY <1>1 DEF Accounts!Request
<1>3. /\ account' = (account \ Accounts!Of(e)) \cup rows
      /\ signIn' = [signIn EXCEPT ![q] = r] /\ UNCHANGED <<chosen, session, command>>
  BY DEF Accounts!RecordLogin, Accounts!Goto
<1>4. \A a \in Accounts!Of(e) : /\ new(a) \in Accounts!Account /\ new(a).email = e
                                /\ new(a).password = a.password
  BY <1>1 DEF AccountsTyped, Accounts!Of, Accounts!Account
<1>5. \A a, b \in Accounts!Of(e) : a = b
  BY <1>1 DEF AccountsTyped, Accounts!Of
<1> HIDE DEF r, new
<1>6. /\ rows \in SUBSET Accounts!Account /\ \A a \in rows : a.email = e
      /\ \A a, b \in rows : a = b
      /\ \A a \in rows : \E b \in Accounts!Of(e) : a.password = b.password
      /\ \A b \in Accounts!Of(e) : \E a \in rows : a.password = b.password
  BY <1>4, <1>5
<1>7. /\ signIn' \in [SignIns -> Accounts!Request]
      /\ \A p \in SignIns : signIn'[p] = IF p = q THEN r ELSE signIn[p]
  BY <1>1, <1>2, <1>3 DEF AccountsTyped
<1>8. \A p \in SignIns :
        /\ signIn'[p].email = signIn[p].email /\ signIn'[p].password = signIn[p].password
        /\ signIn'[p].crossed = signIn[p].crossed
        /\ \/ signIn'[p].pc = signIn[p].pc
           \/ signIn[p].pc = "login" /\ signIn'[p].pc = "issue"
  BY <1>1, <1>2, <1>7
<1> HIDE DEF rows, e, t
<1> QED
  BY <1>1, <1>3, <1>6, <1>7, <1>8, RowsStep

LEMMA DisableKeeps ==
  ASSUME AccountsInv, NEW e \in Addresses, Accounts!Disable(e)
  PROVE  AccountsInv'
<1> DEFINE new(a) == [a EXCEPT !.active = FALSE]
           rows == {new(a) : a \in Accounts!Of(e)}
<1>1. AccountsTyped
  BY DEF AccountsInv
<1>2. /\ account' = (account \ Accounts!Of(e)) \cup rows
      /\ UNCHANGED <<chosen, session, signIn, command>>
  BY DEF Accounts!Disable
<1>3. \A a \in Accounts!Of(e) : /\ new(a) \in Accounts!Account /\ new(a).email = e
                                /\ new(a).password = a.password
  BY <1>1 DEF AccountsTyped, Accounts!Of, Accounts!Account
<1>4. \A a, b \in Accounts!Of(e) : a = b
  BY <1>1 DEF AccountsTyped, Accounts!Of
<1> HIDE DEF new
<1>5. /\ rows \in SUBSET Accounts!Account /\ \A a \in rows : a.email = e
      /\ \A a, b \in rows : a = b
      /\ \A a \in rows : \E b \in Accounts!Of(e) : a.password = b.password
      /\ \A b \in Accounts!Of(e) : \E a \in rows : a.password = b.password
  BY <1>3, <1>4
<1>6. signIn' \in [SignIns -> Accounts!Request]
  BY <1>1, <1>2 DEF AccountsTyped
<1> HIDE DEF rows
<1> QED
  BY <1>2, <1>5, <1>6, RowsStep

\* A step of one command that writes no row.
LEMMA CommandStep ==
  ASSUME AccountsInv, NEW c \in Commands, NEW r \in Accounts!Command,
         command' = [command EXCEPT ![c] = r],
         UNCHANGED <<account, chosen, session, signIn>>,
         r.matched # {} => r.pc = "update",
         \A q \in r.revoking : session[q] # "none",
         r.pc \in {"update", "commit"} =>
           \A q \in SignIns :
             Accounts!Open(q) /\ signIn[q].email = r.email /\ c \notin signIn[q].crossed =>
               q \in r.matched \cup r.revoking
  PROVE  AccountsInv'
<1>1. AccountsTyped /\ Accounts!LastPasswordStands /\ ChecksStand /\ ResetsReach
  BY DEF AccountsInv
<1>2. \A d \in Commands : command'[d] = IF d = c THEN r ELSE command[d]
  BY <1>1 DEF AccountsTyped
<1>3. AccountsTyped'
  BY <1>1 DEF AccountsTyped
<1>4. Accounts!LastPasswordStands' /\ ChecksStand'
  BY <1>1 DEF Accounts!LastPasswordStands, ChecksStand, Standing, Accounts!Of, Accounts!Open
<1>5. ResetsReach'
  BY <1>1, <1>2 DEF ResetsReach, Reaches, Accounts!Open
<1> QED
  BY <1>3, <1>4, <1>5 DEF AccountsInv

LEMMA CommandParts ==
  ASSUME AccountsInv, NEW c \in Commands
  PROVE  /\ command[c] \in Accounts!Command /\ command[c].email \in Addresses
         /\ command[c].password \in Passwords
         /\ command[c].matched \in SUBSET SignIns /\ command[c].revoking \in SUBSET SignIns
         /\ command[c].matched # {} => command[c].pc = "update"
         /\ \A q \in command[c].revoking : session[q] # "none"
BY DEF AccountsInv, AccountsTyped, ResetsReach, Accounts!Command

\* Of create_admin and reset_admin_password, what comes before a commit.
LEMMA CommandsProceed ==
  ASSUME AccountsInv, NEW c \in Commands,
         \/ \E e \in Addresses, p \in Passwords :
              Accounts!Create(c, e, p) \/ Accounts!Reset(c, e, p)
         \/ Accounts!CheckExists(c) \/ Accounts!FindAccount(c) \/ Accounts!ResetFails(c)
  PROVE  AccountsInv'
<1> DEFINE t == command[c]
           over == [t EXCEPT !.pc = "ended", !.outcome = "error", !.matched = {}, !.revoking = {}]
<1>1. /\ t \in Accounts!Command /\ (t.matched # {} => t.pc = "update")
      /\ \A q \in t.revoking : session[q] # "none"
  BY CommandParts
<1>2. ASSUME NEW e \in Addresses, NEW p \in Passwords, NEW pc \in {"exists", "find"},
             t.pc = "idle",
             command' = [command EXCEPT ![c].pc = pc, ![c].email = e, ![c].password = p],
             UNCHANGED <<account, chosen, session, signIn>>
      PROVE  AccountsInv'
  <2> DEFINE r == [t EXCEPT !.pc = pc, !.email = e, !.password = p]
  <2>1. /\ r \in Accounts!Command /\ r.pc \notin {"update", "commit"}
        /\ r.matched = t.matched /\ r.revoking = t.revoking
    BY <1>1 DEF Accounts!Command
  <2>2. command' = [command EXCEPT ![c] = r]
    BY <1>2
  <2>3. r.matched = {}
    BY <2>1, <1>1, <1>2
  <2>4. /\ UNCHANGED <<account, chosen, session, signIn>>
        /\ \A q \in r.revoking : session[q] # "none"
    BY <2>1, <1>1, <1>2
  <2> HIDE DEF r, t
  <2> QED
    BY <2>1, <2>2, <2>3, <2>4, CommandStep
<1>3. ASSUME NEW pc \in {"insert", "revoke"}, t.pc \in {"exists", "find"},
             Accounts!Proceed(c, pc), UNCHANGED <<account, chosen, session, signIn>>
      PROVE  AccountsInv'
  <2> DEFINE r == [t EXCEPT !.pc = pc]
  <2>1. /\ r \in Accounts!Command /\ r.pc \notin {"update", "commit"}
        /\ r.matched = t.matched /\ r.revoking = t.revoking
    BY <1>1 DEF Accounts!Command
  <2>2. command' = [command EXCEPT ![c] = r]
    BY <1>3 DEF Accounts!Proceed
  <2>3. r.matched = {}
    BY <2>1, <1>1, <1>3
  <2>4. /\ UNCHANGED <<account, chosen, session, signIn>>
        /\ \A q \in r.revoking : session[q] # "none"
    BY <2>1, <1>1, <1>3
  <2> HIDE DEF r, t
  <2> QED
    BY <2>1, <2>2, <2>3, <2>4, CommandStep
<1>4. ASSUME Accounts!End(c, "error"), UNCHANGED <<account, chosen, session, signIn>>
      PROVE  AccountsInv'
  <2>1. /\ over \in Accounts!Command /\ over.pc = "ended"
        /\ over.matched = {} /\ over.revoking = {}
    BY <1>1 DEF Accounts!Command
  <2>2. command' = [command EXCEPT ![c] = over]
    BY <1>4 DEF Accounts!End
  <2> HIDE DEF over
  <2> QED
    BY <2>1, <2>2, <1>4, CommandStep
<1>5. ASSUME NEW e \in Addresses, NEW p \in Passwords,
             Accounts!Create(c, e, p) \/ Accounts!Reset(c, e, p)
      PROVE  AccountsInv'
  BY <1>2, <1>5 DEF Accounts!Create, Accounts!Reset
<1>6. CASE Accounts!CheckExists(c)
  BY <1>3, <1>4, <1>6 DEF Accounts!CheckExists
<1>7. CASE Accounts!FindAccount(c)
  BY <1>3, <1>4, <1>7 DEF Accounts!FindAccount
<1>8. CASE Accounts!ResetFails(c)
  BY <1>4, <1>8 DEF Accounts!ResetFails
<1> QED
  BY <1>5, <1>6, <1>7, <1>8

\* The UPDATE matches every open session, and drops only those that are over.
LEMMA UpdateKeeps ==
  ASSUME AccountsInv, NEW c \in Commands,
         \/ Accounts!BeginUpdate(c) \/ Accounts!EndUpdate(c)
         \/ \E q \in SignIns : Accounts!LockToken(c, q)
  PROVE  AccountsInv'
<1> DEFINE t == command[c]
<1>1. /\ t \in Accounts!Command /\ (t.matched # {} => t.pc = "update")
      /\ \A q \in t.revoking : session[q] # "none"
      /\ t.matched \in SUBSET SignIns /\ t.revoking \in SUBSET SignIns
  BY CommandParts
<1>2. t.pc = "update" =>
        \A q \in SignIns :
          Accounts!Open(q) /\ signIn[q].email = t.email /\ c \notin signIn[q].crossed =>
            q \in t.matched \cup t.revoking
  BY DEF AccountsInv, ResetsReach, Reaches
<1>3. CASE Accounts!BeginUpdate(c)
  <2> DEFINE open == Accounts!OpenOf(t.email)
             r == [t EXCEPT !.pc = "update", !.matched = open]
  <2>1. open \in SUBSET SignIns
    BY DEF Accounts!OpenOf
  <2>2. \A q \in SignIns : Accounts!Open(q) /\ signIn[q].email = t.email => q \in open
    BY DEF Accounts!OpenOf
  <2>3. /\ command' = [command EXCEPT ![c] = r]
        /\ UNCHANGED <<account, chosen, session, signIn>>
    BY <1>3 DEF Accounts!BeginUpdate
  <2> HIDE DEF open
  <2>4. /\ r \in Accounts!Command /\ r.pc = "update" /\ r.email = t.email
        /\ r.matched = open /\ r.revoking = t.revoking
    BY <1>1, <2>1 DEF Accounts!Command
  <2> HIDE DEF r, t
  <2> QED
    BY <2>2, <2>3, <2>4, <1>1, CommandStep
<1>4. CASE Accounts!EndUpdate(c)
  <2> DEFINE r == [t EXCEPT !.pc = "commit"]
  <2>1. /\ command' = [command EXCEPT ![c] = r] /\ t.pc = "update" /\ t.matched = {}
        /\ UNCHANGED <<account, chosen, session, signIn>>
    BY <1>4 DEF Accounts!EndUpdate, Accounts!Proceed
  <2>2. /\ r \in Accounts!Command /\ r.pc = "commit" /\ r.email = t.email
        /\ r.matched = t.matched /\ r.revoking = t.revoking
    BY <1>1 DEF Accounts!Command
  <2> HIDE DEF r, t
  <2> QED
    BY <2>1, <2>2, <1>1, <1>2, CommandStep
<1>5. ASSUME NEW q \in SignIns, Accounts!LockToken(c, q) PROVE AccountsInv'
  <2> DEFINE locked == IF session[q] = "live" THEN t.revoking \cup {q} ELSE t.revoking
             r == [t EXCEPT !.matched = @ \ {q}, !.revoking = locked]
  <2>1. /\ command' = [command EXCEPT ![c] = r] /\ q \in t.matched /\ session[q] # "rotating"
        /\ UNCHANGED <<account, chosen, session, signIn>>
    BY <1>5 DEF Accounts!LockToken
  <2>2. /\ locked \in SUBSET SignIns /\ t.revoking \subseteq locked
        /\ \A p \in locked : session[p] # "none"
        /\ Accounts!Open(q) => q \in locked
    BY <2>1, <1>1 DEF Accounts!Open
  <2> HIDE DEF locked
  <2>3. /\ r \in Accounts!Command /\ r.pc = t.pc /\ r.email = t.email
        /\ r.matched = t.matched \ {q} /\ r.revoking = locked
    BY <1>1, <2>2 DEF Accounts!Command
  <2> HIDE DEF r, t
  <2>4. t.pc = "update"
    BY <2>1, <1>1
  <2>5. \A p \in SignIns :
          Accounts!Open(p) /\ signIn[p].email = r.email /\ c \notin signIn[p].crossed =>
            p \in r.matched \cup r.revoking
    BY <2>2, <2>3, <2>4, <1>2
  <2> QED
    BY <2>1, <2>2, <2>3, <2>4, <2>5, CommandStep
<1> QED
  BY <1>3, <1>4, <1>5

LEMMA InsertAccountKeeps ==
  ASSUME AccountsInv, NEW c \in Commands, Accounts!InsertAccount(c)
  PROVE  AccountsInv'
<1> DEFINE t == command[c]
           e == t.email
           failed == [t EXCEPT !.pc = "ended", !.outcome = "error", !.matched = {}, !.revoking = {}]
           done == [t EXCEPT !.pc = "ended", !.outcome = "done", !.matched = {}, !.revoking = {}]
           new == Accounts!NewAccount(e, t.password)
           last == [password |-> t.password, by |-> c]
<1>1. /\ AccountsTyped /\ Accounts!LastPasswordStands /\ ChecksStand /\ ResetsReach
      /\ t \in Accounts!Command /\ e \in Addresses /\ t.password \in Passwords
  BY CommandParts DEF AccountsInv
<1>2. /\ failed \in Accounts!Command /\ failed.pc = "ended"
      /\ failed.matched = {} /\ failed.revoking = {}
      /\ done \in Accounts!Command /\ done.pc = "ended"
      /\ done.matched = {} /\ done.revoking = {}
  BY <1>1 DEF Accounts!Command
<1>3. CASE Accounts!Of(e) # {}
  <2>1. /\ command' = [command EXCEPT ![c] = failed]
        /\ UNCHANGED <<account, chosen, session, signIn>>
    BY <1>3 DEF Accounts!InsertAccount, Accounts!End
  <2> HIDE DEF failed
  <2> QED
    BY <2>1, <1>2, CommandStep
<1>4. CASE Accounts!Of(e) = {}
  <2>1. /\ account' = account \cup {new} /\ UNCHANGED <<session, signIn>>
        /\ chosen' = [chosen EXCEPT ![e] = {last}]
        /\ command' = [command EXCEPT ![c] = done]
    BY <1>4 DEF Accounts!InsertAccount, Accounts!End, Accounts!Chosen
  <2>2. new \in Accounts!Account /\ new.email = e /\ new.password = t.password
    BY <1>1 DEF Accounts!NewAccount, Accounts!Account
  <2>3. \A a \in account : a.email # e
    BY <1>4 DEF Accounts!Of
  <2>4. \A d \in Commands : command'[d] = IF d = c THEN done ELSE command[d]
    BY <2>1, <1>1 DEF AccountsTyped
  <2>5. last \in Accounts!Last /\ last.password = t.password
    BY <1>1 DEF Accounts!Last
  <2> HIDE DEF new, done, last
  <2>6. AccountsTyped'
    <3>1. chosen' \in [Addresses -> SUBSET Accounts!Last]
      BY <2>1, <2>5, <1>1 DEF AccountsTyped
    <3> QED
      BY <3>1, <2>1, <2>2, <2>3, <1>1, <1>2 DEF AccountsTyped
  <2>7. Accounts!LastPasswordStands'
    <3>1. {l.password : l \in {last}} = {new.password}
      BY <2>2, <2>5
    <3>2. \A d \in Addresses : chosen'[d] = IF d = e THEN {last} ELSE chosen[d]
      BY <2>1, <1>1 DEF AccountsTyped
    <3>3. \A a \in account : a.email \in Addresses
      BY <1>1 DEF AccountsTyped, Accounts!Account
    <3>4. ASSUME NEW a \in account' PROVE {l.password : l \in chosen'[a.email]} = {a.password}
      <4>1. CASE a = new
        BY <4>1, <3>1, <3>2, <2>2, <1>1
      <4>2. CASE a \in account
        <5>1. chosen'[a.email] = chosen[a.email]
          BY <4>2, <3>2, <3>3, <2>3
        <5> QED
          BY <5>1, <4>2, <1>1 DEF Accounts!LastPasswordStands
      <4> QED
        BY <4>1, <4>2, <2>1
    <3> QED
      BY <3>4 DEF Accounts!LastPasswordStands
  <2>8. ChecksStand'
    <3>1. ASSUME NEW q \in SignIns,
                 signIn[q].pc \in {"login", "issue"} \/ session[q] \in {"live", "rotating"}
          PROVE  /\ \E a \in account' : a.email = signIn[q].email
                 /\ \/ \E a \in account' : /\ a.email = signIn[q].email
                                           /\ a.password = signIn[q].password
                    \/ \E l \in chosen'[signIn[q].email] : l.by \in signIn[q].crossed
      <4>1. Standing(signIn[q])
        BY <3>1, <1>1 DEF ChecksStand, Accounts!Open
      <4>2. signIn[q].email # e /\ signIn[q].email \in Addresses
        BY <4>1, <1>1, <1>4 DEF Standing, AccountsTyped, Accounts!Request
      <4>3. chosen'[signIn[q].email] = chosen[signIn[q].email]
        BY <4>2, <2>1, <1>1 DEF AccountsTyped
      <4> QED
        BY <4>1, <4>3, <2>1 DEF Standing, Accounts!Of
    <3> QED
      BY <3>1, <2>1, <1>1 DEF ChecksStand, Standing, Accounts!Of, Accounts!Open
  <2>9. ResetsReach'
    BY <2>1, <2>4, <1>1, <1>2 DEF ResetsReach, Reaches, Accounts!Open
  <2> QED
    BY <2>6, <2>7, <2>8, <2>9 DEF AccountsInv
<1> QED
  BY <1>3, <1>4

LEMMA CommitResetKeeps ==
  ASSUME AccountsInv, NEW c \in Commands, Accounts!CommitReset(c)
  PROVE  AccountsInv'
<1> DEFINE t == command[c]
           e == t.email
           done == [t EXCEPT !.pc = "ended", !.outcome = "done", !.matched = {}, !.revoking = {}]
           last == [password |-> t.password, by |-> c]
           new(a) == [a EXCEPT !.password = t.password]
           rows == {new(a) : a \in Accounts!Of(e)}
           crossed(q) == IF q \in Accounts!UnderWay(e) THEN signIn[q].crossed \cup {c}
                         ELSE signIn[q].crossed
<1>1. /\ AccountsTyped /\ Accounts!LastPasswordStands /\ ChecksStand /\ ResetsReach
      /\ t \in Accounts!Command /\ e \in Addresses /\ t.password \in Passwords
      /\ t.pc = "commit" /\ t.matched = {} /\ \A q \in t.revoking : session[q] # "none"
  BY CommandParts DEF AccountsInv, Accounts!CommitReset
<1>2. /\ done \in Accounts!Command /\ done.pc = "ended"
      /\ done.matched = {} /\ done.revoking = {}
  BY <1>1 DEF Accounts!Command
<1>3. last \in Accounts!Last /\ last.password = t.password /\ last.by = c
  BY <1>1 DEF Accounts!Last
<1>4. /\ account' = (account \ Accounts!Of(e)) \cup rows
      /\ session' = [q \in SignIns |-> IF q \in t.revoking THEN "revoked" ELSE session[q]]
      /\ signIn' = [q \in SignIns |-> [signIn[q] EXCEPT !.crossed = crossed(q)]]
      /\ chosen' = [chosen EXCEPT ![e] = {last}]
      /\ command' = [command EXCEPT ![c] = done]
  BY DEF Accounts!CommitReset, Accounts!Chosen, Accounts!End
<1>5. \A a \in Accounts!Of(e) : /\ new(a) \in Accounts!Account /\ new(a).email = e
                                /\ new(a).password = t.password
  BY <1>1 DEF AccountsTyped, Accounts!Of, Accounts!Account
<1>6. \A a, b \in Accounts!Of(e) : a = b
  BY <1>1 DEF AccountsTyped, Accounts!Of
<1>7. \A q \in SignIns : /\ crossed(q) \in SUBSET Commands
                         /\ signIn[q].crossed \subseteq crossed(q)
                         /\ q \in Accounts!UnderWay(e) => c \in crossed(q)
  BY <1>1 DEF AccountsTyped, Accounts!Request
<1> HIDE DEF crossed
<1>8. \A q \in SignIns :
        /\ signIn'[q] \in Accounts!Request /\ signIn'[q].crossed = crossed(q)
        /\ signIn'[q].pc = signIn[q].pc /\ signIn'[q].email = signIn[q].email
        /\ signIn'[q].password = signIn[q].password
  BY <1>1, <1>4, <1>7 DEF AccountsTyped, Accounts!Request
<1>9. \A d \in Commands : command'[d] = IF d = c THEN done ELSE command[d]
  BY <1>1, <1>4 DEF AccountsTyped
<1>10. \A d \in Addresses : chosen'[d] = IF d = e THEN {last} ELSE chosen[d]
  BY <1>1, <1>4 DEF AccountsTyped
<1> HIDE DEF new, done, last
<1>11. \A a \in account' : IF a.email = e THEN a \in rows ELSE a \in account
  BY <1>4, <1>5 DEF Accounts!Of
<1>12. \A a \in account' : a.email = e => a.password = t.password
  BY <1>5, <1>11
<1>13. AccountsTyped'
  <2>1. account' \subseteq Accounts!Account
    BY <1>1, <1>4, <1>5 DEF AccountsTyped
  <2>2. \A a, b \in account' : a.email = b.email => a = b
    BY <1>1, <1>6, <1>11 DEF AccountsTyped
  <2>3. chosen' \in [Addresses -> SUBSET Accounts!Last]
    BY <1>1, <1>3, <1>4 DEF AccountsTyped
  <2>4. session' \in [SignIns -> Accounts!Tokens]
    BY <1>1, <1>4 DEF AccountsTyped, Accounts!Tokens
  <2>5. command' \in [Commands -> Accounts!Command]
    BY <1>1, <1>2, <1>4 DEF AccountsTyped
  <2>6. signIn' \in [SignIns -> Accounts!Request]
    BY <1>4, <1>8
  <2> QED
    BY <2>1, <2>2, <2>3, <2>4, <2>5, <2>6 DEF AccountsTyped
<1>14. Accounts!LastPasswordStands'
  <2>1. {l.password : l \in {last}} = {t.password}
    BY <1>3
  <2>2. ASSUME NEW a \in account' PROVE {l.password : l \in chosen'[a.email]} = {a.password}
    <3>1. a.email \in Addresses
      BY <1>13 DEF AccountsTyped, Accounts!Account
    <3>2. CASE a.email = e
      BY <3>2, <2>1, <1>1, <1>10, <1>12
    <3>3. CASE a.email # e
      <4>1. a \in account /\ chosen'[a.email] = chosen[a.email]
        BY <3>1, <3>3, <1>10, <1>11
      <4> QED
        BY <4>1, <1>1 DEF Accounts!LastPasswordStands
    <3> QED
      BY <3>2, <3>3
  <2> QED
    BY <2>2 DEF Accounts!LastPasswordStands
<1>15. ChecksStand'
  <2>1. \A q \in SignIns : session'[q] # "none" => signIn'[q].pc = "answered"
    <3>1. \A q \in SignIns : q \in t.revoking => signIn[q].pc = "answered"
      BY <1>1 DEF ChecksStand
    <3> QED
      BY <3>1, <1>1, <1>4, <1>8 DEF ChecksStand
  <2>2. ASSUME NEW q \in SignIns,
               signIn'[q].pc \in {"login", "issue"} \/ session'[q] \in {"live", "rotating"}
        PROVE  /\ \E a \in account' : a.email = signIn'[q].email
               /\ \/ \E a \in account' : /\ a.email = signIn'[q].email
                                         /\ a.password = signIn'[q].password
                  \/ \E l \in chosen'[signIn'[q].email] : l.by \in signIn'[q].crossed
    <3>1. signIn[q].pc \in {"login", "issue"} \/ session[q] \in {"live", "rotating"}
      BY <2>2, <1>4, <1>8
    <3>2. Standing(signIn[q]) /\ signIn[q].email \in Addresses
      BY <3>1, <1>1 DEF ChecksStand, Accounts!Open, AccountsTyped, Accounts!Request
    <3>3. CASE signIn[q].email = e
      <4>1. c \in crossed(q)
        <5>1. CASE signIn[q].pc \in {"login", "issue"}
          BY <5>1, <3>3, <1>7 DEF Accounts!UnderWay
        <5>2. CASE session'[q] \in {"live", "rotating"}
          <6>1. session[q] \in {"live", "rotating"} /\ q \notin t.matched \cup t.revoking
            BY <5>2, <1>1, <1>4
          <6>2. ~Reaches(c, signIn[q])
            BY <6>1, <1>1 DEF ResetsReach, Accounts!Open
          <6> QED
            BY <6>2, <3>3, <1>7 DEF Reaches
        <5> QED
          BY <5>1, <5>2, <2>2, <1>8
      <4>2. \E a \in account' : a.email = e
        BY <3>2, <3>3, <1>4, <1>5 DEF Standing, Accounts!Of
      <4> QED
        BY <4>1, <4>2, <3>3, <1>1, <1>3, <1>8, <1>10
    <3>4. CASE signIn[q].email # e
      <4>1. \A a \in account : a.email = signIn[q].email => a \in account'
        BY <3>4, <1>4 DEF Accounts!Of
      <4>2. chosen'[signIn[q].email] = chosen[signIn[q].email]
        BY <3>2, <3>4, <1>10
      <4>3. \E a \in account' : a.email = signIn[q].email
        BY <4>1, <3>2 DEF Standing, Accounts!Of
      <4>4. CASE \E l \in chosen[signIn[q].email] : l.by \in signIn[q].crossed
        BY <4>2, <4>3, <4>4, <1>7, <1>8
      <4>5. CASE \E a \in account : a.email = signIn[q].email /\ a.password = signIn[q].password
        BY <4>1, <4>3, <4>5, <1>8
      <4> QED
        BY <4>4, <4>5, <3>2 DEF Standing, Accounts!Of
    <3> QED
      BY <3>3, <3>4
  <2> QED
    BY <2>1, <2>2 DEF ChecksStand, Standing, Accounts!Of, Accounts!Open
<1>16. ResetsReach'
  <2>1. ASSUME NEW d \in Commands
        PROVE  /\ command'[d].matched # {} => command'[d].pc = "update"
               /\ \A q \in command'[d].revoking : session'[q] # "none"
    <3>1. CASE d = c
      BY <3>1, <1>2, <1>9
    <3>2. CASE d # c
      <4>1. command'[d] = command[d] /\ command[d].revoking \in SUBSET SignIns
        BY <3>2, <1>9, CommandParts
      <4> QED
        BY <4>1, <1>1, <1>4 DEF ResetsReach
    <3> QED
      BY <3>1, <3>2
  <2>2. ASSUME NEW d \in Commands, NEW q \in SignIns, command'[d].pc \in {"update", "commit"},
               signIn'[q].email = command'[d].email, d \notin signIn'[q].crossed,
               session'[q] \in {"live", "rotating"}
        PROVE  q \in command'[d].matched \cup command'[d].revoking
    <3>1. d # c /\ command'[d] = command[d]
      BY <2>2, <1>2, <1>9
    <3>2. Accounts!Open(q) /\ Reaches(d, signIn[q])
      BY <2>2, <3>1, <1>4, <1>7, <1>8 DEF Accounts!Open, Reaches
    <3> QED
      BY <2>2, <3>1, <3>2, <1>1 DEF ResetsReach
  <2> QED
    BY <2>1, <2>2 DEF ResetsReach, Reaches, Accounts!Open
<1> QED
  BY <1>13, <1>14, <1>15, <1>16 DEF AccountsInv

LEMMA AccountsNext ==
  ASSUME AccountsInv, Accounts!Next \/ UNCHANGED AccountVars
  PROVE  AccountsInv'
<1>1. CASE UNCHANGED AccountVars
  BY <1>1 DEF AccountVars, AccountsInv, AccountsTyped, Accounts!LastPasswordStands,
     ChecksStand, Standing, ResetsReach, Reaches, Accounts!Of, Accounts!Open
<1>2. CASE \E e \in Addresses : Accounts!Disable(e)
  BY <1>2, DisableKeeps
<1>3. ASSUME NEW q \in SignIns,
             \/ \E e \in Addresses, p \in Passwords : Accounts!SignIn(q, e, p)
             \/ Accounts!Lookup(q) \/ Accounts!RecordLogin(q) \/ Accounts!IssueToken(q)
             \/ Accounts!Fail(q) \/ Accounts!BeginRotation(q) \/ Accounts!CommitRotation(q)
             \/ Accounts!RotationFails(q)
      PROVE  AccountsInv'
  BY <1>3, SignInKeeps, LookupKeeps, RecordLoginKeeps, IssueTokenKeeps, FailKeeps,
     RotationKeeps, CommitRotationKeeps
<1>4. ASSUME NEW c \in Commands,
             \/ \E e \in Addresses, p \in Passwords :
                  Accounts!Create(c, e, p) \/ Accounts!Reset(c, e, p)
             \/ Accounts!CheckExists(c) \/ Accounts!InsertAccount(c)
             \/ Accounts!FindAccount(c) \/ Accounts!BeginUpdate(c) \/ Accounts!EndUpdate(c)
             \/ \E q \in SignIns : Accounts!LockToken(c, q)
             \/ Accounts!CommitReset(c) \/ Accounts!ResetFails(c)
      PROVE  AccountsInv'
  BY <1>4, CommandsProceed, InsertAccountKeeps, UpdateKeeps, CommitResetKeeps
<1> QED
  BY <1>1, <1>2, <1>3, <1>4 DEF Accounts!Next

LEMMA AccountsInvHolds ==
  MCSpec => []AccountsInv
<1>1. MCInit => AccountsInv
  BY AccountsInit DEF MCInit
<1>2. AccountsInv /\ [MCNext]_AllVars => AccountsInv'
  BY PartsMove, AccountsNext
<1> QED
  BY <1>1, <1>2, PTL DEF MCSpec

\* A password that was reset stays so beside any sign-in and any other command,
\* and the sessions opened with the old one are over, except those whose sign-in
\* or rotation ran beside this very reset (scripts/reset_admin_password.py, main).
THEOREM PasswordResetsHold ==
  MCSpec => []ResetsHold
<1>1. AccountsInv => ResetsHold
  BY DEF AccountsInv, ResetsHold, Accounts!ResetsHold, Accounts!ResetsEndSessions, ChecksStand,
         Standing
<1> QED
  BY <1>1, AccountsInvHolds, PTL

-----------------------------------------------------------------------------
(***************************************************************************)
(* The intake of a feed.                                                   *)
(***************************************************************************)

Early == {"idle", "configure", "request", "backoff", "extract"}
Steps == Early \cup {"parse", "refused", "unstaged", "failed", "staged", "mark", "done",
                     "killed"}

\* Nothing is committed for the run.
Fresh(u) ==
  /\ u.status # "completed" /\ u.rows = << >>
  /\ u.received = 0 /\ u.staged = 0 /\ u.rejected = 0

\* What a task counts, and what it has staged.
TaskSound(t) ==
  /\ t.pc = "backoff" => t.attempt < MaxAttempts
  /\ t.pc \in Early => t.read = 0
  /\ t.read = t.received /\ t.received = Len(t.staged) + t.rejected
  /\ t.read <= Len(t.body.jobs)
  /\ \A i \in DOMAIN t.staged : Intake!RangeFits(t.staged[i])
  /\ t.pc = "refused" => Intake!Repeats(t.staged)
  /\ t.pc = "parse" => t.zip = Intake!Size(t.body)
  /\ Intake!AreRecords(t.staged, t.body, t.read)

\* What is committed for a run is the snapshot that its task has downloaded.
Whole(u, t) ==
  u.status = "completed" \/ u.rows # << >> =>
    /\ t.body.archive = "sound" /\ t.zip = Intake!Size(t.body)
    /\ Intake!AreRecords(u.rows, t.body, Len(t.body.jobs))

\* The counts of a run add up, and are of the whole feed.
RunSound(u, t) ==
  /\ Whole(u, t)
  /\ t.pc \in Early \cup {"parse", "refused"} => Fresh(u)
  /\ u.received = u.staged + u.rejected
  /\ u.staged = Len(u.rows)
  /\ u.status = "completed" \/ u.rows # << >> \/ u.received > 0 =>
       u.received = Len(t.body.jobs)

IntakeInv ==
  /\ run \in [Runs -> Intake!Run] /\ task \in [Runs -> Intake!Task] /\ files \subseteq Runs
  /\ \A r \in Runs : TaskSound(task[r]) /\ RunSound(run[r], task[r])
  /\ Intake!NoFilesLeft

\* The elements of a snapshot are counted one by one.
LEMMA EssentialOneMore ==
  ASSUME NEW s \in Intake!Snapshot, NEW n \in Nat
  PROVE  /\ IsFiniteSet(Intake!Essential(s, n))
         /\ Intake!Cardinality(Intake!Essential(s, n)) \in Nat
         /\ Intake!Cardinality(Intake!Essential(s, 0)) = 0
         /\ s.jobs[n + 1].essential => Intake!Cardinality(Intake!Essential(s, n + 1)) =
                                       Intake!Cardinality(Intake!Essential(s, n)) + 1
         /\ ~s.jobs[n + 1].essential => Intake!Essential(s, n + 1) = Intake!Essential(s, n)
<1> DEFINE E == Intake!Essential(s, n)
           F == Intake!Essential(s, n + 1)
<1>1. \A S : Intake!Cardinality(S) = Cardinality(S)
  BY DEF Intake!Cardinality, Cardinality
<1>2. IsFiniteSet(E)
  <2>1. IsFiniteSet(1 .. n) /\ E \subseteq 1 .. n
    BY FS_Interval DEF Intake!Essential
  <2> QED
    BY <2>1, FS_Subset
<1>3. Intake!Essential(s, 0) = {}
  BY DEF Intake!Essential
<1>4. n + 1 \notin E /\ F = IF s.jobs[n + 1].essential THEN E \cup {n + 1} ELSE E
  BY DEF Intake!Essential
<1> HIDE DEF E, F
<1>5. Cardinality(E) \in Nat /\ Cardinality(E \cup {n + 1}) = Cardinality(E) + 1
  BY <1>2, <1>4, FS_AddElement, FS_CardinalityType
<1>6. Cardinality(Intake!Essential(s, 0)) = 0
  BY <1>3, FS_EmptySet
<1> QED
  BY <1>1, <1>2, <1>4, <1>5, <1>6 DEF E, F

\* Nothing is staged of no element.
LEMMA NoRecords ==
  ASSUME NEW s \in Intake!Snapshot, NEW rows, Len(rows) = 0
  PROVE  Intake!AreRecords(rows, s, 0)
<1>1. Intake!Essential(s, 0) = {}
  BY DEF Intake!Essential
<1> QED
  BY <1>1, EssentialOneMore DEF Intake!AreRecords

\* A record stands where its element was counted.
LEMMA PlacesWithin ==
  ASSUME NEW s \in Intake!Snapshot, NEW n \in Nat, NEW i \in Intake!Essential(s, n)
  PROVE  Intake!Cardinality(Intake!Essential(s, i)) \in
           1 .. Intake!Cardinality(Intake!Essential(s, n))
<1> DEFINE C == Intake!Essential(s, i)
           E == Intake!Essential(s, n)
<1>1. \A S : Intake!Cardinality(S) = Cardinality(S)
  BY DEF Intake!Cardinality, Cardinality
<1>2. i \in Nat /\ i \in C /\ C \subseteq E
  BY DEF Intake!Essential
<1>3. IsFiniteSet(C) /\ IsFiniteSet(E)
  BY <1>2, EssentialOneMore
<1> HIDE DEF C, E
<1>4. Cardinality(C) \in Nat /\ Cardinality(E) \in Nat /\ Cardinality(C) <= Cardinality(E)
  BY <1>2, <1>3, FS_CardinalityType, FS_Subset
<1>5. Cardinality(C) # 0
  BY <1>2, <1>3, FS_EmptySet
<1> QED
  BY <1>1, <1>4, <1>5 DEF C, E

\* One more element is staged as its record, or not at all.
LEMMA OneMoreRecord ==
  ASSUME NEW s \in Intake!Snapshot, NEW n \in Nat, NEW rows \in Seq(Intake!Staged),
         NEW item \in Intake!Staged, item = Intake!Normalise(s.jobs[n + 1]),
         Intake!AreRecords(rows, s, n)
  PROVE  IF s.jobs[n + 1].essential THEN Intake!AreRecords(Append(rows, item), s, n + 1)
         ELSE Intake!AreRecords(rows, s, n + 1)
<1> DEFINE E == Intake!Essential(s, n)
           F == Intake!Essential(s, n + 1)
           more == Append(rows, item)
           place(i) == Intake!Cardinality(Intake!Essential(s, i))
<1>1. CASE ~s.jobs[n + 1].essential
  BY <1>1, EssentialOneMore DEF Intake!AreRecords
<1>2. CASE s.jobs[n + 1].essential
  <2>1. /\ Len(rows) \in Nat /\ Len(more) = Len(rows) + 1 /\ more[Len(rows) + 1] = item
        /\ \A k \in 1 .. Len(rows) : more[k] = rows[k]
    OBVIOUS
  <2>2. Len(rows) = place(n) /\ place(n + 1) = place(n) + 1
    BY <1>2, EssentialOneMore DEF Intake!AreRecords
  <2>3. \A i \in F : i = n + 1 \/ i \in E
    BY DEF Intake!Essential
  <2>4. \A i \in E : rows[place(i)] = Intake!Normalise(s.jobs[i]) /\ place(i) \in 1 .. Len(rows)
    BY <2>2, PlacesWithin DEF Intake!AreRecords
  <2> HIDE DEF more, place
  <2>5. \A i \in F : more[place(i)] = Intake!Normalise(s.jobs[i])
    BY <2>1, <2>2, <2>3, <2>4
  <2> QED
    BY <1>2, <2>1, <2>2, <2>5 DEF Intake!AreRecords, more, place
<1> QED
  BY <1>1, <1>2

LEMMA IntakeInit ==
  ASSUME Intake!Init
  PROVE  IntakeInv
<1> DEFINE u == [status |-> "none", received |-> 0, staged |-> 0, rejected |-> 0, rows |-> << >>]
           t == Intake!Idle
<1>1. MaxAttempts \in Nat \ {0} /\ MaxDownload \in Nat \ {0}
  BY IntakeIsAsAssumed DEF Intake!IntakeAssumption
<1>2. t \in Intake!Task
  BY <1>1 DEF Intake!Idle, Intake!Task, Intake!Snapshot, Intake!Nothing
<1>3. TaskSound(t)
  <2>1. Intake!Nothing \in Intake!Snapshot
    BY DEF Intake!Nothing, Intake!Snapshot
  <2>2. Intake!AreRecords(<< >>, Intake!Nothing, 0)
    BY <2>1, NoRecords
  <2> QED
    BY <2>2 DEF TaskSound, Intake!Idle, Intake!Nothing, Early
<1>4. u \in Intake!Run /\ RunSound(u, t)
  BY DEF Intake!Run, RunSound, Whole, Fresh
<1>5. \A r \in Runs : run[r] = u /\ task[r] = t
  BY DEF Intake!Init
<1>6. run \in [Runs -> Intake!Run] /\ task \in [Runs -> Intake!Task] /\ files = {}
  BY <1>2, <1>4 DEF Intake!Init
<1> QED
  BY <1>3, <1>4, <1>5, <1>6 DEF IntakeInv, Intake!NoFilesLeft

\* A step of one task.
LEMMA IntakeStep ==
  ASSUME IntakeInv, NEW r \in Runs, NEW t \in Intake!Task, NEW u \in Intake!Run,
         task' = [task EXCEPT ![r] = t], run' = [run EXCEPT ![r] = u],
         files' \in {files, files \cup {r}, files \ {r}},
         r \in files' => t.pc \notin {"idle", "configure", "mark", "done"},
         TaskSound(t), RunSound(u, t)
  PROVE  IntakeInv'
<1>1. \A q \in Runs : /\ task'[q] = IF q = r THEN t ELSE task[q]
                      /\ run'[q] = IF q = r THEN u ELSE run[q]
  BY DEF IntakeInv
<1>2. \A q \in Runs : TaskSound(task'[q]) /\ RunSound(run'[q], task'[q])
  BY <1>1 DEF IntakeInv
<1>3. \A q \in files' : task'[q].pc \notin {"idle", "configure", "mark", "done"}
  BY <1>1 DEF IntakeInv, Intake!NoFilesLeft
<1>4. run' \in [Runs -> Intake!Run] /\ task' \in [Runs -> Intake!Task] /\ files' \subseteq Runs
  BY DEF IntakeInv
<1> QED
  BY <1>2, <1>3, <1>4 DEF IntakeInv, Intake!NoFilesLeft

\* ... that counts and stages nothing.
LEMMA PcStep ==
  ASSUME IntakeInv, NEW r \in Runs, NEW pc \in Steps \ {"backoff"}, NEW retry \in BOOLEAN,
         NEW u \in Intake!Run, run' = [run EXCEPT ![r] = u],
         task' = [task EXCEPT ![r] = [task[r] EXCEPT !.pc = pc, !.transient = retry]],
         files' \in {files, files \cup {r}, files \ {r}},
         r \in files' => pc \notin {"idle", "configure", "mark", "done"},
         pc \in Early => task[r].pc \in Early,
         pc = "refused" => Intake!Repeats(task[r].staged),
         pc = "parse" => task[r].zip = Intake!Size(task[r].body), Whole(u, task[r]),
         pc \in Early \cup {"parse", "refused"} => Fresh(u),
         u.received = u.staged + u.rejected, u.staged = Len(u.rows),
         u.status = "completed" \/ u.rows # << >> \/ u.received > 0 =>
           u.received = Len(task[r].body.jobs)
  PROVE  IntakeInv'
<1> DEFINE o == task[r]
           t == [o EXCEPT !.pc = pc, !.transient = retry]
<1>1. o \in Intake!Task /\ TaskSound(o)
  BY DEF IntakeInv
<1>2. /\ t \in Intake!Task /\ t.pc = pc /\ t.read = o.read /\ t.received = o.received
      /\ t.rejected = o.rejected /\ t.staged = o.staged /\ t.body = o.body /\ t.zip = o.zip
  BY <1>1 DEF Intake!Task, Steps, Early
<1>3. task' = [task EXCEPT ![r] = t]
  OBVIOUS
<1> HIDE DEF t
<1>4. TaskSound(t)
  BY <1>1, <1>2 DEF TaskSound
<1>5. RunSound(u, t)
  BY <1>2 DEF RunSound, Whole
<1> HIDE DEF o
<1> QED
  BY <1>2, <1>3, <1>4, <1>5, IntakeStep

\* What is so of a task at any step.
LEMMA TaskParts ==
  ASSUME IntakeInv, NEW r \in Runs
  PROVE  /\ task[r] \in Intake!Task /\ run[r] \in Intake!Run
         /\ task[r].transient \in BOOLEAN /\ task[r].pc \in Steps
         /\ TaskSound(task[r]) /\ RunSound(run[r], task[r])
         /\ run = [run EXCEPT ![r] = run[r]]
         /\ [task[r] EXCEPT !.transient = @] = task[r]
BY DEF IntakeInv, Intake!Task, Steps, Early

LEMMA Going ==
  ASSUME IntakeInv, NEW r \in Runs, NEW pc \in Steps, Intake!Goto(r, pc)
  PROVE  task' = [task EXCEPT ![r] =
                    [task[r] EXCEPT !.pc = pc, !.transient = task[r].transient]]
<1> DEFINE o == task[r]
           t == [o EXCEPT !.pc = pc]
<1>1. o \in Intake!Task
  BY DEF IntakeInv
<1>2. t = [o EXCEPT !.pc = pc, !.transient = o.transient]
  BY <1>1 DEF Intake!Task
<1>3. task' = [task EXCEPT ![r] = t]
  BY DEF Intake!Goto
<1> HIDE DEF o, t
<1> QED
  BY <1>2, <1>3 DEF o

\* ... and leaves the row of its run alone.
LEMMA MoveOn ==
  ASSUME IntakeInv, NEW r \in Runs, NEW pc \in Steps \ {"backoff"},
         Intake!Goto(r, pc) \/ \E retry \in BOOLEAN : Intake!Fail(r, pc, retry),
         UNCHANGED run, files' \in {files, files \cup {r}, files \ {r}},
         r \in files' => pc \notin {"idle", "configure", "mark", "done"},
         pc \in Early => task[r].pc \in Early,
         pc = "refused" => Intake!Repeats(task[r].staged),
         pc = "parse" => task[r].zip = Intake!Size(task[r].body),
         pc \in Early \cup {"parse", "refused"} =>
           task[r].pc \in Early \cup {"parse", "refused"}
  PROVE  IntakeInv'
<1> DEFINE u == run[r]
<1>1. /\ u \in Intake!Run /\ RunSound(u, task[r]) /\ task[r].transient \in BOOLEAN
      /\ run' = [run EXCEPT ![r] = u]
  BY TaskParts
<1>2. PICK retry \in BOOLEAN :
        task' = [task EXCEPT ![r] = [task[r] EXCEPT !.pc = pc, !.transient = retry]]
  <2>1. CASE Intake!Goto(r, pc)
    BY <2>1, <1>1, Going
  <2>2. CASE \E retry \in BOOLEAN : Intake!Fail(r, pc, retry)
    BY <2>2 DEF Intake!Fail
  <2> QED
    BY <2>1, <2>2
<1>3. /\ u.received = u.staged + u.rejected /\ u.staged = Len(u.rows)
      /\ u.status = "completed" \/ u.rows # << >> \/ u.received > 0 =>
           u.received = Len(task[r].body.jobs)
      /\ Whole(u, task[r])
      /\ pc \in Early \cup {"parse", "refused"} => Fresh(u)
  BY <1>1 DEF RunSound
<1> HIDE DEF u
<1> QED
  BY <1>1, <1>2, <1>3, PcStep

LEMMA StartRunKeeps ==
  ASSUME IntakeInv, NEW r \in Runs, Intake!StartRun(r)
  PROVE  IntakeInv'
<1> DEFINE begun == [run[r] EXCEPT !.status = "processing"]
<1>1. /\ task[r].pc = "idle" /\ Intake!Goto(r, "configure") /\ UNCHANGED files
      /\ run' = [run EXCEPT ![r] = begun]
  BY DEF Intake!StartRun, Intake!At
<1>2. run[r] \in Intake!Run /\ Fresh(run[r]) /\ task[r].transient \in BOOLEAN /\ r \notin files
  BY <1>1, TaskParts DEF RunSound, Early, IntakeInv, Intake!NoFilesLeft
<1>3. begun \in Intake!Run /\ Fresh(begun)
  BY <1>2 DEF Intake!Run, Fresh
<1> HIDE DEF begun
<1>4. /\ begun.received = begun.staged + begun.rejected /\ begun.staged = Len(begun.rows)
      /\ ~(begun.status = "completed" \/ begun.rows # << >> \/ begun.received > 0)
      /\ Whole(begun, task[r])
  BY <1>3 DEF Fresh, Whole
<1>5. "configure" \in Steps \ {"backoff"} /\ "idle" \in Early
  BY DEF Steps, Early
<1>6. task' = [task EXCEPT ![r] =
                 [task[r] EXCEPT !.pc = "configure", !.transient = task[r].transient]]
  BY <1>1, <1>5, Going
<1> QED
  BY <1>1, <1>2, <1>3, <1>4, <1>5, <1>6, PcStep

\* Steps from the settings to the document.
LEMMA DownloadKeeps ==
  ASSUME IntakeInv, NEW r \in Runs,
         \/ Intake!Download(r) \/ Intake!Misconfigured(r)
         \/ Intake!Extract(r) \/ Intake!RejectArchive(r)
  PROVE  IntakeInv'
<1>1. r \in files => task[r].pc \notin {"idle", "configure", "mark", "done"}
  BY DEF IntakeInv, Intake!NoFilesLeft
<1>2. /\ {"request", "parse", "failed", "mark"} \subseteq Steps \ {"backoff"}
      /\ {"configure", "extract", "request"} \subseteq Early
      /\ {"parse", "failed", "mark"} \cap Early = {}
  BY DEF Steps, Early
<1>3. CASE Intake!Download(r)
  BY <1>2, <1>3, MoveOn DEF Intake!Download, Intake!At
<1>4. CASE Intake!Misconfigured(r)
  BY <1>1, <1>2, <1>4, MoveOn DEF Intake!Misconfigured, Intake!At
<1>5. CASE Intake!Extract(r)
  BY <1>2, <1>5, MoveOn DEF Intake!Extract, Intake!Extractable, Intake!At
<1>6. CASE Intake!RejectArchive(r)
  BY <1>2, <1>6, MoveOn DEF Intake!RejectArchive, Intake!At
<1> QED
  BY <1>3, <1>4, <1>5, <1>6

\* A request, whatever it is answered with.
LEMMA AskStep ==
  ASSUME IntakeInv, NEW r \in Runs, task[r].pc \in {"request", "backoff"},
         NEW t \in Intake!Task, task' = [task EXCEPT ![r] = t], UNCHANGED <<run, files>>,
         t.pc \in {"request", "backoff", "extract", "failed"},
         t.pc = "backoff" => t.attempt < MaxAttempts,
         t.read = task[r].read, t.received = task[r].received,
         t.rejected = task[r].rejected, t.staged = task[r].staged
  PROVE  IntakeInv'
<1> DEFINE o == task[r]
           u == run[r]
<1>1. /\ o \in Intake!Task /\ u \in Intake!Run /\ TaskSound(o) /\ RunSound(u, o)
      /\ run' = [run EXCEPT ![r] = u]
  BY TaskParts
<1>2. t.body \in Intake!Snapshot /\ Len(t.body.jobs) \in Nat
  BY DEF Intake!Task, Intake!Snapshot
<1>3. TaskSound(t)
  <2>1. t.read = 0 /\ Len(t.staged) = 0
    <3>1. o.read = 0 /\ o.received = 0 /\ Len(o.staged) + o.rejected = 0
      BY <1>1 DEF TaskSound, Early
    <3>2. o.rejected \in Nat /\ Len(o.staged) \in Nat
      BY <1>1 DEF Intake!Task
    <3> QED
      BY <3>1, <3>2
  <2>2. Intake!AreRecords(t.staged, t.body, t.read)
    BY <2>1, <1>2, NoRecords
  <2> QED
    BY <2>2, <1>1, <1>2 DEF TaskSound, Early
<1>4. Fresh(u)
  BY <1>1 DEF RunSound, Early
<1> HIDE DEF o, u
<1>5. RunSound(u, t)
  BY <1>1, <1>4 DEF RunSound, Whole, Fresh
<1> QED
  BY <1>1, <1>3, <1>5, IntakeStep

\* ... which may be tried again.
LEMMA TryAgainStep ==
  ASSUME IntakeInv, NEW r \in Runs, task[r].pc = "request", NEW t \in Intake!Task,
         Intake!TryAgain(r, t), UNCHANGED <<run, files>>,
         t.read = task[r].read, t.received = task[r].received,
         t.rejected = task[r].rejected, t.staged = task[r].staged
  PROVE  IntakeInv'
<1>1. MaxAttempts \in Nat /\ t.attempt \in Nat
  BY IntakeIsAsAssumed DEF Intake!IntakeAssumption, Intake!Task
<1>2. CASE t.attempt >= MaxAttempts
  <2> DEFINE n == [t EXCEPT !.pc = "failed", !.transient = TRUE]
  <2>1. /\ n \in Intake!Task /\ n.pc = "failed" /\ n.read = t.read
        /\ n.received = t.received /\ n.rejected = t.rejected /\ n.staged = t.staged
    BY DEF Intake!Task
  <2>2. task' = [task EXCEPT ![r] = n]
    BY <1>2 DEF Intake!TryAgain
  <2> HIDE DEF n
  <2> QED
    BY <2>1, <2>2, AskStep
<1>3. CASE ~(t.attempt >= MaxAttempts)
  <2> DEFINE n == [t EXCEPT !.pc = "backoff"]
  <2>1. /\ n \in Intake!Task /\ n.pc = "backoff" /\ n.read = t.read
        /\ n.received = t.received /\ n.rejected = t.rejected /\ n.staged = t.staged
        /\ n.attempt = t.attempt
    BY DEF Intake!Task
  <2>2. task' = [task EXCEPT ![r] = n]
    BY <1>3 DEF Intake!TryAgain
  <2>3. n.attempt < MaxAttempts
    BY <2>1, <1>1, <1>3
  <2> HIDE DEF n
  <2> QED
    BY <2>1, <2>2, <2>3, AskStep
<1> QED
  BY <1>2, <1>3

LEMMA ReceivedTyped ==
  ASSUME IntakeInv, NEW r \in Runs, NEW s \in Published, NEW n \in 0 .. MaxDownload
  PROVE  LET t == Intake!Received(r, s, n)
         IN /\ t \in Intake!Task /\ t.pc = task[r].pc
            /\ t.read = task[r].read /\ t.received = task[r].received
            /\ t.rejected = task[r].rejected /\ t.staged = task[r].staged
<1>1. s \in Intake!Snapshot /\ Len(s.jobs) \in Nat
  BY IntakeIsAsAssumed DEF Intake!IntakeAssumption, Intake!Snapshot
<1>2. MaxDownload \in Nat
  BY IntakeIsAsAssumed DEF Intake!IntakeAssumption
<1>3. (n < Intake!Size(s)) \in BOOLEAN
  BY <1>1 DEF Intake!Size
<1>4. task[r] \in Intake!Task
  BY TaskParts
<1> QED
  BY <1>1, <1>3, <1>4 DEF Intake!Received, Intake!Task

LEMMA AskKeeps ==
  ASSUME IntakeInv, NEW r \in Runs, Intake!Ask(r)
  PROVE  IntakeInv'
<1> DEFINE o == task[r]
<1>1. o \in Intake!Task /\ TaskSound(o)
  BY TaskParts
<1>2. CASE Intake!Unreachable(r)
  <2> DEFINE t == [o EXCEPT !.cut = FALSE]
  <2>1. /\ t \in Intake!Task /\ t.read = o.read /\ t.received = o.received
        /\ t.rejected = o.rejected /\ t.staged = o.staged
    BY <1>1 DEF Intake!Task
  <2>2. o.pc = "request" /\ Intake!TryAgain(r, t) /\ UNCHANGED <<run, files>>
    BY <1>2 DEF Intake!Unreachable, Intake!At
  <2> HIDE DEF t
  <2> QED
    BY <2>1, <2>2, TryAgainStep
<1>3. CASE Intake!RefuseAddress(r)
  <2> DEFINE t == [o EXCEPT !.pc = "failed", !.cut = FALSE]
  <2>1. /\ t \in Intake!Task /\ t.pc = "failed" /\ t.read = o.read
        /\ t.received = o.received /\ t.rejected = o.rejected /\ t.staged = o.staged
    BY <1>1 DEF Intake!Task
  <2>2. o.pc = "request" /\ task' = [task EXCEPT ![r] = t] /\ UNCHANGED <<run, files>>
    BY <1>3 DEF Intake!RefuseAddress, Intake!At
  <2> HIDE DEF t
  <2> QED
    BY <2>1, <2>2, AskStep
<1>4. CASE Intake!Backoff(r)
  <2> DEFINE t == [o EXCEPT !.pc = "request", !.attempt = @ + 1]
  <2>1. o.pc = "backoff" /\ task' = [task EXCEPT ![r] = t] /\ UNCHANGED <<run, files>>
    BY <1>4 DEF Intake!Backoff, Intake!At
  <2>2. o.attempt \in 1 .. MaxAttempts /\ o.attempt < MaxAttempts /\ MaxAttempts \in Nat
    BY <2>1, <1>1, IntakeIsAsAssumed DEF TaskSound, Intake!Task, Intake!IntakeAssumption
  <2>3. o.attempt + 1 \in 1 .. MaxAttempts
    BY <2>2
  <2>4. /\ t \in Intake!Task /\ t.pc = "request" /\ t.read = o.read
        /\ t.received = o.received /\ t.rejected = o.rejected /\ t.staged = o.staged
    BY <2>3, <1>1 DEF Intake!Task
  <2> HIDE DEF t
  <2> QED
    BY <2>1, <2>4, AskStep
<1>5. ASSUME NEW s \in Published, NEW n \in 0 .. MaxDownload,
             \/ Intake!Receive(r, s, n) \/ Intake!Interrupt(r, s, n)
             \/ Intake!BreakOff(r, s, n) \/ Intake!TooLarge(r, s, n)
      PROVE  IntakeInv'
  <2> DEFINE g == Intake!Received(r, s, n)
             in == [g EXCEPT !.pc = "extract"]
             off == [g EXCEPT !.pc = "failed"]
             large == [g EXCEPT !.pc = "failed", !.cut = FALSE]
  <2>1. /\ g \in Intake!Task /\ g.read = o.read /\ g.received = o.received
        /\ g.rejected = o.rejected /\ g.staged = o.staged
    BY ReceivedTyped
  <2>2. o.pc = "request" /\ UNCHANGED <<run, files>>
    BY <1>5 DEF Intake!Receive, Intake!Interrupt, Intake!BreakOff, Intake!TooLarge, Intake!At
  <2>3. \/ task' = [task EXCEPT ![r] = in] \/ Intake!TryAgain(r, g)
        \/ task' = [task EXCEPT ![r] = off] \/ task' = [task EXCEPT ![r] = large]
    BY <1>5 DEF Intake!Receive, Intake!Interrupt, Intake!BreakOff, Intake!TooLarge
  <2> HIDE DEF g
  <2>4. \A t \in {in, off, large} :
          /\ t \in Intake!Task /\ t.pc \in {"extract", "failed"} /\ t.read = g.read
          /\ t.received = g.received /\ t.rejected = g.rejected /\ t.staged = g.staged
    BY <2>1 DEF Intake!Task
  <2> HIDE DEF in, off, large
  <2>5. CASE Intake!TryAgain(r, g)
    BY <2>1, <2>2, <2>5, TryAgainStep
  <2>6. ASSUME NEW t \in {in, off, large}, task' = [task EXCEPT ![r] = t]
        PROVE  IntakeInv'
    BY <2>1, <2>2, <2>4, <2>6, AskStep
  <2> QED
    BY <2>3, <2>5, <2>6
<1> QED
  BY <1>2, <1>3, <1>4, <1>5 DEF Intake!Ask

LEMMA NormaliseFits ==
  ASSUME NEW e \in Intake!Entry
  PROVE  Intake!Normalise(e) \in Intake!Staged /\ Intake!RangeFits(Intake!Normalise(e))
<1>1. MaxAmount \in Nat
  BY IntakeIsAsAssumed DEF Intake!IntakeAssumption
<1>2. e.reference \in References
  BY DEF Intake!Entry
<1>3. \A x : Intake!Usable(x) \in Intake!Amounts \cup {Intake!None}
  BY DEF Intake!Usable
<1> DEFINE low == Intake!Usable(e.low)
           high == Intake!Usable(e.high)
           item == Intake!Normalise(e)
<1>4. /\ item.reference = e.reference
      /\ \/ item.low = Intake!None /\ item.high = Intake!None
         \/ /\ item.low = low /\ item.high = high
            /\ Intake!None \in {low, high} \/ ~(low > high)
      /\ item = [reference |-> item.reference, low |-> item.low, high |-> item.high]
  BY DEF Intake!Normalise
<1>5. low \in Intake!Amounts \cup {Intake!None} /\ high \in Intake!Amounts \cup {Intake!None}
  BY <1>3
<1> HIDE DEF low, high, item
<1>6. item \in Intake!Staged
  BY <1>2, <1>4, <1>5 DEF Intake!Staged
<1>7. Intake!RangeFits(item)
  BY <1>1, <1>4, <1>5 DEF Intake!RangeFits, Intake!Amounts, Intake!None
<1> QED
  BY <1>6, <1>7 DEF item

\* One element of the document.
LEMMA ElementStep ==
  ASSUME IntakeInv, NEW r \in Runs, Intake!MoreEntries(r), NEW t \in Intake!Task,
         task' = [task EXCEPT ![r] = t], UNCHANGED <<run, files>>,
         t.pc = "parse", t.body = task[r].body, t.zip = task[r].zip,
         t.read = task[r].read + 1, t.received = task[r].received + 1,
         \/ /\ ~Intake!NextEntry(r).essential
            /\ t.staged = task[r].staged /\ t.rejected = task[r].rejected + 1
         \/ /\ Intake!NextEntry(r).essential
            /\ t.rejected = task[r].rejected
            /\ t.staged = Append(task[r].staged, Intake!Normalise(Intake!NextEntry(r)))
  PROVE  IntakeInv'
<1> DEFINE o == task[r]
           u == run[r]
           item == Intake!Normalise(Intake!NextEntry(r))
<1>1. /\ o \in Intake!Task /\ u \in Intake!Run /\ TaskSound(o) /\ RunSound(u, o)
      /\ run' = [run EXCEPT ![r] = u]
  BY TaskParts
<1>2. /\ o.body.jobs \in Seq(Intake!Entry) /\ o.staged \in Seq(Intake!Staged)
      /\ o.read \in Nat /\ o.rejected \in Nat /\ o.received \in Nat
  BY <1>1 DEF Intake!Task, Intake!Snapshot
<1>3. o.pc = "parse" /\ o.read < Len(o.body.jobs)
  BY DEF Intake!MoreEntries, Intake!At
<1>4. Intake!NextEntry(r) \in Intake!Entry
  BY <1>2, <1>3 DEF Intake!NextEntry
<1>5. item \in Intake!Staged /\ Intake!RangeFits(item)
  BY <1>4, NormaliseFits
<1> HIDE DEF item
<1>6. /\ t.received = Len(t.staged) + t.rejected
      /\ \A i \in DOMAIN t.staged : Intake!RangeFits(t.staged[i])
  <2>1. CASE t.staged = o.staged /\ t.rejected = o.rejected + 1
    <3>1. \A i \in DOMAIN t.staged : Intake!RangeFits(t.staged[i])
      BY <2>1, <1>1 DEF TaskSound
    <3>2. /\ o.received = Len(o.staged) + o.rejected /\ Len(o.staged) \in Nat
          /\ o.rejected \in Nat /\ t.received = o.received + 1
      BY <1>1, <1>2 DEF TaskSound
    <3>3. t.received = Len(t.staged) + t.rejected
      <4> HIDE DEF o
      <4> QED
        BY <2>1, <3>2
    <3> QED
      BY <3>1, <3>3
  <2>2. CASE t.staged = Append(o.staged, item) /\ t.rejected = o.rejected
    <3>1. Len(t.staged) = Len(o.staged) + 1 /\ DOMAIN t.staged = 1 .. Len(o.staged) + 1
      BY <2>2, <1>2, <1>5
    <3>2. \A i \in DOMAIN t.staged :
            t.staged[i] = IF i = Len(o.staged) + 1 THEN item ELSE o.staged[i]
      BY <2>2, <1>2, <1>5
    <3>3. \A i \in DOMAIN t.staged : i # Len(o.staged) + 1 => i \in DOMAIN o.staged
      BY <3>1, <1>2
    <3>4. \A i \in DOMAIN o.staged : Intake!RangeFits(o.staged[i])
      BY <1>1 DEF TaskSound
    <3>5. \A i \in DOMAIN t.staged : Intake!RangeFits(t.staged[i])
      BY <3>2, <3>3, <3>4, <1>5
    <3>6. /\ o.received = Len(o.staged) + o.rejected /\ Len(o.staged) \in Nat
          /\ t.received = o.received + 1
      BY <1>1, <1>2 DEF TaskSound
    <3>7. t.rejected = o.rejected /\ o.rejected \in Nat /\ Len(t.staged) = Len(o.staged) + 1
      BY <2>2, <3>1, <1>2
    <3>8. t.received = Len(t.staged) + t.rejected
      <4> HIDE DEF o
      <4> QED
        BY <3>6, <3>7
    <3> QED
      BY <3>5, <3>8
  <2> QED
    BY <2>1, <2>2 DEF item
<1>7. Intake!AreRecords(t.staged, t.body, t.read)
  <2>1. o.body \in Intake!Snapshot /\ Intake!AreRecords(o.staged, o.body, o.read)
    BY <1>1 DEF Intake!Task, TaskSound
  <2>2. Intake!NextEntry(r) = o.body.jobs[o.read + 1] /\ t.body = o.body
    BY DEF Intake!NextEntry
  <2> HIDE DEF o
  <2>3. IF o.body.jobs[o.read + 1].essential
        THEN Intake!AreRecords(Append(o.staged, item), o.body, o.read + 1)
        ELSE Intake!AreRecords(o.staged, o.body, o.read + 1)
    BY <2>1, <2>2, <1>2, <1>5, OneMoreRecord DEF item
  <2> QED
    BY <2>2, <2>3 DEF o, item
<1>8. TaskSound(t)
  BY <1>1, <1>2, <1>3, <1>6, <1>7 DEF TaskSound, Early
<1>9. RunSound(u, t)
  BY <1>1, <1>3 DEF RunSound, Whole
<1> HIDE DEF o, u
<1> QED
  BY <1>1, <1>8, <1>9, IntakeStep

LEMMA ElementKeeps ==
  ASSUME IntakeInv, NEW r \in Runs, Intake!StageJob(r) \/ Intake!RejectJob(r)
  PROVE  IntakeInv'
<1> DEFINE o == task[r]
           item == Intake!Normalise(Intake!NextEntry(r))
           read == o.read + 1
           received == o.received + 1
           rejected == o.rejected + 1
           rows == Append(o.staged, item)
           good == [o EXCEPT !.read = read, !.received = received, !.staged = rows]
           refused == [o EXCEPT !.read = read, !.received = received, !.rejected = rejected]
<1>1. o \in Intake!Task /\ Intake!MoreEntries(r) /\ UNCHANGED <<run, files>>
  BY TaskParts DEF Intake!StageJob, Intake!RejectJob
<1>2. o.pc = "parse" /\ o.body.jobs \in Seq(Intake!Entry) /\ o.read < Len(o.body.jobs)
      /\ o.read \in Nat
  BY <1>1 DEF Intake!MoreEntries, Intake!At, Intake!Task, Intake!Snapshot
<1>3. item \in Intake!Staged
  BY <1>2, NormaliseFits DEF Intake!NextEntry
<1>4. Intake!StageJob(r) =>
        Intake!NextEntry(r).essential /\ task' = [task EXCEPT ![r] = good]
  BY DEF Intake!StageJob
<1>5. Intake!RejectJob(r) =>
        ~Intake!NextEntry(r).essential /\ task' = [task EXCEPT ![r] = refused]
  BY DEF Intake!RejectJob
<1>6. /\ read \in Nat /\ received \in Nat /\ rejected \in Nat
       /\ rows \in Seq(Intake!Staged)
  BY <1>1, <1>3 DEF Intake!Task
<1> HIDE DEF item, read, received, rejected, rows
<1>7. /\ good \in Intake!Task /\ good.pc = "parse" /\ good.body = o.body /\ good.zip = o.zip
      /\ good.read = read /\ good.received = received
      /\ good.rejected = o.rejected /\ good.staged = rows
  BY <1>1, <1>2, <1>6 DEF Intake!Task
<1>8. /\ refused \in Intake!Task /\ refused.pc = "parse" /\ refused.body = o.body
      /\ refused.zip = o.zip
      /\ refused.read = read /\ refused.received = received
      /\ refused.rejected = rejected /\ refused.staged = o.staged
  BY <1>1, <1>2, <1>6 DEF Intake!Task
<1> HIDE DEF good, refused
<1>9. CASE Intake!StageJob(r)
  BY <1>1, <1>4, <1>7, <1>9, ElementStep DEF item, rows, read, received
<1>10. CASE Intake!RejectJob(r)
  BY <1>1, <1>5, <1>8, <1>10, ElementStep DEF read, received, rejected
<1> QED
  BY <1>9, <1>10

\* The end of the document that commits what is staged.
LEMMA CommitKeeps ==
  ASSUME IntakeInv, NEW r \in Runs, Intake!Commit(r) \/ Intake!CommitUnconfirmed(r)
  PROVE  IntakeInv'
<1> DEFINE o == task[r]
           u == Intake!Completed(r)
<1>1. o \in Intake!Task /\ TaskSound(o) /\ o.transient \in BOOLEAN
  BY TaskParts
<1>2. /\ o.pc = "parse" /\ o.read = Len(o.body.jobs)
      /\ o.body.archive = "sound"
      /\ run' = [run EXCEPT ![r] = u] /\ UNCHANGED files
  BY DEF Intake!Commit, Intake!CommitUnconfirmed, Intake!EndOfFeed, Intake!At
<1>3. /\ u \in Intake!Run /\ u.status = "completed" /\ u.received = o.received
      /\ u.staged = Len(o.staged) /\ u.rejected = o.rejected /\ u.rows = o.staged
  BY <1>1 DEF Intake!Completed, Intake!Run, Intake!Task
<1> HIDE DEF u
<1>4. /\ u.received = u.staged + u.rejected /\ u.staged = Len(u.rows)
      /\ u.received = Len(task[r].body.jobs) /\ Whole(u, task[r])
  BY <1>1, <1>2, <1>3 DEF TaskSound, Whole
<1>5. {"staged", "unstaged"} \subseteq Steps \ ({"backoff", "parse", "refused"} \cup Early)
  BY DEF Steps, Early
<1>6. CASE Intake!Commit(r)
  <2>1. Intake!Goto(r, "staged")
    BY <1>6 DEF Intake!Commit
  <2>2. task' = [task EXCEPT ![r] =
                   [task[r] EXCEPT !.pc = "staged", !.transient = task[r].transient]]
    BY <2>1, <1>5, Going
  <2> QED
    BY <2>2, <1>1, <1>2, <1>3, <1>4, <1>5, PcStep
<1>7. CASE Intake!CommitUnconfirmed(r)
  <2>1. task' = [task EXCEPT ![r] = [task[r] EXCEPT !.pc = "unstaged", !.transient = TRUE]]
    BY <1>7 DEF Intake!CommitUnconfirmed, Intake!Fail
  <2> QED
    BY <2>1, <1>2, <1>3, <1>4, <1>5, PcStep
<1> QED
  BY <1>6, <1>7

\* The ends that commit nothing.
LEMMA NoCommitKeeps ==
  ASSUME IntakeInv, NEW r \in Runs,
         Intake!SyntaxError(r) \/ Intake!RefuseFlush(r) \/ Intake!DatabaseFails(r)
  PROVE  IntakeInv'
<1>1. /\ {"unstaged", "refused"} \subseteq Steps \ {"backoff"}
      /\ {"unstaged", "refused"} \cap Early = {} /\ "unstaged" \notin {"parse", "refused"}
  BY DEF Steps, Early
<1>2. CASE Intake!SyntaxError(r)
  BY <1>1, <1>2, MoveOn DEF Intake!SyntaxError, Intake!At
<1>3. CASE Intake!DatabaseFails(r)
  BY <1>1, <1>3, MoveOn DEF Intake!DatabaseFails, Intake!At
<1>4. CASE Intake!RefuseFlush(r)
  <2>1. /\ task[r].pc = "parse" /\ Intake!Fail(r, "refused", FALSE)
        /\ UNCHANGED <<run, files>>
    BY <1>4 DEF Intake!RefuseFlush, Intake!EndOfFeed, Intake!At
  <2>2. Intake!Repeats(task[r].staged)
    BY <1>4, TaskParts DEF Intake!RefuseFlush, Intake!Flushes, TaskSound
  <2> QED
    BY <2>1, <2>2, <1>1, MoveOn
<1> QED
  BY <1>2, <1>3, <1>4

\* mark_failed keeps the counts.
LEMMA MarkStep ==
  ASSUME IntakeInv, NEW r \in Runs, NEW pc \in {"failed", "done"}, Intake!Marked(r),
         Intake!Goto(r, pc), UNCHANGED files, r \in files => pc # "done"
  PROVE  IntakeInv'
<1> DEFINE u == [run[r] EXCEPT !.status = "failed"]
<1>1. /\ run[r] \in Intake!Run /\ task[r].transient \in BOOLEAN /\ RunSound(run[r], task[r])
  BY TaskParts
<1>2. /\ {"failed", "done"} \subseteq Steps \ ({"backoff", "parse", "refused"} \cup Early)
  BY DEF Steps, Early
<1>3. CASE UNCHANGED run
  BY <1>2, <1>3, MoveOn
<1>4. CASE run' = [run EXCEPT ![r].status = "failed"]
  <2>1. run' = [run EXCEPT ![r] = u]
    BY <1>4
  <2>2. /\ u \in Intake!Run /\ u.status = "failed" /\ u.received = run[r].received
        /\ u.staged = run[r].staged /\ u.rejected = run[r].rejected /\ u.rows = run[r].rows
    BY <1>1 DEF Intake!Run
  <2> HIDE DEF u
  <2>3. /\ u.received = u.staged + u.rejected /\ u.staged = Len(u.rows)
        /\ u.status = "completed" \/ u.rows # << >> \/ u.received > 0 =>
             u.received = Len(task[r].body.jobs)
        /\ Whole(u, task[r])
    BY <2>2, <1>1 DEF RunSound, Whole
  <2>4. task' = [task EXCEPT ![r] =
                   [task[r] EXCEPT !.pc = pc, !.transient = task[r].transient]]
    BY <1>2, Going
  <2> QED
    BY <2>1, <2>2, <2>3, <2>4, <1>1, <1>2, PcStep
<1> QED
  BY <1>3, <1>4 DEF Intake!Marked

LEMMA EndKeeps ==
  ASSUME IntakeInv, NEW r \in Runs,
         \/ Intake!MarkStaging(r) \/ Intake!RemoveFiles(r) \/ Intake!MarkFailed(r)
         \/ Intake!Kill(r)
  PROVE  IntakeInv'
<1>1. r \in files => task[r].pc \notin {"idle", "configure", "mark", "done"}
  BY DEF IntakeInv, Intake!NoFilesLeft
<1>2. {"mark", "done", "killed"} \subseteq Steps \ ({"backoff", "parse", "refused"} \cup Early)
  BY DEF Steps, Early
<1>3. CASE Intake!MarkStaging(r)
  BY <1>3, MarkStep DEF Intake!MarkStaging
<1>4. CASE Intake!MarkFailed(r)
  BY <1>1, <1>4, MarkStep DEF Intake!MarkFailed, Intake!At
<1>5. CASE Intake!RemoveFiles(r)
  <2>1. PICK pc \in {"mark", "done"} :
          Intake!Goto(r, pc) /\ files' = files \ {r} /\ UNCHANGED run
    BY <1>5 DEF Intake!RemoveFiles
  <2> QED
    BY <2>1, <1>2, MoveOn
<1>6. CASE Intake!Kill(r)
  BY <1>2, <1>6, MoveOn DEF Intake!Kill
<1> QED
  BY <1>3, <1>4, <1>5, <1>6

LEMMA IntakeNext ==
  ASSUME IntakeInv, Intake!Next \/ UNCHANGED IntakeVars
  PROVE  IntakeInv'
<1>1. CASE UNCHANGED IntakeVars
  BY <1>1 DEF IntakeVars, IntakeInv, Intake!NoFilesLeft
<1>2. ASSUME NEW r \in Runs, Intake!Import(r) PROVE IntakeInv'
  BY <1>2, StartRunKeeps, DownloadKeeps, AskKeeps, ElementKeeps, CommitKeeps, NoCommitKeeps,
     EndKeeps DEF Intake!Import
<1> QED
  BY <1>1, <1>2 DEF Intake!Next

LEMMA IntakeInvHolds ==
  MCSpec => []IntakeInv
<1>1. MCInit => IntakeInv
  BY IntakeInit DEF MCInit
<1>2. IntakeInv /\ [MCNext]_AllVars => IntakeInv'
  BY PartsMove, IntakeNext
<1> QED
  BY <1>1, <1>2, PTL DEF MCSpec

\* Wherever an attempt breaks off, its run's counts are those of the whole feed
\* or zero, and its files are removed unless its process ended
\* (app/imports/importer.py, ImportService.run; app/imports/downloader.py,
\* DownloadService.download).
THEOREM AttemptsEndClean ==
  MCSpec => []TasksEndClean
<1>1. IntakeInv => TasksEndClean
  <2> SUFFICES ASSUME IntakeInv PROVE TasksEndClean
    OBVIOUS
  <2>1. Intake!CountsAddUp
    BY DEF IntakeInv, RunSound, Intake!CountsAddUp, Intake!HasStaged
  <2> QED
    BY <2>1 DEF IntakeInv, TasksEndClean, Intake!TasksEndClean
<1> QED
  BY <1>1, IntakeInvHolds, PTL

\* What is staged for a run is one snapshot of its provider, every element of it
\* that passes the schema and nothing else, whatever breaks off, is retried or is
\* lost between the request and the commit (app/imports/downloader.py,
\* DownloadService.download; app/imports/importer.py, ImportService.run).
THEOREM SnapshotsStagedWhole ==
  MCSpec => []StagedIsOneSnapshot
<1>1. IntakeInv => StagedIsOneSnapshot
  BY DEF IntakeInv, RunSound, Whole, StagedIsOneSnapshot, Intake!StagedIsOneSnapshot,
     Intake!HasStaged
<1> QED
  BY <1>1, IntakeInvHolds, PTL

\* No element that passes the record schema makes the commit of the whole feed
\* fail, except one that repeats a SenderReference (app/imports/schemas.py).
THEOREM OnlyRepeatsFail ==
  MCSpec => []OnlyRepeatsRefused
<1>1. IntakeInv => OnlyRepeatsRefused
  BY DEF IntakeInv, TaskSound, OnlyRepeatsRefused, Intake!OnlyRepeatsRefused, Intake!At
<1> QED
  BY <1>1, IntakeInvHolds, PTL

-----------------------------------------------------------------------------
(***************************************************************************)
(* The intake implements the step with which ImportCatalog begins.         *)
(***************************************************************************)

\* Of a run as ImportCatalog has it: the record of each job in its snapshot or
\* none, and what promotion reads of its counts.
Absence == CHOOSE x : x \notin Intake!Staged

FeedOf(rows) ==
  [j \in References |->
     IF \E i \in DOMAIN rows : rows[i].reference = j
     THEN rows[CHOOSE i \in DOMAIN rows : rows[i].reference = j] ELSE Absence]

Offer(u) == [feed |-> FeedOf(u.rows), rejected |-> u.rejected, received |-> u.received]
offered == [r \in Runs |-> Offer(run[r])]

NoFeed == [j \in References |-> Absence]
NoOffer == [feed |-> NoFeed, rejected |-> 0, received |-> 0]

\* Stage of ImportCatalog: a snapshot of any jobs, all at once, beside any number
\* of rejected elements, from which its HighRejectionRate takes what was received.
StageOne(r) ==
  /\ offered[r] = NoOffer
  /\ \E snapshot \in [References -> Intake!Staged \cup {Absence}], n \in Nat :
       offered' = [offered EXCEPT ![r] =
         [feed |-> snapshot, rejected |-> n,
          received |-> Cardinality({j \in References : snapshot[j] # Absence}) + n]]

\* Rows without a repetition are the snapshot of as many jobs.
LEMMA RowsAreSnapshot ==
  ASSUME NEW rows \in Seq(Intake!Staged), ~Intake!Repeats(rows)
  PROVE  /\ FeedOf(rows) \in [References -> Intake!Staged \cup {Absence}]
         /\ Cardinality({j \in References : FeedOf(rows)[j] # Absence}) = Len(rows)
<1> DEFINE n == Len(rows)
           K == {j \in References : FeedOf(rows)[j] # Absence}
           f == [i \in 1 .. n |-> rows[i].reference]
<1>1. n \in Nat /\ DOMAIN rows = 1 .. n /\ \A i \in 1 .. n : rows[i] \in Intake!Staged
  OBVIOUS
<1>2. \A i \in 1 .. n : rows[i].reference \in References
  BY <1>1 DEF Intake!Staged
<1>3. \A i, k \in 1 .. n : rows[i].reference = rows[k].reference => i = k
  BY <1>1 DEF Intake!Repeats
<1>4. Absence \notin Intake!Staged
  BY NoSetContainsEverything DEF Absence
<1>5. \A j \in References : \A i \in 1 .. n :
        rows[i].reference = j => FeedOf(rows)[j] = rows[i]
  <2> SUFFICES ASSUME NEW j \in References, NEW i \in 1 .. n, rows[i].reference = j
               PROVE  FeedOf(rows)[j] = rows[i]
    OBVIOUS
  <2>1. (CHOOSE k \in DOMAIN rows : rows[k].reference = j) = i
    BY <1>1, <1>3
  <2> QED
    BY <2>1, <1>1 DEF FeedOf
<1>6. \A j \in References :
        (~\E i \in 1 .. n : rows[i].reference = j) => FeedOf(rows)[j] = Absence
  BY <1>1 DEF FeedOf
<1>7. FeedOf(rows) \in [References -> Intake!Staged \cup {Absence}]
  <2>1. \A j \in References : FeedOf(rows)[j] \in Intake!Staged \cup {Absence}
    BY <1>1, <1>5, <1>6
  <2>2. FeedOf(rows) = [j \in References |-> FeedOf(rows)[j]]
    BY DEF FeedOf
  <2> QED
    BY <2>1, <2>2
<1>8. K = {f[i] : i \in 1 .. n}
  BY <1>1, <1>2, <1>4, <1>5, <1>6
<1>9. f \in Bijection(1 .. n, K)
  BY <1>3, <1>8 DEF Bijection, Injection, IsInjective, Surjection
<1> HIDE DEF n, K, f
<1>10. Cardinality(K) = n
  <2>1. IsFiniteSet(1 .. n) /\ Cardinality(1 .. n) = n
    <3>1. IsFiniteSet(1 .. n) /\ Cardinality(1 .. n) = IF 1 > n THEN 0 ELSE n - 1 + 1
      BY <1>1, FS_Interval
    <3> QED
      BY <3>1, <1>1
  <2>2. ExistsBijection(1 .. n, K)
    BY <1>9 DEF ExistsBijection
  <2> QED
    BY <2>1, <2>2, FS_Bijection
<1> QED
  BY <1>7, <1>10 DEF n, K

\* The one commit of a run stages it.
LEMMA CommitStages ==
  ASSUME IntakeInv, NEW r \in Runs, Intake!EndOfFeed(r), Intake!Flushes(r),
         run' = [run EXCEPT ![r] = Intake!Completed(r)]
  PROVE  StageOne(r)
<1> DEFINE o == task[r]
           u == run[r]
           v == Intake!Completed(r)
           snapshot == FeedOf(o.staged)
<1>1. /\ o \in Intake!Task /\ TaskSound(o) /\ RunSound(u, o) /\ o.pc = "parse"
      /\ run \in [Runs -> Intake!Run]
  BY TaskParts DEF Intake!EndOfFeed, Intake!At, IntakeInv
<1>2. u.rows = << >> /\ u.received = 0 /\ u.rejected = 0
  BY <1>1 DEF RunSound, Fresh
<1>3. offered[r] = NoOffer
  <2>1. FeedOf(<< >>) = NoFeed
    BY DEF FeedOf, NoFeed
  <2> QED
    BY <1>2, <2>1 DEF offered, Offer, NoOffer
<1>4. /\ o.staged \in Seq(Intake!Staged) /\ ~Intake!Repeats(o.staged)
      /\ o.rejected \in Nat /\ o.received = Len(o.staged) + o.rejected
  BY <1>1 DEF Intake!Task, TaskSound, Intake!Flushes
<1>5. /\ snapshot \in [References -> Intake!Staged \cup {Absence}]
      /\ Cardinality({j \in References : snapshot[j] # Absence}) = Len(o.staged)
  BY <1>4, RowsAreSnapshot
<1>6. v.rows = o.staged /\ v.rejected = o.rejected /\ v.received = o.received
  BY DEF Intake!Completed
<1> HIDE DEF v, snapshot
<1>7. Offer(v) =
        [feed |-> snapshot, rejected |-> o.rejected,
         received |-> Cardinality({j \in References : snapshot[j] # Absence}) + o.rejected]
  BY <1>4, <1>5, <1>6 DEF Offer, snapshot
<1>8. offered' = [offered EXCEPT ![r] = Offer(v)]
  <2>1. \A q \in Runs : run'[q] = IF q = r THEN v ELSE run[q]
    BY <1>1 DEF v
  <2>2. offered' = [q \in Runs |-> Offer(run'[q])]
    BY DEF offered, Offer
  <2>3. \A q \in Runs : Offer(run'[q]) = IF q = r THEN Offer(v) ELSE Offer(run[q])
    BY <2>1
  <2>4. offered = [q \in Runs |-> Offer(run[q])]
    BY DEF offered
  <2> QED
    BY <2>2, <2>3, <2>4, Zenon
<1> QED
  BY <1>3, <1>4, <1>5, <1>7, <1>8 DEF StageOne

\* No other step shows the promotion anything.
LEMMA NothingElseStages ==
  ASSUME IntakeInv, NEW r \in Runs, NEW s \in {"processing", "failed"},
         run' = [run EXCEPT ![r].status = s]
  PROVE  UNCHANGED offered
<1>1. run \in [Runs -> Intake!Run]
  BY DEF IntakeInv
<1>2. \A q \in Runs : /\ run'[q].rows = run[q].rows /\ run'[q].rejected = run[q].rejected
                      /\ run'[q].received = run[q].received
  BY <1>1 DEF Intake!Run
<1> QED
  BY <1>2 DEF offered, Offer

\* Of what a task goes through, the promotion sees the Stage of ImportCatalog and
\* nothing else: a feed appears in the commit that counts it, one record of a job
\* and each element received either staged or rejected, and never changes
\* (app/imports/importer.py, ImportService.run).
THEOREM IntakeImplementsStage ==
  MCSpec => offered = [r \in Runs |-> NoOffer] /\ [][\E r \in Runs : StageOne(r)]_offered
<1>1. MCInit => offered = [r \in Runs |-> NoOffer]
  <2> SUFFICES ASSUME MCInit PROVE offered = [r \in Runs |-> NoOffer]
    OBVIOUS
  <2>1. \A r \in Runs : run[r].rows = << >> /\ run[r].rejected = 0 /\ run[r].received = 0
    BY DEF MCInit, Intake!Init
  <2>2. FeedOf(<< >>) = NoFeed
    BY DEF FeedOf, NoFeed
  <2> QED
    BY <2>1, <2>2 DEF offered, Offer, NoOffer
<1>2. IntakeInv /\ [MCNext]_AllVars => [\E r \in Runs : StageOne(r)]_offered
  <2> SUFFICES ASSUME IntakeInv, [MCNext]_AllVars
               PROVE  (\E r \in Runs : StageOne(r)) \/ UNCHANGED offered
    OBVIOUS
  <2>1. CASE UNCHANGED run
    BY <2>1 DEF offered
  <2>2. ASSUME NEW r \in Runs, Intake!Import(r), ~(UNCHANGED run)
        PROVE  StageOne(r) \/ UNCHANGED offered
    <3>1. CASE Intake!Commit(r) \/ Intake!CommitUnconfirmed(r)
      BY <3>1, CommitStages DEF Intake!Commit, Intake!CommitUnconfirmed
    <3>2. CASE Intake!StartRun(r)
      BY <3>2, NothingElseStages DEF Intake!StartRun
    <3>3. CASE Intake!Marked(r)
      BY <3>3, <2>2, NothingElseStages DEF Intake!Marked
    <3>4. Intake!Commit(r) \/ Intake!CommitUnconfirmed(r) \/ Intake!StartRun(r) \/ Intake!Marked(r)
      BY <2>2 DEF Intake!Import, Intake!Download, Intake!Misconfigured, Intake!Ask,
         Intake!Unreachable, Intake!RefuseAddress, Intake!Backoff, Intake!Receive,
         Intake!Interrupt, Intake!BreakOff, Intake!TooLarge, Intake!Extract,
         Intake!RejectArchive, Intake!StageJob, Intake!RejectJob, Intake!SyntaxError,
         Intake!RefuseFlush, Intake!DatabaseFails, Intake!MarkStaging, Intake!RemoveFiles,
         Intake!MarkFailed, Intake!Kill
    <3> QED
      BY <3>1, <3>2, <3>3, <3>4
  <2> QED
    BY <2>1, <2>2, PartsMove DEF IntakeVars, Intake!Next
<1> QED
  BY <1>1, <1>2, IntakeInvHolds, PTL DEF MCSpec

-----------------------------------------------------------------------------
(***************************************************************************)
(* Affiliate links.                                                        *)
(***************************************************************************)

Elems(s) == {s[i] : i \in DOMAIN s}
NoRepeat(s) == \A i, k \in DOMAIN s : s[i] = s[k] => i = k

LEMMA HeadAndTail ==
  ASSUME NEW S, NEW s \in Seq(S), s # << >>
  PROVE  /\ Head(s) \in S /\ Tail(s) \in Seq(S)
         /\ Elems(s) = {Head(s)} \cup Elems(Tail(s))
         /\ NoRepeat(s) => NoRepeat(Tail(s)) /\ Head(s) \notin Elems(Tail(s))
<1> DEFINE t == Tail(s)
<1>1. /\ Len(s) \in Nat \ {0} /\ DOMAIN s = 1 .. Len(s) /\ t \in Seq(S) /\ Head(s) = s[1]
      /\ DOMAIN t = 1 .. (Len(s) - 1) /\ \A i \in DOMAIN t : t[i] = s[i + 1]
      /\ Head(s) \in S
  OBVIOUS
<1> HIDE DEF t
<1>2. \A i \in DOMAIN t : i + 1 \in DOMAIN s /\ i + 1 # 1 /\ i \in Nat
  BY <1>1
<1>3. \A i \in DOMAIN s : i = 1 \/ (i - 1 \in DOMAIN t /\ s[i] = t[i - 1])
  BY <1>1
<1>4. 1 \in DOMAIN s
  BY <1>1
<1>5. Elems(s) = {Head(s)} \cup Elems(t)
  <2>1. \A i \in DOMAIN s : s[i] \in {Head(s)} \cup Elems(t)
    BY <1>1, <1>3 DEF Elems
  <2>2. {Head(s)} \cup Elems(t) \subseteq Elems(s)
    BY <1>1, <1>2, <1>4 DEF Elems
  <2> QED
    BY <2>1, <2>2 DEF Elems
<1>6. ASSUME NoRepeat(s) PROVE NoRepeat(t) /\ Head(s) \notin Elems(t)
  <2>1. \A i, k \in DOMAIN t : t[i] = t[k] => i + 1 = k + 1
    BY <1>1, <1>2, <1>6 DEF NoRepeat
  <2>2. NoRepeat(t)
    BY <1>2, <2>1 DEF NoRepeat
  <2>3. \A i \in DOMAIN t : t[i] # s[1]
    BY <1>1, <1>2, <1>4, <1>6 DEF NoRepeat
  <2> QED
    BY <2>2, <2>3, <1>1 DEF Elems
<1> QED
  BY <1>1, <1>5, <1>6 DEF t

\* A list cut in two.
LEMMA Cuts ==
  ASSUME NEW S, NEW s \in Seq(S), NEW n \in Nat \ {0}
  PROVE  LET first == SubSeq(s, 1, IF n < Len(s) THEN n ELSE Len(s))
             rest == SubSeq(s, n + 1, Len(s))
         IN /\ first \in Seq(S) /\ rest \in Seq(S)
            /\ Elems(s) = Elems(first) \cup Elems(rest)
            /\ NoRepeat(s) => /\ NoRepeat(first) /\ NoRepeat(rest)
                              /\ Elems(first) \cap Elems(rest) = {}
            /\ n >= Len(s) => rest = << >> /\ Elems(first) = Elems(s)
<1> DEFINE l == Len(s)
           k == IF n < l THEN n ELSE l
           m == IF n < l THEN l - n ELSE 0
           first == SubSeq(s, 1, k)
           rest == SubSeq(s, n + 1, l)
<1>1. l \in Nat /\ DOMAIN s = 1 .. l
  OBVIOUS
<1>2. first \in Seq(S) /\ DOMAIN first = 1 .. k /\ \A i \in 1 .. k : first[i] = s[i]
  BY <1>1
<1>3. rest \in Seq(S) /\ DOMAIN rest = 1 .. m /\ \A i \in 1 .. m : rest[i] = s[i + n]
  <2>1. rest \in Seq(S)
    BY <1>1
  <2>2. Len(rest) = m
    BY <1>1
  <2>3. DOMAIN rest = 1 .. m
    BY <2>1, <2>2
  <2>4. ASSUME NEW i \in 1 .. m PROVE rest[i] = s[i + n]
    <3>1. i \in 1 .. l - n /\ n < l
      BY <1>1
    <3>2. (n + 1) + i - 1 = i + n
      BY <3>1
    <3> HIDE DEF l
    <3> QED
      BY <1>1, <3>1, <3>2
  <2> QED
    BY <2>1, <2>3, <2>4
<1> HIDE DEF first, rest, l
<1>4. /\ \A i \in 1 .. m : i \in Int /\ i + n \in 1 .. l /\ i + n \notin 1 .. k
      /\ \A i \in 1 .. k : i \in 1 .. l
      /\ \A i \in 1 .. l : i \in 1 .. k \/ (i - n \in 1 .. m /\ (i - n) + n = i)
      /\ n >= l => m = 0
  <2> HIDE DEF l
  <2>1. CASE n < l
    BY <2>1, <1>1
  <2>2. CASE ~(n < l)
    BY <2>2, <1>1
  <2> QED
    BY <2>1, <2>2
<1> HIDE DEF k, m
<1>5. Elems(s) = Elems(first) \cup Elems(rest)
  <2>1. Elems(first) \cup Elems(rest) \subseteq Elems(s)
    <3>1. \A i \in 1 .. k : first[i] = s[i] /\ i \in DOMAIN s
      BY <1>1, <1>2, <1>4
    <3>2. \A i \in 1 .. m : rest[i] = s[i + n] /\ i + n \in DOMAIN s
      BY <1>1, <1>3, <1>4
    <3>3. Elems(first) \subseteq Elems(s)
      BY <1>2, <3>1 DEF Elems
    <3>4. Elems(rest) \subseteq Elems(s)
      BY <1>3, <3>2 DEF Elems
    <3> QED
      BY <3>3, <3>4
  <2>2. \A i \in 1 .. l : s[i] \in Elems(first) \cup Elems(rest)
    <3> TAKE i \in 1 .. l
    <3>1. CASE i \in 1 .. k
      BY <3>1, <1>2 DEF Elems
    <3>2. CASE i \notin 1 .. k
      <4> DEFINE p == i - n
      <4>1. p \in 1 .. m /\ p + n = i
        BY <3>2, <1>4
      <4> HIDE DEF p
      <4>2. rest[p] = s[i]
        BY <4>1, <1>3
      <4> QED
        BY <4>1, <4>2, <1>3 DEF Elems
    <3> QED
      BY <3>1, <3>2
  <2> QED
    BY <2>1, <2>2, <1>1 DEF Elems
<1>6. ASSUME NoRepeat(s)
      PROVE  NoRepeat(first) /\ NoRepeat(rest) /\ Elems(first) \cap Elems(rest) = {}
  <2>1. NoRepeat(first)
    BY <1>1, <1>2, <1>4, <1>6 DEF NoRepeat
  <2>2. ASSUME NEW i \in 1 .. m, NEW j \in 1 .. m, rest[i] = rest[j]
        PROVE  i = j
    <3>1. i + n = j + n
      BY <2>2, <1>1, <1>3, <1>4, <1>6 DEF NoRepeat
    <3> QED
      BY <3>1, <1>4
  <2>3. ASSUME NEW i \in 1 .. k, NEW j \in 1 .. m PROVE first[i] # rest[j]
    <3> DEFINE p == j + n
    <3>1. p \in DOMAIN s /\ i \in DOMAIN s /\ p # i
      BY <1>1, <1>4
    <3>2. first[i] = s[i] /\ rest[j] = s[p]
      BY <1>2, <1>3
    <3> HIDE DEF p
    <3> QED
      BY <3>1, <3>2, <1>6 DEF NoRepeat
  <2> QED
    BY <2>1, <2>2, <2>3, <1>2, <1>3 DEF NoRepeat, Elems
<1>7. n >= l => rest = << >> /\ Elems(first) = Elems(s)
  <2> SUFFICES ASSUME n >= l PROVE rest = << >> /\ Elems(first) = Elems(s)
    OBVIOUS
  <2>1. rest = << >>
    BY <1>3, <1>4
  <2>2. Elems(rest) = {}
    BY <2>1 DEF Elems
  <2> QED
    BY <2>1, <2>2, <1>5
<1> QED
  BY <1>2, <1>3, <1>5, <1>6, <1>7 DEF first, rest, k, l

LEMMA SetsAgree ==
  /\ \A S : Links!IsFiniteSet(S) => IsFiniteSet(S)
  /\ \A S : Links!Cardinality(S) = Cardinality(S)
  /\ \A s : Links!ToSet(s) = Elems(s)
<1>1. \A S : Links!IsFiniteSet(S) => IsFiniteSet(S)
  BY DEF Links!IsFiniteSet, IsFiniteSet
<1>2. \A S : Links!Cardinality(S) = Cardinality(S)
  BY DEF Links!Cardinality, Cardinality
<1>3. \A s : Links!ToSet(s) = Elems(s)
  BY DEF Links!ToSet, Elems
<1> QED
  BY <1>1, <1>2, <1>3

\* The lists of a set of jobs name each of them once.
LEMMA ListsOfSets ==
  ASSUME NEW S, IsFiniteSet(S), NEW s \in Links!SetToSeqs(S)
  PROVE  s \in Seq(S) /\ NoRepeat(s) /\ Elems(s) = S /\ (s = << >> <=> S = {})
<1> DEFINE n == Cardinality(S)
<1>1. n \in Nat
  BY FS_CardinalityType
<1>2. s \in [1 .. n -> S] /\ \A i, k \in 1 .. n : i # k => s[i] # s[k]
  BY SetsAgree DEF Links!SetToSeqs
<1>3. s \in Seq(S) /\ NoRepeat(s) /\ Elems(s) \subseteq S
  BY <1>1, <1>2 DEF NoRepeat, Elems
<1> HIDE DEF n
<1>4. /\ s \in Injection(1 .. n, S) /\ IsFiniteSet(1 .. n) /\ Cardinality(1 .. n) = n
  <2>1. IsFiniteSet(1 .. n) /\ Cardinality(1 .. n) = IF 1 > n THEN 0 ELSE n - 1 + 1
    BY <1>1, FS_Interval
  <2>2. s \in Injection(1 .. n, S)
    BY <1>2 DEF Injection, IsInjective
  <2> QED
    BY <2>1, <2>2, <1>1
<1>5. s \in Surjection(1 .. n, S)
  BY <1>4, FS_Injection DEF n
<1>6. Elems(s) = S
  BY <1>2, <1>5 DEF Surjection, Elems
<1>7. s = << >> <=> S = {}
  <2>1. s = << >> => S = {}
    BY <1>6 DEF Elems
  <2>2. S = {} => s = << >>
    BY <1>2, <1>6, FS_EmptySet DEF n
  <2> QED
    BY <2>1, <2>2
<1> QED
  BY <1>3, <1>6, <1>7

\* The lists of a statement name no job twice.
JobLists == {s \in Seq(Linkable) : NoRepeat(s)}

\* What a request or the script may hold; its lists are any sequences of jobs.
AnyWriter ==
  [pc : {"idle", "reviewed", "insert", "inserted", "selected", "done"},
   provider : Owners,
   asked : SUBSET Linkable,
   slice : JobLists, todo : JobLists, rest : JobLists,
   attempt : 1 .. MaxHashAttempts,
   own : SUBSET Links!Link, generated : SUBSET Links!Link, excluded : SUBSET Linkable,
   outcome : {"none", "answered", "error"}]

LinksTyped ==
  /\ linked \in [Linkable -> {"active", "inactive", "gone"}]
  /\ link \subseteq Links!Link
  /\ writer \in [Links!Writers -> AnyWriter]
  /\ listed \subseteq Owners
  /\ gap \subseteq Linkable

\* No two rows, committed or not, are of one job or have one short hash.
RowsApart ==
  /\ \A l, m \in link : l[1] = m[1] \/ l[2] = m[2] => l = m
  /\ \A w \in Links!Writers : \A l \in writer[w].own, m \in link :
       l[1] = m[1] \/ l[2] = m[2] => l = m
  /\ \A w, v \in Links!Writers : \A l \in writer[w].own, m \in writer[v].own :
       l[1] = m[1] \/ l[2] = m[2] => l = m

\* Job j needs no row any more: it has one, or is removed.
Settled(x, j) == linked[j] = "gone" \/ \E l \in link \cup x.own : l[1] = j

\* A running statement: its jobs are settled or still to do, and what was
\* inserted is of no job that is.
StatementOK(x) ==
  /\ NoRepeat(x.slice) /\ NoRepeat(x.todo) /\ NoRepeat(x.rest)
  /\ Elems(x.todo) \subseteq Elems(x.slice)
  /\ Elems(x.slice) \cap Elems(x.rest) = {}
  /\ \A l \in x.own : l[1] \notin Elems(x.todo) \cup Elems(x.rest)
  /\ \A j \in Elems(x.slice) \ Elems(x.todo) : Settled(x, j)

WriterOK(x) ==
  /\ x.pc # "done" => x.outcome = "none"
  /\ x.pc \notin {"insert", "inserted", "selected"} => x.own = {}
  /\ x.pc = "insert" => StatementOK(x)

\* An administrator's request is one statement; the links it has read stay.
RequestOK(x) ==
  /\ x.pc = "insert" => x.rest = << >> /\ Elems(x.slice) = x.asked \ x.excluded
  /\ x.pc = "inserted" =>
       Elems(x.slice) = x.asked \ x.excluded /\ \A j \in Elems(x.slice) : Settled(x, j)
  /\ x.pc = "selected" \/ x.outcome = "answered" =>
       \A j \in x.asked \ x.excluded :
         linked[j] = "gone" \/ \E l \in x.generated : l[1] = j /\ l \in link \cup x.own

\* A job in the gap is still to come up.
GapOK ==
  \A j \in gap :
    linked[j] = "active" /\ OwnerOf[j] \in listed /\ \A l \in link : l[1] # j

LinksInv ==
  /\ LinksTyped
  /\ RowsApart
  /\ \A w \in Links!Writers : WriterOK(writer[w])
  /\ \A a \in Admins : RequestOK(writer[a])
  /\ GapOK
  /\ writer[Script].outcome = "answered" => gap = {}

LEMMA IdleFits ==
  /\ Links!Idle \in AnyWriter
  /\ Links!Idle.pc = "idle" /\ Links!Idle.own = {} /\ Links!Idle.outcome = "none"
<1>1. 1 \in 1 .. MaxHashAttempts
  BY LinksAreAsAssumed DEF Links!LinksAssumption
<1>2. << >> \in JobLists
  BY DEF JobLists, NoRepeat
<1>3. Links!SomeProvider \in Owners
  BY LinksAreAsAssumed DEF Links!SomeProvider, Links!LinksAssumption
<1> QED
  BY <1>1, <1>2, <1>3 DEF Links!Idle, AnyWriter

LEMMA LinksInit ==
  ASSUME Links!Init
  PROVE  LinksInv
<1>1. /\ \A w \in Links!Writers : writer[w] = Links!Idle
      /\ link = {} /\ gap = {}
  BY DEF Links!Init
<1>2. LinksTyped
  BY IdleFits DEF Links!Init, LinksTyped
<1>3. RowsApart
  BY <1>1, IdleFits DEF RowsApart
<1>4. \A w \in Links!Writers : WriterOK(writer[w])
  BY <1>1, IdleFits DEF WriterOK
<1>5. \A a \in Admins : RequestOK(writer[a])
  BY <1>1, IdleFits DEF RequestOK, Links!Writers
<1>6. GapOK
  BY <1>1 DEF GapOK
<1> QED
  BY <1>1, <1>2, <1>3, <1>4, <1>5, <1>6 DEF LinksInv

\* A step of one writer that commits nothing.
LEMMA WriterStep ==
  ASSUME LinksInv, NEW w \in Links!Writers, NEW r \in AnyWriter,
         writer' = [writer EXCEPT ![w] = r], UNCHANGED <<linked, link, listed, gap>>,
         WriterOK(r), w \in Admins => RequestOK(r),
         w = Script => (r.outcome = "answered" => gap = {}),
         \A l \in r.own \ writer[w].own :
           /\ \A m \in link \cup r.own : l[1] = m[1] \/ l[2] = m[2] => l = m
           /\ \A v \in Links!Writers \ {w} : \A m \in writer[v].own :
                l[1] # m[1] /\ l[2] # m[2]
  PROVE  LinksInv'
<1>1. /\ LinksTyped /\ RowsApart /\ GapOK
      /\ \A v \in Links!Writers : WriterOK(writer[v])
      /\ \A a \in Admins : RequestOK(writer[a])
      /\ writer[Script].outcome = "answered" => gap = {}
  BY DEF LinksInv
<1>2. \A v \in Links!Writers : writer'[v] = IF v = w THEN r ELSE writer[v]
  BY <1>1 DEF LinksTyped
<1>3. LinksTyped'
  BY <1>1 DEF LinksTyped
<1>4. RowsApart'
  <2>1. \A v \in Links!Writers : \A l \in writer'[v].own, m \in link :
          l[1] = m[1] \/ l[2] = m[2] => l = m
    BY <1>1, <1>2 DEF RowsApart
  <2>2. ASSUME NEW v \in Links!Writers, NEW u \in Links!Writers,
               NEW l \in writer'[v].own, NEW m \in writer'[u].own, l[1] = m[1] \/ l[2] = m[2]
        PROVE  l = m
    <3>1. CASE v # w /\ u # w
      BY <3>1, <2>2, <1>1, <1>2 DEF RowsApart
    <3>2. CASE v = w /\ u = w
      <4>1. l \in r.own /\ m \in r.own
        BY <3>2, <1>2
      <4>2. CASE l \in writer[w].own /\ m \in writer[w].own
        BY <4>2, <2>2, <1>1 DEF RowsApart
      <4>3. CASE l \notin writer[w].own
        BY <4>1, <4>3, <2>2
      <4>4. CASE m \notin writer[w].own
        BY <4>1, <4>4, <2>2
      <4> QED
        BY <4>2, <4>3, <4>4
    <3>3. CASE v = w /\ u # w
      <4>1. l \in r.own /\ m \in writer[u].own
        BY <3>3, <1>2
      <4>2. CASE l \in writer[w].own
        BY <4>1, <4>2, <2>2, <1>1 DEF RowsApart
      <4>3. CASE l \notin writer[w].own
        BY <4>1, <4>3, <2>2, <3>3
      <4> QED
        BY <4>2, <4>3
    <3>4. CASE v # w /\ u = w
      <4>1. m \in r.own /\ l \in writer[v].own
        BY <3>4, <1>2
      <4>2. CASE m \in writer[w].own
        BY <4>1, <4>2, <2>2, <1>1 DEF RowsApart
      <4>3. CASE m \notin writer[w].own
        BY <4>1, <4>3, <2>2, <3>4
      <4> QED
        BY <4>2, <4>3
    <3> QED
      BY <3>1, <3>2, <3>3, <3>4
  <2> QED
    BY <1>1, <2>1, <2>2 DEF RowsApart
<1>5. (\A v \in Links!Writers : WriterOK(writer[v]))'
  BY <1>1, <1>2 DEF WriterOK, StatementOK, Settled
<1>6. (\A a \in Admins : RequestOK(writer[a]))'
  <2>1. \A a \in Admins : a \in Links!Writers
    BY DEF Links!Writers
  <2> QED
    BY <1>1, <1>2, <2>1 DEF RequestOK, Settled
<1>7. GapOK'
  BY <1>1 DEF GapOK
<1>8. (writer[Script].outcome = "answered" => gap = {})'
  BY <1>1, <1>2 DEF Links!Writers
<1> QED
  BY <1>3, <1>4, <1>5, <1>6, <1>7, <1>8 DEF LinksInv

\* What is known of a writer.
LEMMA WriterParts ==
  ASSUME LinksInv, NEW w \in Links!Writers
  PROVE  /\ writer[w] \in AnyWriter /\ WriterOK(writer[w])
         /\ w \in Admins => RequestOK(writer[w]) /\ w # Script
BY LinksAreAsAssumed DEF LinksInv, LinksTyped, Links!LinksAssumption

LEMMA FailEndsRight ==
  ASSUME LinksInv, NEW w \in Links!Writers, Links!Fail(w), UNCHANGED <<linked, link, listed, gap>>
  PROVE  LinksInv'
<1> DEFINE r == [writer[w] EXCEPT !.pc = "done", !.own = {}, !.outcome = "error"]
<1>1. r \in AnyWriter /\ r.pc = "done" /\ r.own = {} /\ r.outcome = "error"
  BY WriterParts DEF AnyWriter
<1>2. writer' = [writer EXCEPT ![w] = r]
  BY DEF Links!Fail
<1> HIDE DEF r
<1>3. WriterOK(r) /\ RequestOK(r)
  BY <1>1 DEF WriterOK, RequestOK
<1> QED
  BY <1>1, <1>2, <1>3, WriterStep

LEMMA CollideKeeps ==
  ASSUME LinksInv, NEW w \in Links!Writers, writer[w].pc = "insert", Links!Collide(w),
         UNCHANGED <<linked, link, listed, gap>>
  PROVE  LinksInv'
<1> DEFINE x == writer[w]
           back == {l \in x.own : l[1] \notin Links!ToSet(x.slice)}
           r == [x EXCEPT !.attempt = x.attempt + 1, !.todo = x.slice, !.own = back]
<1>1. x \in AnyWriter /\ WriterOK(x) /\ (w \in Admins => RequestOK(x)) /\ x.outcome = "none"
  BY WriterParts DEF WriterOK
<1>2. CASE x.attempt = MaxHashAttempts
  BY <1>2, FailEndsRight DEF Links!Collide
<1>3. CASE x.attempt # MaxHashAttempts
  <2>1. x.attempt + 1 \in 1 .. MaxHashAttempts
    BY <1>1, <1>3, LinksAreAsAssumed DEF AnyWriter, Links!LinksAssumption
  <2>2. back \subseteq x.own /\ \A l \in back : l[1] \notin Elems(x.slice)
    BY SetsAgree
  <2>3. writer' = [writer EXCEPT ![w] = r]
    BY <1>3 DEF Links!Collide
  <2> HIDE DEF back
  <2>4. /\ r \in AnyWriter /\ r.pc = "insert" /\ r.outcome = "none" /\ r.own = back
        /\ r.todo = x.slice /\ r.slice = x.slice /\ r.rest = x.rest /\ r.asked = x.asked
        /\ r.excluded = x.excluded
    BY <1>1, <2>1, <2>2 DEF AnyWriter
  <2> HIDE DEF r, x
  <2>5. WriterOK(r)
    BY <1>1, <2>2, <2>4 DEF WriterOK, StatementOK, x
  <2>6. w \in Admins => RequestOK(r)
    BY <1>1, <2>4 DEF RequestOK, x
  <2>7. \A l \in r.own : l \in writer[w].own
    BY <2>2, <2>4 DEF x
  <2> QED
    BY <2>3, <2>4, <2>5, <2>6, <2>7, WriterStep
<1> QED
  BY <1>2, <1>3

\* The next row: passed over, or inserted.
LEMMA AdvanceKeeps ==
  ASSUME LinksInv, NEW w \in Links!Writers, writer[w].pc = "insert", writer[w].todo # << >>,
         NEW rows \in SUBSET Links!Link, Links!Advance(w, rows),
         UNCHANGED <<linked, link, listed, gap>>,
         \A l \in rows : l[1] = Head(writer[w].todo),
         \E l \in link \cup rows : l[1] = Head(writer[w].todo),
         \A l \in rows \ writer[w].own :
           /\ \A m \in link \cup writer[w].own \cup rows : l[1] = m[1] \/ l[2] = m[2] => l = m
           /\ \A v \in Links!Writers \ {w} : \A m \in writer[v].own :
                l[1] # m[1] /\ l[2] # m[2]
  PROVE  LinksInv'
<1> DEFINE x == writer[w]
           t == Tail(x.todo)
           own == x.own \cup rows
           r == [x EXCEPT !.todo = t, !.own = own]
<1>1. x \in AnyWriter /\ WriterOK(x) /\ (w \in Admins => RequestOK(x)) /\ x.outcome = "none"
  BY WriterParts DEF WriterOK
<1>2. StatementOK(x) /\ x.todo \in Seq(Linkable) /\ x.pc = "insert"
  BY <1>1 DEF WriterOK, AnyWriter, JobLists
<1>3. /\ t \in Seq(Linkable) /\ NoRepeat(t) /\ Elems(x.todo) = {Head(x.todo)} \cup Elems(t)
      /\ Head(x.todo) \notin Elems(t) /\ Head(x.todo) \in Elems(x.slice)
  <2>1. Elems(x.todo) = {Head(x.todo)} \cup Elems(t) /\ t \in Seq(Linkable)
    BY <1>2, HeadAndTail
  <2>2. NoRepeat(x.todo) /\ Elems(x.todo) \subseteq Elems(x.slice)
    BY <1>2 DEF StatementOK
  <2> HIDE DEF x, t
  <2>3. NoRepeat(t) /\ Head(x.todo) \notin Elems(t)
    BY <1>2, <2>2, HeadAndTail DEF x, t
  <2> QED
    BY <2>1, <2>2, <2>3
<1>4. writer' = [writer EXCEPT ![w] = r]
  BY DEF Links!Advance
<1> HIDE DEF t, own
<1> t \in JobLists
  BY <1>3 DEF JobLists
<1>5. own \in SUBSET Links!Link
  BY <1>1 DEF AnyWriter, own
<1>6. /\ r \in AnyWriter /\ r.pc = "insert" /\ r.outcome = "none" /\ r.own = own
      /\ r.todo = t /\ r.slice = x.slice /\ r.rest = x.rest /\ r.asked = x.asked
      /\ r.excluded = x.excluded
  BY <1>1, <1>2, <1>3, <1>5 DEF AnyWriter
<1> HIDE DEF r
<1>7. StatementOK(r)
  <2>1. /\ NoRepeat(r.slice) /\ NoRepeat(r.todo) /\ NoRepeat(r.rest)
        /\ Elems(r.todo) \subseteq Elems(r.slice) /\ Elems(r.slice) \cap Elems(r.rest) = {}
    BY <1>2, <1>3, <1>6 DEF StatementOK
  <2>2. \A l \in r.own : l[1] \notin Elems(r.todo) \cup Elems(r.rest)
    BY <1>2, <1>3, <1>6 DEF StatementOK, own
  <2>3. ASSUME NEW j \in Elems(r.slice) \ Elems(r.todo) PROVE Settled(r, j)
    <3>1. CASE j = Head(x.todo)
      BY <3>1, <1>6 DEF Settled, own
    <3>2. CASE j # Head(x.todo)
      <4>1. Settled(x, j)
        BY <3>2, <2>3, <1>2, <1>3, <1>6 DEF StatementOK
      <4> QED
        BY <4>1, <1>6 DEF Settled, own
    <3> QED
      BY <3>1, <3>2
  <2> QED
    BY <2>1, <2>2, <2>3 DEF StatementOK
<1>8. WriterOK(r)
  BY <1>6, <1>7 DEF WriterOK
<1>9. w \in Admins => RequestOK(r)
  BY <1>1, <1>2, <1>6 DEF RequestOK
<1>10. \A l \in r.own \ writer[w].own :
         /\ \A m \in link \cup r.own : l[1] = m[1] \/ l[2] = m[2] => l = m
         /\ \A v \in Links!Writers \ {w} : \A m \in writer[v].own : l[1] # m[1] /\ l[2] # m[2]
  BY <1>6 DEF own
<1> HIDE DEF x
<1> QED
  BY <1>4, <1>6, <1>8, <1>9, <1>10, WriterStep

LEMMA InsertRowKeeps ==
  ASSUME LinksInv, NEW w \in Links!Writers, Links!InsertRow(w)
  PROVE  LinksInv'
<1> DEFINE x == writer[w]
           head == Head(x.todo)
<1>1. /\ x.pc = "insert" /\ x.todo # << >> /\ UNCHANGED <<linked, link, listed, gap>>
      /\ x \in AnyWriter /\ WriterOK(x)
  BY WriterParts DEF Links!InsertRow, Links!Inserting
<1>2. /\ x.todo \in Seq(Linkable) /\ StatementOK(x) /\ head \in Linkable
      /\ head \in Elems(x.todo)
  <2>1. x.todo \in Seq(Linkable) /\ StatementOK(x)
    BY <1>1 DEF AnyWriter, JobLists, WriterOK
  <2> QED
    BY <2>1, <1>1, HeadAndTail
<1>3. CASE head \in Links!LinkedJobs
  <2>1. Links!Advance(w, {})
    BY <1>3 DEF Links!InsertRow
  <2>2. \E l \in link : l[1] = head
    BY <1>3 DEF Links!LinkedJobs
  <2> QED
    BY <1>1, <2>1, <2>2, AdvanceKeeps
<1>4. CASE head \notin Links!LinkedJobs
  <2>1. Links!Draw(w)
    BY <1>4 DEF Links!InsertRow
  <2>2. PICK h \in Hashes \ UNION {Links!UsedHashes(writer[o].own) : o \in Links!Writers \ {w}} :
          IF h \in Links!UsedHashes(link \cup x.own) THEN Links!Collide(w)
          ELSE Links!Advance(w, {<<head, h>>})
    BY <2>1 DEF Links!Draw
  <2>3. CASE h \in Links!UsedHashes(link \cup x.own)
    BY <2>2, <2>3, <1>1, CollideKeeps
  <2>4. CASE h \notin Links!UsedHashes(link \cup x.own)
    <3> DEFINE n == <<head, h>>
               rows == {n}
    <3>1. Links!Advance(w, rows)
      BY <2>2, <2>4
    <3>2. n \in Links!Link /\ n[1] = head /\ n[2] = h
      BY <1>2, <2>2 DEF Links!Link
    <3>3. \A m \in link \cup x.own : m[1] # head /\ m[2] # h
      <4>1. \A m \in link : m[1] # head
        BY <1>4 DEF Links!LinkedJobs
      <4>2. \A m \in x.own : m[1] # head
        BY <1>2 DEF StatementOK
      <4>3. \A m \in link \cup x.own : m[2] # h
        BY <2>4 DEF Links!UsedHashes
      <4> QED
        BY <4>1, <4>2, <4>3
    <3>4. \A v \in Links!Writers \ {w} : \A m \in writer[v].own : m[1] # head /\ m[2] # h
      <4>1. ASSUME NEW v \in Links!Writers \ {w}, NEW m \in writer[v].own
            PROVE  m[1] # head /\ m[2] # h
        <5>1. Links!LinksOf(writer[v].own, head) = {}
          BY DEF Links!InsertRow, Links!Waiting, Links!WaitsFor
        <5>2. h \notin Links!UsedHashes(writer[v].own)
          BY <2>2
        <5> QED
          BY <5>1, <5>2 DEF Links!LinksOf, Links!UsedHashes
      <4> QED
        BY <4>1
    <3> HIDE DEF n
    <3>5. /\ rows \in SUBSET Links!Link
          /\ \A l \in rows : l[1] = Head(writer[w].todo)
          /\ \E l \in link \cup rows : l[1] = Head(writer[w].todo)
      BY <3>2
    <3>6. \A l \in rows \ writer[w].own :
            /\ \A m \in link \cup writer[w].own \cup rows :
                 l[1] = m[1] \/ l[2] = m[2] => l = m
            /\ \A v \in Links!Writers \ {w} : \A m \in writer[v].own :
                 l[1] # m[1] /\ l[2] # m[2]
      <4>1. \A m \in link \cup x.own : ~(n[1] = m[1] \/ n[2] = m[2])
        BY <3>2, <3>3
      <4>2. \A v \in Links!Writers \ {w} : \A m \in writer[v].own : n[1] # m[1] /\ n[2] # m[2]
        BY <3>2, <3>4
      <4> QED
        BY <4>1, <4>2
    <3> HIDE DEF rows
    <3> QED
      BY <1>1, <3>1, <3>5, <3>6, AdvanceKeeps
  <2> QED
    BY <2>3, <2>4
<1> QED
  BY <1>3, <1>4

\* The first statement of a list.
LEMMA BeginFits ==
  ASSUME NEW x \in AnyWriter, NEW list \in Seq(Linkable), NoRepeat(list), NEW n \in Nat \ {0},
         \A l \in x.own : l[1] \notin Elems(list)
  PROVE  LET r == Links!Begin(x, list, n)
         IN  /\ r \in AnyWriter /\ r.pc = "insert" /\ r.own = x.own /\ r.outcome = x.outcome
             /\ r.asked = x.asked /\ r.excluded = x.excluded /\ StatementOK(r)
             /\ n >= Len(list) => r.rest = << >> /\ Elems(r.slice) = Elems(list)
<1> DEFINE first == SubSeq(list, 1, IF n < Len(list) THEN n ELSE Len(list))
           rest == SubSeq(list, n + 1, Len(list))
           r == [x EXCEPT !.pc = "insert", !.attempt = 1, !.slice = first, !.todo = first,
                          !.rest = rest]
<1>1. /\ first \in Seq(Linkable) /\ rest \in Seq(Linkable)
      /\ Elems(list) = Elems(first) \cup Elems(rest)
      /\ NoRepeat(first) /\ NoRepeat(rest) /\ Elems(first) \cap Elems(rest) = {}
      /\ n >= Len(list) => rest = << >> /\ Elems(first) = Elems(list)
  BY Cuts
<1>2. Links!Begin(x, list, n) = r
  BY DEF Links!Begin
<1>3. 1 \in 1 .. MaxHashAttempts
  BY LinksAreAsAssumed DEF Links!LinksAssumption
<1> HIDE DEF first, rest
<1> first \in JobLists /\ rest \in JobLists
  BY <1>1 DEF JobLists
<1>4. /\ r \in AnyWriter /\ r.pc = "insert" /\ r.own = x.own /\ r.outcome = x.outcome
      /\ r.asked = x.asked /\ r.excluded = x.excluded
      /\ r.slice = first /\ r.todo = first /\ r.rest = rest
  BY <1>1, <1>3 DEF AnyWriter
<1> HIDE DEF r
<1>5. StatementOK(r)
  BY <1>1, <1>4 DEF StatementOK
<1> QED
  BY <1>1, <1>2, <1>4, <1>5

LEMMA EndInsertKeeps ==
  ASSUME LinksInv, NEW w \in Links!Writers, Links!EndInsert(w)
  PROVE  LinksInv'
<1> DEFINE x == writer[w]
<1>1. /\ x.pc = "insert" /\ x.todo = << >> /\ UNCHANGED <<linked, link, listed, gap>>
      /\ x \in AnyWriter /\ WriterOK(x) /\ StatementOK(x) /\ x.outcome = "none"
      /\ w \in Admins => RequestOK(x) /\ x.rest = << >>
  BY WriterParts DEF Links!EndInsert, WriterOK, RequestOK
<1>2. CASE \E l \in x.own : linked[l[1]] = "gone"
  <2>1. Links!Fail(w)
    BY <1>2 DEF Links!EndInsert
  <2> QED
    BY <2>1, <1>1, FailEndsRight
<1>3. CASE ~(\E l \in x.own : linked[l[1]] = "gone") /\ x.rest = << >>
  <2> DEFINE r == [x EXCEPT !.pc = "inserted"]
  <2>1. writer' = [writer EXCEPT ![w] = r]
    BY <1>3 DEF Links!EndInsert
  <2>2. /\ r \in AnyWriter /\ r.pc = "inserted" /\ r.own = x.own /\ r.outcome = "none"
        /\ r.slice = x.slice /\ r.asked = x.asked /\ r.excluded = x.excluded
    BY <1>1 DEF AnyWriter
  <2> HIDE DEF r
  <2>3. WriterOK(r)
    BY <2>2 DEF WriterOK
  <2>4. w \in Admins => RequestOK(r)
    <3>1. Elems(x.todo) = {}
      BY <1>1 DEF Elems
    <3>2. \A j \in Elems(x.slice) : Settled(x, j)
      BY <1>1, <3>1 DEF StatementOK
    <3> HIDE DEF x
    <3> QED
      BY <1>1, <2>2, <3>2 DEF RequestOK, Settled
  <2>5. r.own \ writer[w].own = {}
    BY <2>2
  <2> QED
    BY <1>1, <2>1, <2>2, <2>3, <2>4, <2>5, WriterStep
<1>4. CASE ~(\E l \in x.own : linked[l[1]] = "gone") /\ x.rest # << >>
  <2> DEFINE r == Links!Begin(x, x.rest, LinkSlice)
  <2>1. writer' = [writer EXCEPT ![w] = r]
    BY <1>4 DEF Links!EndInsert
  <2>2. w \notin Admins
    BY <1>1, <1>4
  <2>3. /\ x.rest \in Seq(Linkable) /\ NoRepeat(x.rest)
        /\ \A l \in x.own : l[1] \notin Elems(x.rest)
    BY <1>1 DEF AnyWriter, JobLists, StatementOK
  <2>4. LinkSlice \in Nat \ {0}
    BY LinksAreAsAssumed DEF Links!LinksAssumption
  <2> HIDE DEF x
  <2>5. r \in AnyWriter /\ r.pc = "insert" /\ r.own = x.own /\ r.outcome = "none" /\ StatementOK(r)
    BY <1>1, <2>3, <2>4, BeginFits
  <2> HIDE DEF r
  <2>6. WriterOK(r)
    BY <2>5 DEF WriterOK
  <2>7. r.own \ writer[w].own = {}
    BY <2>5 DEF x
  <2> QED
    BY <1>1, <2>1, <2>2, <2>5, <2>6, <2>7, WriterStep
<1> QED
  BY <1>2, <1>3, <1>4

LEMMA LookupLinksKeeps ==
  ASSUME LinksInv, NEW a \in Admins, NEW p \in Owners, NEW jobs \in SUBSET Linkable,
         Links!Lookup(a, p, jobs)
  PROVE  LinksInv'
<1> DEFINE r == [Links!Idle EXCEPT !.pc = "reviewed", !.provider = p,
                                   !.asked = Links!OfProvider(p, jobs)]
<1>1. a \in Links!Writers
  BY DEF Links!Writers
<1>2. Links!OfProvider(p, jobs) \in SUBSET Linkable /\ p \in Owners
  BY DEF Links!OfProvider
<1>3. r \in AnyWriter /\ r.pc = "reviewed" /\ r.own = {} /\ r.outcome = "none"
  BY <1>2, IdleFits DEF AnyWriter
<1>4. writer' = [writer EXCEPT ![a] = r] /\ UNCHANGED <<linked, link, listed, gap>>
  BY DEF Links!Lookup
<1> HIDE DEF r
<1>5. WriterOK(r) /\ RequestOK(r)
  BY <1>3 DEF WriterOK, RequestOK
<1> QED
  BY <1>1, <1>3, <1>4, <1>5, WriterStep

LEMMA GenerateKeeps ==
  ASSUME LinksInv, NEW a \in Admins, NEW p \in Owners, NEW confirmed \in SUBSET Linkable,
         Links!Generate(a, p, confirmed)
  PROVE  LinksInv'
<1> DEFINE valid == Links!OfProvider(p, confirmed)
           t == [Links!Idle EXCEPT !.provider = p, !.asked = confirmed,
                                   !.excluded = confirmed \ valid]
<1>1. a \in Links!Writers /\ UNCHANGED <<linked, link, listed, gap>> /\ a # Script
  BY LinksAreAsAssumed DEF Links!Writers, Links!Generate, Links!LinksAssumption
<1>2. valid \in SUBSET confirmed /\ p \in Owners
  BY DEF Links!OfProvider
<1>3. /\ valid = {} => writer' = [writer EXCEPT ![a] =
                          [t EXCEPT !.pc = "done", !.outcome = "answered"]]
      /\ valid # {} => \E list \in Links!SetToSeqs(valid) :
                          writer' = [writer EXCEPT ![a] = Links!Begin(t, list, Len(list))]
  BY DEF Links!Generate
<1> HIDE DEF valid
<1>4. /\ t \in AnyWriter /\ t.own = {} /\ t.outcome = "none" /\ t.asked = confirmed
      /\ t.excluded = confirmed \ valid
  BY <1>2, IdleFits DEF AnyWriter
<1> HIDE DEF t
<1>5. CASE valid = {}
  <2> DEFINE r == [t EXCEPT !.pc = "done", !.outcome = "answered"]
  <2>1. r \in AnyWriter /\ r.pc = "done" /\ r.own = {} /\ r.asked = confirmed /\ r.excluded = confirmed
    BY <1>4, <1>5 DEF AnyWriter
  <2>2. writer' = [writer EXCEPT ![a] = r]
    BY <1>3, <1>5
  <2> HIDE DEF r
  <2>3. WriterOK(r) /\ RequestOK(r)
    BY <2>1 DEF WriterOK, RequestOK
  <2> QED
    BY <1>1, <2>1, <2>2, <2>3, WriterStep
<1>6. CASE valid # {}
  <2>1. PICK list \in Links!SetToSeqs(valid) :
          writer' = [writer EXCEPT ![a] = Links!Begin(t, list, Len(list))]
    BY <1>3, <1>6
  <2>2. IsFiniteSet(valid)
    <3>1. IsFiniteSet(Linkable)
      BY LinksAreAsAssumed, SetsAgree DEF Links!LinksAssumption
    <3> QED
      BY <1>2, <3>1, FS_Subset
  <2>3. list \in Seq(valid) /\ NoRepeat(list) /\ Elems(list) = valid /\ list # << >>
    BY <1>6, <2>2, ListsOfSets
  <2>4. list \in Seq(Linkable) /\ Len(list) \in Nat \ {0}
    BY <1>2, <2>3
  <2> DEFINE r == Links!Begin(t, list, Len(list))
  <2>5. /\ r \in AnyWriter /\ r.pc = "insert" /\ r.own = {} /\ r.outcome = "none"
        /\ r.asked = confirmed /\ r.excluded = confirmed \ valid /\ StatementOK(r)
        /\ r.rest = << >> /\ Elems(r.slice) = valid
    BY <1>4, <2>3, <2>4, BeginFits
  <2>6. writer' = [writer EXCEPT ![a] = r]
    BY <2>1
  <2> HIDE DEF r
  <2>7. WriterOK(r) /\ RequestOK(r)
    BY <1>2, <2>5 DEF WriterOK, RequestOK
  <2> QED
    BY <1>1, <2>5, <2>6, <2>7, WriterStep
<1> QED
  BY <1>5, <1>6

LEMMA SelectLinksKeeps ==
  ASSUME LinksInv, NEW a \in Admins, Links!SelectLinks(a)
  PROVE  LinksInv'
<1> DEFINE x == writer[a]
           read == {l \in link \cup x.own : l[1] \in Links!ToSet(x.slice)}
           r == [x EXCEPT !.pc = "selected", !.generated = read]
<1>1. a \in Links!Writers
  BY DEF Links!Writers
<1>2. /\ x \in AnyWriter /\ x.pc = "inserted" /\ RequestOK(x) /\ a # Script
      /\ x.outcome = "none" /\ UNCHANGED <<linked, link, listed, gap>> /\ link \subseteq Links!Link
  BY <1>1, WriterParts DEF Links!SelectLinks, WriterOK, LinksInv, LinksTyped
<1>3. writer' = [writer EXCEPT ![a] = r]
  BY DEF Links!SelectLinks
<1>4. read \in SUBSET Links!Link /\ \A l : l \in read <=> l \in link \cup x.own /\ l[1] \in Elems(x.slice)
  BY <1>2, SetsAgree DEF AnyWriter
<1> HIDE DEF read
<1>5. /\ r \in AnyWriter /\ r.pc = "selected" /\ r.own = x.own /\ r.outcome = "none"
      /\ r.asked = x.asked /\ r.excluded = x.excluded /\ r.generated = read
  BY <1>2, <1>4 DEF AnyWriter
<1> HIDE DEF r
<1>6. WriterOK(r)
  BY <1>5 DEF WriterOK
<1>7. RequestOK(r)
  <2>1. ASSUME NEW j \in x.asked \ x.excluded, linked[j] # "gone"
        PROVE  \E l \in read : l[1] = j /\ l \in link \cup x.own
    <3>1. j \in Elems(x.slice) /\ Settled(x, j)
      BY <1>2 DEF RequestOK
    <3> QED
      BY <2>1, <3>1, <1>4 DEF Settled
  <2> QED
    BY <2>1, <1>5 DEF RequestOK
<1>8. r.own \ writer[a].own = {}
  BY <1>5
<1> QED
  BY <1>1, <1>2, <1>3, <1>5, <1>6, <1>7, <1>8, WriterStep

LEMMA NextRequestKeeps ==
  ASSUME LinksInv, NEW a \in Admins, Links!NextRequest(a)
  PROVE  LinksInv'
<1>1. WriterOK(Links!Idle) /\ RequestOK(Links!Idle)
  BY IdleFits DEF WriterOK, RequestOK
<1>2. a \in Links!Writers /\ a # Script
  BY WriterParts DEF Links!Writers
<1> QED
  BY <1>1, <1>2, IdleFits, WriterStep DEF Links!NextRequest

\* A commit: the rows of one writer are everyone's.
LEMMA PublishStep ==
  ASSUME LinksInv, NEW w \in Links!Writers, NEW r \in AnyWriter,
         writer' = [writer EXCEPT ![w] = r], Links!Publish(w), UNCHANGED <<linked, listed>>,
         r.own = {}, r.pc \in {"reviewed", "done"}, r.pc # "done" => r.outcome = "none",
         w = Script => r.outcome = "none",
         w \in Admins =>
           \A j \in r.asked \ r.excluded :
             linked[j] = "gone" \/ \E l \in r.generated : l[1] = j /\ l \in link \cup writer[w].own
  PROVE  LinksInv'
<1> DEFINE own == writer[w].own
<1>1. /\ LinksTyped /\ RowsApart /\ GapOK
      /\ \A v \in Links!Writers : WriterOK(writer[v])
      /\ \A a \in Admins : RequestOK(writer[a])
      /\ writer[Script].outcome = "answered" => gap = {}
  BY DEF LinksInv
<1>2. \A v \in Links!Writers : writer'[v] = IF v = w THEN r ELSE writer[v]
  BY <1>1 DEF LinksTyped
<1>3. link' = link \cup own /\ gap' = gap \ {l[1] : l \in own} /\ own \subseteq Links!Link
  BY <1>1 DEF Links!Publish, LinksTyped, AnyWriter
<1>4. LinksTyped'
  BY <1>1, <1>3 DEF LinksTyped
<1>5. RowsApart'
  <2>1. \A l, m \in link' : l[1] = m[1] \/ l[2] = m[2] => l = m
    BY <1>1, <1>3 DEF RowsApart
  <2>2. \A v \in Links!Writers : \A l \in writer'[v].own, m \in link' :
          l[1] = m[1] \/ l[2] = m[2] => l = m
    BY <1>1, <1>2, <1>3 DEF RowsApart
  <2>3. \A v, u \in Links!Writers : \A l \in writer'[v].own, m \in writer'[u].own :
          l[1] = m[1] \/ l[2] = m[2] => l = m
    BY <1>1, <1>2 DEF RowsApart
  <2> QED
    BY <2>1, <2>2, <2>3 DEF RowsApart
<1>6. (\A v \in Links!Writers : WriterOK(writer[v]))'
  <2>1. ASSUME NEW v \in Links!Writers \ {w} PROVE WriterOK(writer[v])'
    BY <1>1, <1>2, <1>3 DEF WriterOK, StatementOK, Settled
  <2>2. WriterOK(writer[w])'
    BY <1>2 DEF WriterOK
  <2> QED
    BY <2>1, <2>2
<1>7. (\A a \in Admins : RequestOK(writer[a]))'
  <2>1. \A a \in Admins : a \in Links!Writers
    BY DEF Links!Writers
  <2>2. ASSUME NEW a \in Admins, a # w PROVE RequestOK(writer[a])'
    BY <2>1, <2>2, <1>1, <1>2, <1>3 DEF RequestOK, Settled
  <2>3. ASSUME w \in Admins PROVE RequestOK(writer[w])'
    BY <2>3, <1>2, <1>3 DEF RequestOK
  <2> QED
    BY <2>2, <2>3
<1>8. GapOK'
  BY <1>1, <1>3 DEF GapOK
<1>9. (writer[Script].outcome = "answered" => gap = {})'
  BY <1>1, <1>2, <1>3 DEF Links!Writers
<1> QED
  BY <1>4, <1>5, <1>6, <1>7, <1>8, <1>9 DEF LinksInv

LEMMA AnswerKeeps ==
  ASSUME LinksInv, NEW a \in Admins, Links!Answer(a)
  PROVE  LinksInv'
<1> DEFINE x == writer[a]
           r == [x EXCEPT !.pc = "done", !.own = {}, !.outcome = "answered"]
<1>1. a \in Links!Writers
  BY DEF Links!Writers
<1>2. /\ x \in AnyWriter /\ RequestOK(x) /\ x.pc = "selected" /\ a # Script
      /\ Links!Publish(a) /\ UNCHANGED <<linked, listed>>
  BY <1>1, WriterParts DEF Links!Answer
<1>3. writer' = [writer EXCEPT ![a] = r]
  BY DEF Links!Answer
<1>4. /\ r \in AnyWriter /\ r.own = {} /\ r.pc = "done" /\ r.asked = x.asked
      /\ r.excluded = x.excluded /\ r.generated = x.generated
  BY <1>2 DEF AnyWriter
<1> HIDE DEF r
<1>5. \A j \in r.asked \ r.excluded :
        linked[j] = "gone" \/ \E l \in r.generated : l[1] = j /\ l \in link \cup x.own
  BY <1>2, <1>4 DEF RequestOK
<1> QED
  BY <1>1, <1>2, <1>3, <1>4, <1>5, PublishStep

LEMMA CommitBatchKeeps ==
  ASSUME LinksInv, Links!CommitBatch
  PROVE  LinksInv'
<1> DEFINE x == writer[Script]
           r == [x EXCEPT !.pc = "reviewed", !.own = {}]
<1>1. Script \in Links!Writers /\ Script \notin Admins
  BY LinksAreAsAssumed DEF Links!Writers, Links!LinksAssumption
<1>2. /\ x \in AnyWriter /\ WriterOK(x) /\ x.pc = "inserted"
      /\ Links!Publish(Script) /\ UNCHANGED <<linked, listed>>
  BY <1>1, WriterParts DEF Links!CommitBatch
<1>3. writer' = [writer EXCEPT ![Script] = r]
  BY DEF Links!CommitBatch
<1>4. r \in AnyWriter /\ r.own = {} /\ r.pc = "reviewed" /\ r.outcome = "none"
  BY <1>2 DEF AnyWriter, WriterOK
<1> HIDE DEF r
<1> QED
  BY <1>1, <1>2, <1>3, <1>4, PublishStep

LEMMA StartBackfillKeeps ==
  ASSUME LinksInv, NEW providers \in SUBSET Owners, Links!StartBackfill(providers)
  PROVE  LinksInv'
<1> DEFINE x == writer[Script]
           r == [x EXCEPT !.pc = "reviewed"]
<1>1. Script \in Links!Writers /\ Script \notin Admins
  BY LinksAreAsAssumed DEF Links!Writers, Links!LinksAssumption
<1>2. /\ LinksTyped /\ RowsApart
      /\ \A v \in Links!Writers : WriterOK(writer[v])
      /\ \A a \in Admins : RequestOK(writer[a])
      /\ x \in AnyWriter /\ WriterOK(x) /\ x.pc = "idle"
  BY <1>1, WriterParts DEF LinksInv, Links!StartBackfill
<1>3. /\ writer' = [writer EXCEPT ![Script] = r] /\ UNCHANGED <<linked, link>>
      /\ listed' = providers /\ gap' = UNION {Links!Missing(p) : p \in providers}
  BY DEF Links!StartBackfill
<1>4. r \in AnyWriter /\ r.own = {} /\ r.pc = "reviewed" /\ r.outcome = "none"
  BY <1>2 DEF AnyWriter, WriterOK
<1> HIDE DEF r
<1>5. \A v \in Links!Writers : writer'[v] = IF v = Script THEN r ELSE writer[v]
  BY <1>2, <1>3 DEF LinksTyped
<1>6. \A j \in gap' : /\ j \in Linkable /\ linked[j] = "active" /\ OwnerOf[j] \in providers
                      /\ \A l \in link : l[1] # j
  BY <1>3 DEF Links!Missing, Links!LinkedJobs
<1>7. LinksTyped'
  BY <1>2, <1>3, <1>4, <1>6 DEF LinksTyped
<1>8. RowsApart'
  BY <1>2, <1>3, <1>4, <1>5 DEF RowsApart
<1>9. (\A v \in Links!Writers : WriterOK(writer[v]))'
  BY <1>2, <1>3, <1>4, <1>5 DEF WriterOK, StatementOK, Settled
<1>10. (\A a \in Admins : RequestOK(writer[a]))'
  BY <1>1, <1>2, <1>3, <1>5 DEF RequestOK, Settled, Links!Writers
<1>11. GapOK'
  BY <1>3, <1>6 DEF GapOK
<1>12. writer'[Script].outcome = "none"
  BY <1>1, <1>4, <1>5
<1> QED
  BY <1>7, <1>8, <1>9, <1>10, <1>11, <1>12 DEF LinksInv

\* A step that at most crosses providers off.
LEMMA ListedStep ==
  ASSUME LinksInv, UNCHANGED <<linked, link, writer, gap>>, listed' \subseteq listed, GapOK'
  PROVE  LinksInv'
<1>1. LinksTyped' /\ RowsApart'
  BY DEF LinksInv, LinksTyped, RowsApart
<1>2. (\A w \in Links!Writers : WriterOK(writer[w]))'
  BY DEF LinksInv, WriterOK, StatementOK, Settled
<1>3. (\A a \in Admins : RequestOK(writer[a]))'
  BY DEF LinksInv, RequestOK, Settled
<1>4. (writer[Script].outcome = "answered" => gap = {})'
  BY DEF LinksInv
<1> QED
  BY <1>1, <1>2, <1>3, <1>4 DEF LinksInv

\* A provider is crossed off when none of its jobs lacks a link.
LEMMA NoBatchLeft ==
  ASSUME NEW p, << >> \in Links!Batches(p)
  PROVE  Links!Missing(p) = {}
<1> DEFINE missing == Links!Missing(p)
           size == IF Links!Cardinality(missing) < LinkBatch THEN Links!Cardinality(missing)
                   ELSE LinkBatch
<1>1. missing \subseteq Linkable /\ IsFiniteSet(missing)
  BY LinksAreAsAssumed, SetsAgree, FS_Subset DEF Links!LinksAssumption, Links!Missing
<1>2. PICK S \in SUBSET missing : Links!Cardinality(S) = size /\ << >> \in Links!SetToSeqs(S)
  BY DEF Links!Batches
<1> HIDE DEF missing
<1>3. S = {} /\ IsFiniteSet(S)
  BY <1>1, <1>2, FS_Subset, ListsOfSets
<1>4. size = 0
  BY <1>2, <1>3, SetsAgree, FS_EmptySet
<1>5. LinkBatch \in Nat \ {0} /\ Cardinality(missing) \in Nat
  BY <1>1, LinksAreAsAssumed, FS_CardinalityType DEF Links!LinksAssumption
<1>6. Cardinality(missing) = 0
  BY <1>4, <1>5, SetsAgree
<1> QED
  BY <1>1, <1>6, FS_EmptySet DEF missing

LEMMA LeastProvider ==
  ASSUME NEW S \in SUBSET Owners, S # {}
  PROVE  Links!Min(S) \in S
<1>1. S \subseteq Nat
  BY LinksAreAsAssumed DEF Links!LinksAssumption
<1>2. \E x \in S : \A y \in S : x <= y
  BY <1>1, LeastNumber
<1> QED
  BY <1>2 DEF Links!Min

LEMMA FindKeeps ==
  ASSUME LinksInv, Links!Find
  PROVE  LinksInv'
<1> DEFINE x == writer[Script]
           p == Links!Min(listed)
<1>1. Script \in Links!Writers /\ Script \notin Admins
  BY LinksAreAsAssumed DEF Links!Writers, Links!LinksAssumption
<1>2. /\ x \in AnyWriter /\ WriterOK(x) /\ x.pc = "reviewed" /\ UNCHANGED <<linked, link, gap>>
      /\ p \in Owners
  BY <1>1, WriterParts, LeastProvider DEF LinksInv, LinksTyped, Links!Find
<1>3. PICK list \in Links!Batches(p) :
        IF list = << >> THEN listed' = listed \ {p} /\ UNCHANGED writer
        ELSE Links!Insert(p, list) /\ UNCHANGED listed
  BY DEF Links!Find
<1> HIDE DEF p
<1>4. CASE list = << >>
  <2>1. Links!Missing(p) = {}
    BY <1>4, NoBatchLeft
  <2>2. listed' = listed \ {p} /\ UNCHANGED writer
    BY <1>3, <1>4
  <2>3. GapOK'
    <3>1. ASSUME NEW j \in gap PROVE OwnerOf[j] # p
      <4>1. j \in Linkable /\ linked[j] = "active" /\ j \notin Links!LinkedJobs
        BY DEF LinksInv, LinksTyped, GapOK, Links!LinkedJobs
      <4> QED
        BY <2>1, <4>1 DEF Links!Missing
    <3> QED
      BY <1>2, <2>2, <3>1 DEF LinksInv, GapOK
  <2>4. listed' \subseteq listed
    BY <2>2
  <2> QED
    BY <1>2, <2>2, <2>3, <2>4, ListedStep
<1>5. CASE list # << >>
  <2> DEFINE t == [x EXCEPT !.provider = p]
             r == Links!Begin(t, list, LinkSlice)
  <2>1. writer' = [writer EXCEPT ![Script] = r] /\ UNCHANGED listed
    BY <1>3, <1>5 DEF Links!Insert
  <2>2. t \in AnyWriter /\ t.own = {} /\ t.outcome = "none"
    BY <1>2 DEF AnyWriter, WriterOK
  <2>3. list \in Seq(Linkable) /\ NoRepeat(list)
    <3>1. PICK S \in SUBSET Links!Missing(p) : list \in Links!SetToSeqs(S)
      BY DEF Links!Batches
    <3>2. S \subseteq Linkable /\ IsFiniteSet(S)
      BY <3>1, LinksAreAsAssumed, SetsAgree, FS_Subset DEF Links!LinksAssumption, Links!Missing
    <3>3. list \in Seq(S) /\ NoRepeat(list)
      BY <3>1, <3>2, ListsOfSets
    <3> QED
      BY <3>2, <3>3
  <2>4. LinkSlice \in Nat \ {0}
    BY LinksAreAsAssumed DEF Links!LinksAssumption
  <2> HIDE DEF t
  <2>5. r \in AnyWriter /\ r.pc = "insert" /\ r.own = {} /\ r.outcome = "none" /\ StatementOK(r)
    BY <2>2, <2>3, <2>4, BeginFits
  <2> HIDE DEF r
  <2>6. WriterOK(r)
    BY <2>5 DEF WriterOK
  <2> QED
    BY <1>1, <1>2, <2>1, <2>5, <2>6, WriterStep
<1> QED
  BY <1>4, <1>5

LEMMA EndBackfillKeeps ==
  ASSUME LinksInv, Links!EndBackfill
  PROVE  LinksInv'
<1> DEFINE x == writer[Script]
           r == [x EXCEPT !.pc = "done", !.outcome = "answered"]
<1>1. Script \in Links!Writers /\ Script \notin Admins
  BY LinksAreAsAssumed DEF Links!Writers, Links!LinksAssumption
<1>2. /\ x \in AnyWriter /\ WriterOK(x) /\ x.pc = "reviewed" /\ listed = {}
      /\ UNCHANGED <<linked, link, listed, gap>>
  BY <1>1, WriterParts DEF Links!EndBackfill
<1>3. writer' = [writer EXCEPT ![Script] = r]
  BY DEF Links!EndBackfill
<1>4. r \in AnyWriter /\ r.own = {} /\ r.pc = "done"
  BY <1>2 DEF AnyWriter, WriterOK
<1> HIDE DEF r
<1>5. gap = {}
  BY <1>2 DEF LinksInv, GapOK
<1>6. WriterOK(r)
  BY <1>4 DEF WriterOK
<1> QED
  BY <1>1, <1>2, <1>3, <1>4, <1>5, <1>6, WriterStep

\* A job that is deactivated, or removed with its link.
LEMMA JobStep ==
  ASSUME LinksInv, NEW j \in Linkable, NEW s \in {"inactive", "gone"},
         linked' = [linked EXCEPT ![j] = s], linked[j] # "gone",
         link' \subseteq link, \A l \in link : l \in link' \/ (l[1] = j /\ s = "gone"),
         gap' = gap \ {j}, UNCHANGED <<writer, listed>>
  PROVE  LinksInv'
<1>1. /\ LinksTyped /\ RowsApart /\ GapOK
      /\ \A v \in Links!Writers : WriterOK(writer[v])
      /\ \A a \in Admins : RequestOK(writer[a])
      /\ writer[Script].outcome = "answered" => gap = {}
  BY DEF LinksInv
<1>2. \A k \in Linkable : linked'[k] = IF k = j THEN s ELSE linked[k]
  BY <1>1 DEF LinksTyped
<1>3. \A w \in Links!Writers : \A k \in Linkable :
        Settled(writer[w], k) => Settled(writer[w], k)'
  BY <1>2 DEF Settled
<1>4. LinksTyped'
  BY <1>1 DEF LinksTyped
<1>5. RowsApart'
  BY <1>1 DEF RowsApart
<1>6. \A w \in Links!Writers : writer[w] \in AnyWriter
  BY <1>1 DEF LinksTyped
<1>7. (\A v \in Links!Writers : WriterOK(writer[v]))'
  <2> SUFFICES ASSUME NEW v \in Links!Writers, writer[v].pc = "insert"
               PROVE  StatementOK(writer[v])'
    BY <1>1 DEF WriterOK
  <2>1. StatementOK(writer[v])
    BY <1>1 DEF WriterOK
  <2>2. Elems(writer[v].slice) \subseteq Linkable
    BY <1>6 DEF AnyWriter, JobLists, Elems
  <2> QED
    BY <1>3, <2>1, <2>2 DEF StatementOK
<1>8. (\A a \in Admins : RequestOK(writer[a]))'
  <2> SUFFICES ASSUME NEW a \in Admins PROVE RequestOK(writer[a])'
    OBVIOUS
  <2>1. a \in Links!Writers /\ RequestOK(writer[a]) /\ writer[a] \in AnyWriter
    BY <1>1, <1>6 DEF Links!Writers
  <2>2. Elems(writer[a].slice) \subseteq Linkable /\ writer[a].asked \subseteq Linkable
    BY <2>1 DEF AnyWriter, JobLists, Elems
  <2>3. (writer[a].pc = "insert" =>
           writer[a].rest = << >> /\ Elems(writer[a].slice) = writer[a].asked \ writer[a].excluded)'
    BY <2>1 DEF RequestOK
  <2>4. (writer[a].pc = "inserted" =>
           /\ Elems(writer[a].slice) = writer[a].asked \ writer[a].excluded
           /\ \A k \in Elems(writer[a].slice) : Settled(writer[a], k))'
    BY <1>3, <2>1, <2>2 DEF RequestOK
  <2>5. (writer[a].pc = "selected" \/ writer[a].outcome = "answered" =>
           \A k \in writer[a].asked \ writer[a].excluded :
             linked[k] = "gone" \/ \E l \in writer[a].generated :
               l[1] = k /\ l \in link \cup writer[a].own)'
    BY <1>2, <2>1, <2>2 DEF RequestOK
  <2> QED
    BY <2>3, <2>4, <2>5 DEF RequestOK
<1>9. GapOK'
  BY <1>1, <1>2 DEF GapOK, LinksTyped
<1>10. (writer[Script].outcome = "answered" => gap = {})'
  BY <1>1
<1> QED
  BY <1>4, <1>5, <1>7, <1>8, <1>9, <1>10 DEF LinksInv

LEMMA LinksNext ==
  ASSUME LinksInv, [MCNext]_AllVars
  PROVE  LinksInv'
<1>1. CASE UNCHANGED LinkVars
  <2>1. UNCHANGED <<linked, link, writer, listed, gap>>
    BY <1>1 DEF LinkVars
  <2>2. GapOK'
    BY <2>1 DEF LinksInv, GapOK
  <2> QED
    BY <2>1, <2>2, ListedStep
<1>2. ASSUME NEW w \in Links!Writers, Links!InsertRow(w) PROVE LinksInv'
  BY <1>2, InsertRowKeeps
<1>3. ASSUME NEW w \in Links!Writers, Links!EndInsert(w) PROVE LinksInv'
  BY <1>3, EndInsertKeeps
<1>4. ASSUME NEW w \in Links!Writers, Links!Deadlock(w) PROVE LinksInv'
  BY <1>4, FailEndsRight DEF Links!Deadlock
<1>5. ASSUME NEW w \in Links!Writers, Links!Cut(w) PROVE LinksInv'
  BY <1>5, FailEndsRight DEF Links!Cut
<1>6. ASSUME NEW a \in Admins, Links!AdminStep(a) PROVE LinksInv'
  BY <1>6, LookupLinksKeeps, GenerateKeeps, SelectLinksKeeps, AnswerKeeps, NextRequestKeeps
  DEF Links!AdminStep
<1>7. ASSUME NEW providers \in SUBSET Owners, Links!StartBackfill(providers) PROVE LinksInv'
  BY <1>7, StartBackfillKeeps
<1>8. CASE Links!Find \/ Links!CommitBatch \/ Links!EndBackfill
  BY <1>8, FindKeeps, CommitBatchKeeps, EndBackfillKeeps
<1>9. ASSUME NEW j \in Linkable, Links!Deactivate(j) PROVE LinksInv'
  BY <1>9, JobStep DEF Links!Deactivate
<1>10. ASSUME NEW j \in Linkable, Links!HardDelete(j) PROVE LinksInv'
  <2>1. /\ linked[j] = "inactive" /\ linked' = [linked EXCEPT ![j] = "gone"]
        /\ link' = link \ Links!LinksOf(link, j) /\ UNCHANGED <<writer, listed, gap>>
    BY <1>10 DEF Links!HardDelete
  <2>2. j \notin gap
    BY <2>1 DEF LinksInv, GapOK
  <2>3. link' \subseteq link /\ \A l \in link : l \in link' \/ l[1] = j
    BY <2>1 DEF Links!LinksOf
  <2>4. gap' = gap \ {j}
    BY <2>1, <2>2
  <2> QED
    BY <2>1, <2>3, <2>4, JobStep
<1>11. Links!Next \/ UNCHANGED LinkVars
  BY DEF MCNext, AllVars
<1> QED
  BY <1>1, <1>2, <1>3, <1>4, <1>5, <1>6, <1>7, <1>8, <1>9, <1>10, <1>11 DEF Links!Next

LEMMA LinksInvHolds ==
  MCSpec => []LinksInv
<1>1. MCInit => LinksInv
  BY LinksInit DEF MCInit
<1>2. LinksInv /\ [MCNext]_AllVars => LinksInv'
  BY LinksNext
<1> QED
  BY <1>1, <1>2, PTL DEF MCSpec

\* Whoever made the link of a job an administrator confirmed, and whatever was
\* drawn again, the request is answered with it and visitors who follow it get to
\* the job (app/services/affiliate_service.py, revalidate_and_generate).
THEOREM ConfirmedJobsAreLinked ==
  MCSpec => []ConfirmedJobsHaveLinks
<1>1. LinksInv => ConfirmedJobsHaveLinks
  <2> SUFFICES ASSUME LinksInv, NEW a \in Admins, writer[a].outcome = "answered",
                      NEW j \in writer[a].asked \ writer[a].excluded, linked[j] # "gone"
               PROVE  \E l \in Links!LinksOf(writer[a].generated, j) : Links!Destination(l[2]) = j
    BY DEF ConfirmedJobsHaveLinks, Links!ConfirmedJobsHaveLinks
  <2>1. a \in Links!Writers /\ writer[a] \in AnyWriter /\ WriterOK(writer[a]) /\ RequestOK(writer[a])
    BY WriterParts DEF Links!Writers
  <2>2. writer[a].own = {}
    BY <2>1 DEF WriterOK
  <2>3. PICK l \in writer[a].generated : l[1] = j /\ l \in link
    BY <2>1, <2>2 DEF RequestOK
  <2>4. /\ l = <<j, l[2]>> /\ j \in Linkable
        /\ \A k \in Linkable : <<k, l[2]>> \in link => k = j
    <3>1. l \in Linkable \X Hashes
      BY <2>3 DEF LinksInv, LinksTyped, Links!Link
    <3>2. \A m \in link : m[2] = l[2] => m = l
      BY <2>3 DEF LinksInv, RowsApart
    <3>3. ASSUME NEW k \in Linkable, <<k, l[2]>> \in link PROVE k = j
      <4>1. <<k, l[2]>> = l
        BY <3>2, <3>3
      <4> QED
        BY <2>3, <4>1
    <3> QED
      BY <2>3, <3>1, <3>3
  <2>5. Links!Destination(l[2]) = j
    BY <2>3, <2>4 DEF Links!Destination
  <2> QED
    BY <2>3, <2>5 DEF Links!LinksOf
<1> QED
  BY <1>1, LinksInvHolds, PTL

\* A backfill that ends well has seen to every job of its providers
\* (scripts/backfill_affiliate_links.py).
THEOREM BackfillIsThorough ==
  MCSpec => []BackfillLeavesNoGap
<1>1. LinksInv => BackfillLeavesNoGap
  BY DEF LinksInv, BackfillLeavesNoGap, Links!BackfillLeavesNoGap
<1> QED
  BY <1>1, LinksInvHolds, PTL

-----------------------------------------------------------------------------
(***************************************************************************)
(* The record of a job.                                                    *)
(***************************************************************************)

\* The row is the last element's, hash and all.
OfElement(e) ==
  /\ row = <<Record!Stored(e, Record!PayloadHash(e))>>
  /\ latest = <<e>>
  /\ flagged = Record!Fallbacks(e)

RecordInv ==
  \/ row = << >> /\ latest = << >> /\ flagged = {}
  \/ \E e \in Varied : OfElement(e)

LEMMA RecordInvHolds ==
  MCSpec => []RecordInv
<1>1. MCInit => RecordInv
  BY DEF MCInit, Record!Init, RecordInv
<1>2. RecordInv /\ [MCNext]_AllVars => RecordInv'
  <2> SUFFICES ASSUME RecordInv, [MCNext]_AllVars PROVE RecordInv'
    OBVIOUS
  <2>1. CASE UNCHANGED RecordVars
    BY <2>1 DEF RecordInv, OfElement, RecordVars
  <2>2. ASSUME NEW e \in Varied, Record!Import(e) PROVE RecordInv'
    <3>1. latest' = <<e>> /\ flagged' = Record!Fallbacks(e)
      BY <2>2 DEF Record!Import
    <3>2. CASE row # << >> /\ row[1].hash = Record!PayloadHash(e)
      <4>1. row' = row
        BY <2>2, <3>2 DEF Record!Import
      <4>2. PICK f \in Varied : OfElement(f)
        BY <3>2 DEF RecordInv
      <4>3. row[1].hash = Record!PayloadHash(f)
        BY <4>2 DEF OfElement, Record!Stored
      <4>4. e = f
        BY <3>2, <4>3 DEF Record!PayloadHash
      <4> QED
        BY <3>1, <4>1, <4>2, <4>4 DEF RecordInv, OfElement
    <3>3. CASE ~(row # << >> /\ row[1].hash = Record!PayloadHash(e))
      <4>1. row' = <<Record!Stored(e, Record!PayloadHash(e))>>
        BY <2>2, <3>3 DEF Record!Import
      <4> QED
        BY <3>1, <4>1 DEF RecordInv, OfElement
    <3> QED
      BY <3>2, <3>3
  <2>3. ASSUME NEW e \in Varied, Record!Reject(e) PROVE RecordInv'
    BY <2>3 DEF Record!Reject, Record!vars, RecordInv, OfElement
  <2>4. Record!Next \/ UNCHANGED RecordVars
    BY DEF MCNext, AllVars
  <2> QED
    BY <2>1, <2>2, <2>3, <2>4 DEF Record!Next
<1> QED
  BY <1>1, <1>2, PTL DEF MCSpec

\* What is stored and shown of a job is what its feed says, and what could not be
\* kept of it is among the fallbacks (app/imports/schemas.py, promotion.py).
THEOREM RecordsTellTheFeed ==
  MCSpec => []RecordsFaithful
<1>1. ASSUME RecordInv PROVE RecordsFaithful
  <2> SUFFICES ASSUME row # << >>
               PROVE  Record!RowFollowsFeed /\ Record!LossesFlagged /\ Record!PostingsSound
    BY DEF RecordsFaithful, Record!RecordsFaithful, Record!RowFollowsFeed,
       Record!LossesFlagged, Record!PostingsSound
  <2> DEFINE e == latest[1]
             c == Record!ColumnsOf(e)
  <2>1. /\ e \in Record!Element /\ row[1].payload = e /\ row[1].columns = c
        /\ flagged = Record!Fallbacks(e)
    <3>1. PICK f \in Varied : OfElement(f)
      BY <1>1 DEF RecordInv
    <3> QED
      BY <3>1, RecordIsAsAssumed DEF OfElement, Record!Stored, Record!RecordAssumption
  <2>2. Record!RowFollowsFeed
    BY <2>1 DEF Record!RowFollowsFeed
  <2>3. Record!LossesFlagged
    <3>1. e.currency \notin Record!Missing /\ c.currency = "none" => "salary_currency" \in flagged
      BY <2>1 DEF Record!Element, Record!Fallbacks, Record!ColumnsOf, Record!Currency, Record!Missing
    <3>2. e.logo \notin Record!Missing /\ c.logo = "none" => "advertiser_logo_url" \in flagged
      BY <2>1 DEF Record!Element, Record!Fallbacks, Record!ColumnsOf, Record!Url, Record!Missing
    <3>3. e.low # Record!NoAmount /\ c.low = Record!NoAmount =>
            flagged \cap {"salary_min", "salary_range"} # {}
      BY <2>1 DEF Record!Fallbacks, Record!ColumnsOf, Record!Amount
    <3>4. e.high # Record!NoAmount /\ c.high = Record!NoAmount =>
            flagged \cap {"salary_max", "salary_range"} # {}
      BY <2>1 DEF Record!Fallbacks, Record!ColumnsOf, Record!Amount
    <3> QED
      BY <2>1, <3>1, <3>2, <3>3, <3>4 DEF Record!LossesFlagged
  <2>4. Record!PostingsSound
    <3> DEFINE emp == Record!Employment(e)
               low == c.low
               high == c.high
               type == IF emp \in DOMAIN Record!SchemaType THEN Record!SchemaType[emp] ELSE "none"
    <3>1. e.employment \notin Record!Missing => type # "none"
      <4> SUFFICES ASSUME e.employment \notin Record!Missing PROVE type # "none"
        OBVIOUS
      <4>1. emp \in Record!EmploymentTypes \cup {"other"}
        BY DEF Record!Employment
      <4>2. Record!EmploymentTypes \cup {"other"} = DOMAIN Record!SchemaType
        BY DEF Record!EmploymentTypes, Record!SpellingsOf, Record!SchemaType
      <4>3. \A k \in DOMAIN Record!SchemaType : Record!SchemaType[k] # "none"
        BY DEF Record!SchemaType
      <4> QED
        BY <4>1, <4>2, <4>3
    <3>2. Record!NoAmount \notin {low, high} => low <= high
      <4>1. e.low \in Int /\ e.high \in Int
        BY <2>1 DEF Record!Element
      <4>2. c.low = (IF Record!Inverted(e) THEN Record!NoAmount ELSE Record!Amount(e.low))
            /\ c.high = (IF Record!Inverted(e) THEN Record!NoAmount ELSE Record!Amount(e.high))
        BY DEF Record!ColumnsOf
      <4>3. Record!Amount(e.low) \in Int /\ Record!Amount(e.high) \in Int
        BY <4>1 DEF Record!Amount, Record!NoAmount
      <4> HIDE DEF c, e
      <4> QED
        BY <4>2, <4>3 DEF Record!Inverted
    <3>3. c.employment = emp
      BY DEF Record!ColumnsOf
    <3> DEFINE posting0 == Record!Posting(c)
    <3>4. /\ posting0.type = type /\ posting0.low = low /\ posting0.high = high
          /\ posting0.currency # "none" => low # Record!NoAmount \/ high # Record!NoAmount
      <4> HIDE DEF c
      <4> QED
        BY <3>3 DEF Record!Posting
    <3> HIDE DEF posting0, type, low, high
    <3>5. Record!Posting(row[1].columns) = posting0
      BY <2>1 DEF posting0
    <3> HIDE DEF e, c, emp
    <3> QED
      BY <3>1, <3>2, <3>4, <3>5 DEF Record!PostingsSound, e
  <2> QED
    BY <2>2, <2>3, <2>4
<1> QED
  BY <1>1, RecordInvHolds, PTL

-----------------------------------------------------------------------------
(***************************************************************************)
(* The history of imports.                                                 *)
(***************************************************************************)

Filters == History!Statuses \cup {NoFilter}

HistoryTyped ==
  /\ DOMAIN status \subseteq History!AllRuns
  /\ status \in [DOMAIN status -> History!Statuses]
  /\ walk \in History!Walk

\* No run leaves these two lists, so none of their rows moves up.
OnlyGrows == walk.filter \in {NoFilter, "failed"}

Covered(n) ==
  \A r \in walk.since : History!Place(walk.filter, r) <= n => r \in walk.shown

\* The walk has shown every run that stands on the pages it has read.
WalkCovers ==
  /\ walk.since \subseteq History!Matching(walk.filter)
  /\ walk.pc = "page" => Covered(walk.offset)
  /\ walk.pc = "total" => Covered(walk.offset + walk.limit)
  /\ walk.pc = "ended" => walk.since \subseteq walk.shown

HistoryInv ==
  /\ HistoryTyped
  /\ walk.pc = "idle" => walk.offset = 0 /\ walk.since = {}
  /\ OnlyGrows => WalkCovers

LEMMA MatchingFinite ==
  ASSUME HistoryTyped, NEW filter \in Filters
  PROVE  /\ IsFiniteSet(History!Matching(filter)) /\ History!Matching(filter) \subseteq Nat
         /\ History!Cardinality(History!Matching(filter)) \in 0 .. MaxListed
         /\ \A r : /\ History!Place(filter, r) \in Nat
                   /\ History!Place(filter, r) <=
                        History!Cardinality(History!Matching(filter))
                   /\ r \in History!Matching(filter) => History!Place(filter, r) # 0
<1>1. MaxListed \in Nat
  BY HistoryIsAsAssumed DEF History!HistoryAssumption
<1>2. \A S : History!Cardinality(S) = Cardinality(S)
  BY DEF History!Cardinality, Cardinality
<1> DEFINE M == History!Matching(filter)
           above(r) == {s \in M : s >= r}
<1>3. M \subseteq 1 .. MaxListed
  BY DEF HistoryTyped, History!Matching, History!Committed, History!AllRuns
<1>4. IsFiniteSet(1 .. MaxListed) /\ Cardinality(1 .. MaxListed) = MaxListed
  BY <1>1, FS_Interval
<1>5. IsFiniteSet(M) /\ Cardinality(M) \in Nat /\ Cardinality(M) <= MaxListed
  BY <1>1, <1>3, <1>4, FS_Subset, FS_CardinalityType
<1>6. \A r : History!Place(filter, r) = Cardinality(above(r))
  BY <1>2 DEF History!Place
<1> HIDE DEF M
<1>7. \A r : /\ IsFiniteSet(above(r)) /\ Cardinality(above(r)) \in Nat
             /\ Cardinality(above(r)) <= Cardinality(M)
  BY <1>5, FS_Subset, FS_CardinalityType
<1>8. ASSUME NEW r \in M PROVE Cardinality(above(r)) # 0
  <2>1. r \in above(r)
    BY <1>3
  <2> QED
    BY <2>1, <1>7, FS_EmptySet
<1>9. M \subseteq Nat /\ Cardinality(M) \in 0 .. MaxListed
  BY <1>1, <1>3, <1>5
<1>10. History!Cardinality(M) = Cardinality(M) /\ M = History!Matching(filter)
  BY <1>2 DEF M
<1> HIDE DEF above
<1> QED
  BY <1>5, <1>6, <1>7, <1>8, <1>9, <1>10

\* Runs that join a list move the others down, if at all.
LEMMA PlacesGrow ==
  ASSUME HistoryTyped, HistoryTyped', NEW filter \in Filters, NEW r,
         History!Matching(filter) \subseteq History!Matching(filter)'
  PROVE  /\ History!Place(filter, r) \in Nat /\ History!Place(filter, r)' \in Nat
         /\ History!Place(filter, r) <= History!Place(filter, r)'
<1> DEFINE above == {s \in History!Matching(filter) : s >= r}
<1>1. /\ History!Place(filter, r) = Cardinality(above)
      /\ History!Place(filter, r)' = Cardinality(above')
  BY DEF History!Place, History!Cardinality, Cardinality
<1>2. MaxListed \in Nat /\ above' \subseteq 1 .. MaxListed
  BY HistoryIsAsAssumed
  DEF HistoryTyped, History!Matching, History!Committed, History!AllRuns,
      History!HistoryAssumption
<1>3. above \subseteq above'
  OBVIOUS
<1>4. ASSUME NEW B \in SUBSET (1 .. MaxListed), NEW A \in SUBSET B
      PROVE  /\ Cardinality(A) \in Nat /\ Cardinality(B) \in Nat
             /\ Cardinality(A) <= Cardinality(B)
  <2>1. IsFiniteSet(1 .. MaxListed)
    BY <1>2, FS_Interval
  <2>2. IsFiniteSet(B)
    BY <2>1, FS_Subset
  <2> QED
    BY <2>2, FS_Subset, FS_CardinalityType
<1> HIDE DEF above
<1> QED
  BY <1>1, <1>2, <1>3, <1>4

LEMMA HistoryInit ==
  ASSUME History!Init
  PROVE  HistoryInv
<1>1. MaxLimit \in Nat \ {0} /\ MaxListed \in Nat
  BY HistoryIsAsAssumed DEF History!HistoryAssumption
<1>2. DOMAIN status = {} /\ status = [x \in {} |-> x]
  BY DEF History!Init
<1>3. walk \in History!Walk
  BY <1>1 DEF History!Init, History!Walk
<1> QED
  BY <1>2, <1>3 DEF History!Init, HistoryInv, HistoryTyped, WalkCovers, Covered, OnlyGrows

\* A run that is added or finished leaves every place on the pages that were
\* read to a run that was on them.
LEMMA RowsMove ==
  ASSUME HistoryInv, HistoryTyped', UNCHANGED walk,
         \A filter \in {NoFilter, "failed"} :
           History!Matching(filter) \subseteq History!Matching(filter)'
  PROVE  HistoryInv'
<1>1. ASSUME OnlyGrows PROVE WalkCovers'
  <2>1. PICK f \in Filters : walk.filter = f /\ walk'.filter = f /\ f \in {NoFilter, "failed"}
    BY <1>1 DEF HistoryInv, HistoryTyped, History!Walk, Filters, OnlyGrows
  <2>2. \A r : /\ History!Place(f, r) \in Nat /\ History!Place(f, r)' \in Nat
               /\ History!Place(f, r) <= History!Place(f, r)'
    BY <2>1, PlacesGrow DEF HistoryInv
  <2>3. walk.offset \in Int /\ walk.limit \in Int
    BY DEF HistoryInv, HistoryTyped, History!Walk
  <2>4. ASSUME NEW n \in Int, Covered(n) PROVE Covered(n)'
    <3>1. \A r \in walk.since : History!Place(f, r) <= n => r \in walk.shown
      BY <2>1, <2>4 DEF Covered
    <3>2. \A r \in walk'.since : History!Place(f, r)' <= n => r \in walk'.shown
      BY <2>2, <3>1
    <3> QED
      BY <2>1, <3>2 DEF Covered
  <2>5. walk.since \subseteq History!Matching(f)'
    BY <1>1, <2>1 DEF HistoryInv, WalkCovers
  <2> QED
    BY <1>1, <2>1, <2>3, <2>4, <2>5 DEF HistoryInv, WalkCovers
<1> QED
  BY <1>1 DEF HistoryInv, OnlyGrows

LEMMA RunsKeep ==
  ASSUME HistoryInv,
         \/ \E r \in History!AllRuns : History!Create(r)
         \/ \E r \in History!Committed, outcome \in {"completed", "failed"} :
              History!Finish(r, outcome)
  PROVE  HistoryInv'
<1>1. ASSUME NEW r \in History!AllRuns, History!Create(r) PROVE HistoryInv'
  <2>1. /\ DOMAIN status' = DOMAIN status \cup {r} /\ UNCHANGED walk
        /\ \A s \in DOMAIN status : status'[s] = status[s]
        /\ status'[r] = "processing"
        /\ status' \in [DOMAIN status \cup {r} -> History!Statuses]
    BY <1>1 DEF History!Create, History!Committed, HistoryInv, HistoryTyped, History!Statuses
  <2>2. HistoryTyped'
    BY <2>1 DEF HistoryInv, HistoryTyped
  <2>3. \A filter : History!Matching(filter) \subseteq History!Matching(filter)'
    BY <2>1 DEF History!Matching, History!Committed
  <2> QED
    BY <2>1, <2>2, <2>3, RowsMove
<1>2. ASSUME NEW r \in History!Committed, NEW outcome \in {"completed", "failed"},
             History!Finish(r, outcome)
      PROVE  HistoryInv'
  <2>1. /\ DOMAIN status' = DOMAIN status /\ UNCHANGED walk
        /\ \A s \in DOMAIN status : status'[s] = IF s = r THEN outcome ELSE status[s]
        /\ status' \in [DOMAIN status -> History!Statuses]
    BY <1>2 DEF History!Finish, History!Committed, HistoryInv, HistoryTyped, History!Statuses
  <2>2. HistoryTyped'
    BY <2>1 DEF HistoryInv, HistoryTyped
  <2>3. status[r] # "failed"
    BY <1>2 DEF History!Finish
  <2>4. \A filter \in {NoFilter, "failed"} :
          History!Matching(filter) \subseteq History!Matching(filter)'
    BY <2>1, <2>3 DEF History!Matching, History!Committed
  <2> QED
    BY <2>1, <2>2, <2>4, RowsMove
<1> QED
  BY <1>1, <1>2

LEMMA OpenKeeps ==
  ASSUME HistoryInv, NEW filter \in Filters, NEW limit \in 1 .. MaxLimit,
         History!Open(filter, limit)
  PROVE  HistoryInv'
<1> DEFINE w == [walk EXCEPT !.pc = "page", !.filter = filter, !.limit = limit,
                             !.since = History!Matching(filter)]
<1>1. /\ walk.pc = "idle" /\ walk.offset = 0 /\ walk \in History!Walk
      /\ walk' = w /\ UNCHANGED status
  BY DEF History!Open, HistoryInv, HistoryTyped
<1>2. History!Matching(filter) \subseteq History!AllRuns
  BY DEF HistoryInv, HistoryTyped, History!Matching, History!Committed
<1>3. /\ w \in History!Walk /\ w.pc = "page" /\ w.offset = 0 /\ w.filter = filter
      /\ w.since = History!Matching(filter)
  BY <1>1, <1>2 DEF History!Walk, Filters
<1>4. \A r \in History!Matching(filter) : ~(History!Place(filter, r) <= 0)
  BY MatchingFinite DEF HistoryInv
<1> HIDE DEF w
<1>5. UNCHANGED History!Matching(filter) /\ \A r : UNCHANGED History!Place(filter, r)
  BY <1>1 DEF History!Place, History!Matching, History!Committed
<1>6. walk'.filter = filter /\ walk'.offset = 0
      /\ \A r \in walk'.since : ~(History!Place(filter, r)' <= 0)
      /\ walk'.since \subseteq History!Matching(filter)'
  BY <1>1, <1>3, <1>4, <1>5
<1>7. HistoryTyped'
  BY <1>1, <1>3 DEF HistoryInv, HistoryTyped
<1> QED
  BY <1>1, <1>3, <1>6, <1>7 DEF HistoryInv, WalkCovers, Covered

LEMMA ReadPageKeeps ==
  ASSUME HistoryInv, History!ReadPage
  PROVE  HistoryInv'
<1> DEFINE page == History!PageAt(walk.filter, walk.limit, walk.offset)
           w == [walk EXCEPT !.pc = "total", !.shown = @ \cup page]
<1>1. /\ walk.pc = "page" /\ walk' = w /\ UNCHANGED status /\ walk \in History!Walk
      /\ HistoryTyped
  BY DEF History!ReadPage, HistoryInv, HistoryTyped
<1>2. page \subseteq History!AllRuns
  BY <1>1 DEF History!PageAt, HistoryTyped, History!Matching, History!Committed
<1>3. /\ w \in History!Walk /\ w.pc = "total" /\ w.offset = walk.offset
      /\ w.filter = walk.filter /\ w.limit = walk.limit /\ w.since = walk.since
      /\ w.shown = walk.shown \cup page
  BY <1>1, <1>2 DEF History!Walk
<1> HIDE DEF w
<1>4. ASSUME OnlyGrows PROVE WalkCovers'
  <2>1. /\ walk.since \subseteq History!Matching(walk.filter) /\ Covered(walk.offset)
        /\ walk.filter \in Filters /\ walk.offset \in Int
    BY <1>1, <1>4 DEF HistoryInv, WalkCovers, History!Walk, Filters
  <2>2. \A r : History!Place(walk.filter, r) \in Int
    BY <1>1, <2>1, MatchingFinite
  <2>3. \A r \in walk.since :
          History!Place(walk.filter, r) <= walk.offset + walk.limit => r \in walk'.shown
    BY <1>1, <1>3, <2>1, <2>2 DEF Covered, History!PageAt
  <2>4. /\ UNCHANGED History!Matching(walk.filter)
        /\ \A r : UNCHANGED History!Place(walk.filter, r)
    BY <1>1, <1>3 DEF History!Place, History!Matching, History!Committed
  <2>5. Covered(walk.offset + walk.limit)'
    BY <1>1, <1>3, <2>3, <2>4 DEF Covered
  <2> QED
    BY <1>1, <1>3, <2>1, <2>4, <2>5 DEF WalkCovers
<1>5. HistoryTyped' /\ (OnlyGrows' => OnlyGrows)
  BY <1>1, <1>3 DEF HistoryTyped, OnlyGrows
<1> QED
  BY <1>1, <1>3, <1>4, <1>5 DEF HistoryInv

LEMMA ReadTotalKeeps ==
  ASSUME HistoryInv, History!ReadTotal
  PROVE  HistoryInv'
<1> DEFINE total == History!Cardinality(History!Matching(walk.filter))
           next == walk.offset + walk.limit
           more == [walk EXCEPT !.pc = "page", !.offset = next]
           last == [walk EXCEPT !.pc = "ended"]
<1>1. /\ walk.pc = "total" /\ UNCHANGED status /\ walk \in History!Walk /\ HistoryTyped
      /\ walk' = IF next < total THEN more ELSE last
  BY DEF History!ReadTotal, HistoryInv, HistoryTyped
<1>2. walk.filter \in Filters /\ walk.offset \in Nat /\ walk.limit \in Nat
  BY <1>1 DEF History!Walk, Filters
<1>3. total \in 0 .. MaxListed /\ \A r : History!Place(walk.filter, r) \in Nat
      /\ History!Place(walk.filter, r) <= total
  BY <1>1, <1>2, MatchingFinite
<1>4. MaxListed \in Nat
  BY HistoryIsAsAssumed DEF History!HistoryAssumption
<1>5. next \in Nat /\ (next < total => next \in 0 .. MaxListed)
  BY <1>2, <1>3, <1>4
<1> HIDE DEF total, next
<1>6. walk'.filter = walk.filter /\ walk'.since = walk.since /\ walk'.shown = walk.shown
  BY <1>1 DEF History!Walk
<1>7. CASE next < total
  <2>1. walk' \in History!Walk /\ walk'.pc = "page" /\ walk'.offset = next
    BY <1>1, <1>5, <1>7 DEF History!Walk
  <2>2. OnlyGrows => Covered(next)
    BY <1>1 DEF HistoryInv, WalkCovers, next
  <2>3. /\ UNCHANGED History!Matching(walk.filter)
        /\ \A r : UNCHANGED History!Place(walk.filter, r)
    BY <1>1, <1>6 DEF History!Place, History!Matching, History!Committed
  <2>4. OnlyGrows => Covered(walk.offset)'
    BY <1>6, <2>1, <2>2, <2>3 DEF Covered
  <2> QED
    BY <1>1, <1>6, <2>1, <2>3, <2>4 DEF HistoryInv, HistoryTyped, WalkCovers, OnlyGrows
<1>8. CASE ~(next < total)
  <2>1. walk' \in History!Walk /\ walk'.pc = "ended"
    BY <1>1, <1>8 DEF History!Walk
  <2>2. \A r : History!Place(walk.filter, r) <= next
    BY <1>3, <1>5, <1>8
  <2>3. OnlyGrows => walk.since \subseteq walk.shown
    BY <1>1, <2>2 DEF HistoryInv, WalkCovers, Covered, next
  <2>4. UNCHANGED History!Matching(walk.filter)
    BY <1>1, <1>6 DEF History!Matching, History!Committed
  <2> QED
    BY <1>1, <1>6, <2>1, <2>3, <2>4 DEF HistoryInv, HistoryTyped, WalkCovers, OnlyGrows
<1> QED
  BY <1>7, <1>8

LEMMA HistoryInvHolds ==
  MCSpec => []HistoryInv
<1>1. MCInit => HistoryInv
  BY HistoryInit DEF MCInit
<1>2. HistoryInv /\ [MCNext]_AllVars => HistoryInv'
  <2> SUFFICES ASSUME HistoryInv, [MCNext]_AllVars PROVE HistoryInv'
    OBVIOUS
  <2>1. History!Next \/ UNCHANGED HistoryVars
    BY DEF MCNext, AllVars
  <2>2. CASE UNCHANGED HistoryVars
    BY <2>2 DEF HistoryVars, HistoryInv, HistoryTyped, WalkCovers, Covered, OnlyGrows,
       History!Place, History!Matching, History!Committed
  <2>3. CASE History!Next
    BY <2>3, RunsKeep, OpenKeeps, ReadPageKeeps, ReadTotalKeeps DEF History!Next, Filters
  <2> QED
    BY <2>1, <2>2, <2>3
<1> QED
  BY <1>1, <1>2, PTL DEF MCSpec

\* An administrator who pages through all the imports, or through the failed
\* ones, to the end is shown every run that was listed at the start, whatever
\* runs begin and end in the meantime (app/db/import_repositories.py,
\* list_import_runs and count_import_runs).
THEOREM WalksAreComplete ==
  MCSpec => []WalkMissesNoRun
<1>1. HistoryInv => WalkMissesNoRun
  BY DEF HistoryInv, WalkCovers, OnlyGrows, WalkMissesNoRun, History!WalkMissesNoRun
<1> QED
  BY <1>1, HistoryInvHolds, PTL

-----------------------------------------------------------------------------
(***************************************************************************)
(* Administrators' requests about providers.                               *)
(***************************************************************************)

Open == {"flush", "audit", "audited"}

\* A request that holds the lock on its provider's row.
Editing(x) == x.change # Administration!Import /\ x.pc \in Open

EntryFor(x) ==
  [id |-> x.id, provider |-> x.provider,
   kind |-> IF x.change = Administration!Import THEN "import" ELSE "edit",
   before |-> x.before, after |-> x.after,
   task |-> IF x.change = Administration!Import THEN x.number ELSE 0]

\* What a request knows: the row it has locked stays as it read it, its id is
\* beyond those of the provider's edits, its task was enqueued.
RequestFits(x, rows, trail, last, tasks) ==
  /\ x.change = Administration!Import => x.pc \notin {"lock", "flush"}
  /\ x.change # Administration!Import => x.pc \notin {"check", "enqueue"}
  /\ x.pc # "idle" => x.number # 0
  /\ x.pc # "answered" => x.outcome = "none"
  /\ Editing(x) => /\ x.provider = b1 /\ x.before = rows[b1]
                   /\ x.after = Administration!Edited(x.before, x.change)
  /\ x.change = Administration!Import /\ x.pc \in {"audit", "audited"} => x.number \in tasks
  /\ x.pc = "audited" =>
       /\ x.id \in 1 .. last
       /\ \A e \in trail : e.id # x.id
       /\ Editing(x) => \A e \in trail : e.provider = b1 /\ e.kind = "edit" => e.id < x.id
  /\ x.outcome = "done" => EntryFor(x) \in trail

\* Two requests hold no row and no id together.
Apart(x, y) ==
  /\ Editing(x) /\ Editing(y) => x.provider # y.provider
  /\ x.pc = "audited" /\ y.pc = "audited" => x.id # y.id

AdminTyped ==
  /\ provider \in [{b1} -> Administration!State]
  /\ audit \subseteq Administration!Entry
  /\ lastId \in Nat
  /\ sent \subseteq 1 .. MaxActions
  /\ asked \in [Requests -> Administration!Request]
  /\ made \in 0 .. MaxActions

TrailSound ==
  /\ \A e, f \in audit : e.id = f.id => e = f
  /\ \A e \in audit : e.id <= lastId /\ (e.kind = "import" => e.task \in sent)
  /\ Administration!EditsChain

AdminInv ==
  /\ AdminTyped /\ TrailSound
  /\ \A q \in Requests : RequestFits(asked[q], provider, audit, lastId, sent)
  /\ \A q, o \in Requests : q # o => Apart(asked[q], asked[o])

LEMMA AdminConstants ==
  /\ b1 \in Named /\ MaxActions \in Nat
  /\ Administration!Default \in Administration!State
  /\ Administration!Idle \in Administration!Request
<1>1. b1 \in Named /\ MaxActions \in Nat /\ Settings \ Refused # {}
  BY AdministrationIsAsAssumed DEF Administration!AdminAssumption
<1>2. (CHOOSE s \in Settings \ Refused : TRUE) \in Settings
  BY <1>1
<1>3. Administration!Default \in Administration!State
  BY <1>2 DEF Administration!Default, Administration!State
<1>4. (CHOOSE p \in Named : TRUE) \in Named
  BY <1>1
<1>5. Administration!Import \in Administration!Change
  BY DEF Administration!Import, Administration!Change
<1>6. Administration!Idle \in Administration!Request
  BY <1>1, <1>3, <1>4, <1>5 DEF Administration!Idle, Administration!Request
<1> QED
  BY <1>1, <1>3, <1>6

LEMMA AdminInit ==
  ASSUME Administration!Init
  PROVE  AdminInv
<1>1. AdminTyped
  BY AdminConstants DEF Administration!Init, AdminTyped
<1>2. TrailSound
  <2>1. audit = {} /\ provider[b1] = Administration!Default
    BY DEF Administration!Init
  <2>2. Administration!EditsChain
    BY <2>1 DEF Administration!EditsChain, Administration!Edits, Administration!Leave
  <2> QED
    BY <2>1, <2>2 DEF TrailSound
<1>3. \A q \in Requests : asked[q] = Administration!Idle
  BY DEF Administration!Init
<1>4. RequestFits(Administration!Idle, provider, audit, lastId, sent)
      /\ Apart(Administration!Idle, Administration!Idle)
  BY DEF RequestFits, Apart, Editing, Open, Administration!Idle
<1> QED
  BY <1>1, <1>2, <1>3, <1>4 DEF AdminInv

\* A step of one request that commits nothing.
LEMMA RequestStep ==
  ASSUME AdminInv, NEW q \in Requests, NEW t \in Administration!Request,
         asked' = [asked EXCEPT ![q] = t], UNCHANGED <<provider, audit>>,
         lastId' \in Nat, lastId <= lastId', sent \subseteq sent', sent' \subseteq 1 .. MaxActions,
         made' \in 0 .. MaxActions,
         RequestFits(t, provider, audit, lastId', sent'),
         \A o \in Requests \ {q} : Apart(t, asked[o])
  PROVE  AdminInv'
<1> lastId \in Nat /\ TrailSound /\ \A e \in audit : e.id \in Nat
  BY DEF AdminInv, AdminTyped, Administration!Entry
<1>1. \A o \in Requests : asked'[o] = IF o = q THEN t ELSE asked[o]
  BY DEF AdminInv, AdminTyped
<1>2. AdminTyped'
  BY DEF AdminInv, AdminTyped
<1>3. TrailSound'
  <2>1. Administration!EditsChain'
    BY DEF AdminInv, TrailSound, Administration!EditsChain, Administration!Edits
  <2>2. \A e \in audit : e.id <= lastId'
    BY DEF TrailSound
  <2> QED
    BY <2>1, <2>2 DEF TrailSound
<1>4. \A o \in Requests : RequestFits(asked'[o], provider', audit', lastId', sent')
  <2>1. ASSUME NEW x, RequestFits(x, provider, audit, lastId, sent)
        PROVE  RequestFits(x, provider, audit, lastId', sent')
    <3>1. 1 .. lastId \subseteq 1 .. lastId'
      OBVIOUS
    <3> QED
      BY <2>1, <3>1 DEF RequestFits
  <2> QED
    BY <1>1, <2>1 DEF AdminInv
<1>5. \A o, p \in Requests : o # p => Apart(asked'[o], asked'[p])
  BY <1>1 DEF AdminInv, Apart
<1> QED
  BY <1>2, <1>3, <1>4, <1>5 DEF AdminInv

LEMMA RequestParts ==
  ASSUME AdminInv, NEW q \in Requests
  PROVE  /\ asked[q] \in Administration!Request
         /\ RequestFits(asked[q], provider, audit, lastId, sent)
         /\ \A o \in Requests \ {q} : Apart(asked[q], asked[o])
         /\ lastId \in Nat /\ sent \subseteq 1 .. MaxActions /\ made \in 0 .. MaxActions
BY DEF AdminInv, AdminTyped

\* A request that is answered without a commit lets go of what it held.
LEMMA RefusalKeeps ==
  ASSUME AdminInv, NEW q \in Requests, NEW outcome \in {"not_found", "inactive", "error"},
         asked[q].pc # "idle", Administration!Answer(q, outcome),
         UNCHANGED <<provider, audit, lastId, sent, made>>
  PROVE  AdminInv'
<1> DEFINE x == asked[q]
           t == [x EXCEPT !.pc = "answered", !.outcome = outcome]
<1>1. /\ x \in Administration!Request /\ RequestFits(x, provider, audit, lastId, sent)
      /\ lastId \in Nat /\ sent \subseteq 1 .. MaxActions /\ made \in 0 .. MaxActions
  BY RequestParts
<1>2. asked' = [asked EXCEPT ![q] = t]
  BY DEF Administration!Answer
<1>3. /\ t \in Administration!Request /\ t.pc = "answered" /\ t.outcome = outcome
      /\ t.number = x.number
  BY <1>1 DEF Administration!Request
<1> HIDE DEF t
<1>4. RequestFits(t, provider, audit, lastId, sent)
  BY <1>1, <1>3 DEF RequestFits, Editing, Open
<1>5. \A o \in Requests \ {q} : Apart(t, asked[o])
  BY <1>3 DEF Apart, Editing, Open
<1> HIDE DEF x
<1>6. /\ lastId' \in Nat /\ lastId <= lastId' /\ sent' = sent /\ made' \in 0 .. MaxActions
      /\ UNCHANGED <<provider, audit>> /\ RequestFits(t, provider, audit, lastId', sent')
  BY <1>1, <1>4
<1> QED
  BY <1>1, <1>2, <1>3, <1>5, <1>6, RequestStep

LEMMA AskAdminKeeps ==
  ASSUME AdminInv, NEW q \in Requests, NEW p \in Named, NEW change \in Administration!Change,
         Administration!Ask(q, p, change)
  PROVE  AdminInv'
<1> DEFINE I == Administration!Idle
           pc == IF change = Administration!Import THEN "check" ELSE "lock"
           t == [I EXCEPT !.pc = pc, !.provider = p, !.change = change, !.number = made + 1]
<1>1. /\ made < MaxActions /\ made' = made + 1 /\ asked' = [asked EXCEPT ![q] = t]
      /\ UNCHANGED <<provider, audit, lastId, sent>>
  BY DEF Administration!Ask, Administration!tables
<1>2. /\ made' \in 0 .. MaxActions /\ made + 1 \in 0 .. MaxActions /\ made + 1 # 0
      /\ lastId \in Nat /\ sent \subseteq 1 .. MaxActions
  BY <1>1, AdminConstants, RequestParts
<1>3. I \in Administration!Request /\ I.outcome = "none"
  BY AdminConstants DEF Administration!Idle
<1>4. /\ t \in Administration!Request /\ t.pc = pc /\ t.change = change
      /\ t.number = made + 1 /\ t.outcome = "none"
  BY <1>2, <1>3 DEF Administration!Request
<1> HIDE DEF t, I
<1>5. RequestFits(t, provider, audit, lastId, sent)
  BY <1>2, <1>4 DEF RequestFits, Editing, Open
<1>6. \A o \in Requests \ {q} : Apart(t, asked[o])
  BY <1>4 DEF Apart, Editing, Open
<1>7. /\ lastId' \in Nat /\ lastId <= lastId' /\ sent' = sent /\ UNCHANGED <<provider, audit>>
      /\ RequestFits(t, provider, audit, lastId', sent')
  BY <1>1, <1>2, <1>5
<1> QED
  BY <1>1, <1>2, <1>4, <1>6, <1>7, RequestStep

LEMMA EditedTyped ==
  ASSUME NEW row1 \in Administration!State, NEW change \in Administration!Change,
         change # Administration!Import
  PROVE  Administration!Edited(row1, change) \in Administration!State
BY DEF Administration!Edited, Administration!State, Administration!Change, Administration!Import

\* The lock is taken when no other request holds it.
LEMMA LockRowKeeps ==
  ASSUME AdminInv, NEW q \in Requests, Administration!LockRow(q)
  PROVE  AdminInv'
<1> DEFINE x == asked[q]
           p == x.provider
           new == Administration!Edited(provider[p], x.change)
           t == [x EXCEPT !.pc = "flush", !.before = provider[p], !.after = new]
<1>1. /\ x \in Administration!Request /\ RequestFits(x, provider, audit, lastId, sent)
      /\ lastId \in Nat /\ sent \subseteq 1 .. MaxActions /\ made \in 0 .. MaxActions
      /\ provider \in [{b1} -> Administration!State]
  BY RequestParts DEF AdminInv, AdminTyped
<1>2. /\ x.pc = "lock" /\ UNCHANGED <<provider, audit, lastId, sent, made>>
      /\ \A o \in Requests \ {q} : ~Administration!Holds(o, p)
  BY DEF Administration!LockRow, Administration!tables
<1>3. CASE p \notin {b1}
  <2>1. Administration!Answer(q, "not_found")
    BY <1>3 DEF Administration!LockRow
  <2> QED
    BY <2>1, <1>2, RefusalKeeps
<1>4. CASE p = b1
  <2>1. asked' = [asked EXCEPT ![q] = t]
    BY <1>4 DEF Administration!LockRow
  <2>2. provider[p] \in Administration!State /\ x.change \in Administration!Change
        /\ x.change # Administration!Import
    BY <1>1, <1>2, <1>4 DEF Administration!Request, RequestFits
  <2>3. new \in Administration!State
    BY <2>2, EditedTyped
  <2> DEFINE old == provider[p]
  <2>4. /\ t \in Administration!Request /\ t.pc = "flush" /\ t.before = old
        /\ t.after = new /\ t.provider = p /\ t.change = x.change /\ t.number = x.number
        /\ t.outcome = x.outcome
    <3>1. old \in Administration!State
      BY <2>2
    <3> HIDE DEF old, new
    <3>2. t = [x EXCEPT !.pc = "flush", !.before = old, !.after = new]
      BY DEF old
    <3> HIDE DEF t
    <3> QED
      BY <1>1, <2>3, <3>1, <3>2 DEF Administration!Request
  <2>5. \A o \in Requests \ {q} : Apart(t, asked[o])
    BY <1>2, <2>4 DEF Apart, Editing, Open, Administration!Holds
  <2> HIDE DEF t
  <2>6. RequestFits(t, provider, audit, lastId, sent)
    BY <1>1, <1>2, <1>4, <2>2, <2>4 DEF RequestFits, Editing, Open
  <2> HIDE DEF x, new
  <2>7. /\ lastId' \in Nat /\ lastId <= lastId' /\ sent' = sent /\ made' \in 0 .. MaxActions
        /\ UNCHANGED <<provider, audit>> /\ RequestFits(t, provider, audit, lastId', sent')
    BY <1>1, <1>2, <2>6
  <2> QED
    BY <1>1, <2>1, <2>4, <2>5, <2>7, RequestStep
<1> QED
  BY <1>3, <1>4

\* Steps that only move a request on.
LEMMA GotoKeeps ==
  ASSUME AdminInv, NEW q \in Requests, NEW pc \in {"audit", "enqueue"},
         Administration!Goto(q, pc), UNCHANGED <<provider, audit, lastId, made>>,
         sent \subseteq sent', sent' \subseteq 1 .. MaxActions,
         \/ asked[q].pc = "flush" /\ pc = "audit"
         \/ asked[q].pc = "check" /\ pc = "enqueue"
         \/ asked[q].pc = "enqueue" /\ pc = "audit" /\ asked[q].number \in sent'
  PROVE  AdminInv'
<1> DEFINE x == asked[q]
           t == [x EXCEPT !.pc = pc]
<1>1. /\ x \in Administration!Request /\ RequestFits(x, provider, audit, lastId, sent)
      /\ \A o \in Requests \ {q} : Apart(x, asked[o])
      /\ lastId \in Nat /\ sent \subseteq 1 .. MaxActions /\ made \in 0 .. MaxActions
  BY RequestParts
<1>2. asked' = [asked EXCEPT ![q] = t]
  BY DEF Administration!Goto
<1>3. /\ t \in Administration!Request /\ t.pc = pc /\ t.before = x.before
      /\ t.after = x.after /\ t.provider = x.provider /\ t.change = x.change
      /\ t.number = x.number /\ t.outcome = x.outcome /\ t.id = x.id
  BY <1>1 DEF Administration!Request
<1> HIDE DEF t
<1>4. RequestFits(t, provider, audit, lastId', sent')
  BY <1>1, <1>3 DEF RequestFits, Editing, Open
<1>5. \A o \in Requests \ {q} : Apart(t, asked[o])
  BY <1>1, <1>3 DEF RequestFits, Apart, Editing, Open
<1> HIDE DEF x
<1>6. /\ lastId' \in Nat /\ lastId <= lastId' /\ made' \in 0 .. MaxActions
      /\ UNCHANGED <<provider, audit>>
  BY <1>1
<1> QED
  BY <1>2, <1>3, <1>4, <1>5, <1>6, RequestStep

LEMMA ChecksKeep ==
  ASSUME AdminInv, NEW q \in Requests,
         \/ Administration!Flush(q) \/ Administration!CheckActive(q)
         \/ Administration!Enqueue(q) \/ Administration!Cut(q)
  PROVE  AdminInv'
<1>1. /\ asked[q] \in Administration!Request /\ sent \subseteq 1 .. MaxActions
      /\ RequestFits(asked[q], provider, audit, lastId, sent)
  BY RequestParts
<1>2. CASE Administration!Flush(q)
  BY <1>1, <1>2, RefusalKeeps, GotoKeeps DEF Administration!Flush, Administration!tables
<1>3. CASE Administration!CheckActive(q)
  BY <1>1, <1>3, RefusalKeeps, GotoKeeps DEF Administration!CheckActive, Administration!tables
<1>4. CASE Administration!Enqueue(q)
  <2>1. /\ asked[q].pc = "enqueue" /\ UNCHANGED <<provider, audit, lastId, made>>
    BY <1>4 DEF Administration!Enqueue
  <2>2. asked[q].number \in 1 .. MaxActions
    BY <1>1, <2>1, AdminConstants DEF RequestFits, Administration!Request
  <2>3. CASE sent' = sent \cup {asked[q].number} /\ Administration!Goto(q, "audit")
    BY <1>1, <2>1, <2>2, <2>3, GotoKeeps
  <2>4. CASE Administration!Answer(q, "error") /\ UNCHANGED sent
    BY <2>1, <2>4, RefusalKeeps
  <2> QED
    BY <1>4, <2>3, <2>4 DEF Administration!Enqueue
<1>5. CASE Administration!Cut(q)
  BY <1>5, RefusalKeeps DEF Administration!Cut, Administration!tables
<1> QED
  BY <1>2, <1>3, <1>4, <1>5

\* A new id is beyond every id given before.
LEMMA RecordKeeps ==
  ASSUME AdminInv, NEW q \in Requests, Administration!Record(q)
  PROVE  AdminInv'
<1> DEFINE x == asked[q]
           id == lastId + 1
           t == [x EXCEPT !.pc = "audited", !.id = id]
<1>1. /\ x \in Administration!Request /\ RequestFits(x, provider, audit, lastId, sent)
      /\ \A o \in Requests \ {q} : Apart(x, asked[o])
      /\ lastId \in Nat /\ sent \subseteq 1 .. MaxActions /\ made \in 0 .. MaxActions
  BY RequestParts
<1>2. /\ x.pc = "audit" /\ lastId' = id /\ asked' = [asked EXCEPT ![q] = t]
      /\ UNCHANGED <<provider, audit, sent, made>>
  BY DEF Administration!Record
<1>3. id \in Nat /\ lastId \in Nat /\ lastId < id /\ id \in 1 .. id
  BY <1>1
<1>4. \A e \in audit : e.id \in Nat /\ e.id <= lastId
  BY DEF AdminTyped, Administration!Entry, AdminInv, TrailSound
<1> HIDE DEF id
<1>5. /\ t \in Administration!Request /\ t.pc = "audited" /\ t.before = x.before
      /\ t.after = x.after /\ t.provider = x.provider /\ t.change = x.change
      /\ t.number = x.number /\ t.outcome = x.outcome /\ t.id = id
  BY <1>1, <1>3 DEF Administration!Request
<1> HIDE DEF t
<1>6. \A e \in audit : e.id < id
  BY <1>3, <1>4
<1>7. RequestFits(t, provider, audit, lastId', sent)
  BY <1>1, <1>2, <1>3, <1>5, <1>6 DEF RequestFits, Editing, Open, EntryFor
<1>8. ASSUME NEW o \in Requests \ {q} PROVE Apart(t, asked[o])
  <2>1. asked[o].pc = "audited" => asked[o].id \in 1 .. lastId
    BY DEF AdminInv, RequestFits
  <2>2. asked[o].pc = "audited" => asked[o].id # id
    BY <1>3, <2>1
  <2> QED
    BY <1>1, <1>2, <1>5, <2>2 DEF Apart, Editing, Open
<1> HIDE DEF x
<1>9. /\ lastId' \in Nat /\ lastId <= lastId' /\ sent' = sent /\ made' \in 0 .. MaxActions
      /\ UNCHANGED <<provider, audit>> /\ RequestFits(t, provider, audit, lastId', sent')
  BY <1>1, <1>2, <1>3, <1>7
<1> QED
  BY <1>1, <1>2, <1>5, <1>8, <1>9, RequestStep

\* An edit that is committed is the last of its provider, and leaves the row as
\* it says; a trigger leaves every edit alone.
LEMMA ChainGrows ==
  ASSUME AdminTyped, TrailSound, NEW n \in Administration!Entry, audit' = audit \cup {n},
         \/ n.kind = "import" /\ UNCHANGED provider
         \/ /\ n.kind = "edit" /\ n.provider = b1 /\ n.before = provider[b1]
            /\ provider' = [provider EXCEPT ![b1] = n.after]
            /\ \A e \in audit : e.provider = b1 /\ e.kind = "edit" => e.id < n.id
  PROVE  Administration!EditsChain'
<1> DEFINE E == Administration!Edits(b1)
           F == Administration!Edits(b1)'
<1>1. /\ \A e \in E : Administration!Leave({f \in E : f.id < e.id}, e.before)
      /\ Administration!Leave(E, provider[b1])
  BY DEF TrailSound, Administration!EditsChain
<1>2. \A e \in E \cup {n} : e.id \in Nat
  BY DEF AdminTyped, Administration!Entry, Administration!Edits
<1>3. CASE n.kind = "import" /\ UNCHANGED provider
  <2>1. F = E
    BY <1>3 DEF Administration!Edits
  <2> HIDE DEF E, F
  <2>2. /\ \A e \in F : Administration!Leave({f \in F : f.id < e.id}, e.before)
        /\ Administration!Leave(F, provider'[b1])
    BY <1>1, <1>3, <2>1
  <2> QED
    BY <2>2 DEF Administration!EditsChain, F
<1>4. CASE /\ n.kind = "edit" /\ n.provider = b1 /\ n.before = provider[b1]
           /\ provider' = [provider EXCEPT ![b1] = n.after]
           /\ \A e \in audit : e.provider = b1 /\ e.kind = "edit" => e.id < n.id
  <2>1. F = E \cup {n} /\ \A e \in E : e.id < n.id
    BY <1>4 DEF Administration!Edits
  <2>2. provider'[b1] = n.after
    BY <1>4 DEF AdminTyped
  <2> HIDE DEF E, F
  <2>3. {f \in F : f.id < n.id} = E
    BY <1>2, <2>1
  <2>4. \A e \in E : {f \in F : f.id < e.id} = {f \in E : f.id < e.id}
    BY <1>2, <2>1
  <2>5. \A e \in F : Administration!Leave({f \in F : f.id < e.id}, e.before)
    <3>1. Administration!Leave({f \in F : f.id < n.id}, n.before)
      BY <1>1, <1>4, <2>3
    <3>2. \A e \in E : Administration!Leave({f \in F : f.id < e.id}, e.before)
      BY <1>1, <2>4
    <3> QED
      BY <2>1, <3>1, <3>2
  <2>6. Administration!Leave(F, provider'[b1])
    BY <1>2, <2>1, <2>2 DEF Administration!Leave
  <2> QED
    BY <2>5, <2>6 DEF Administration!EditsChain, F
<1> QED
  BY <1>3, <1>4

LEMMA CommitEntryKeeps ==
  ASSUME AdminInv, NEW q \in Requests, Administration!Commit(q)
  PROVE  AdminInv'
<1> DEFINE x == asked[q]
           n == EntryFor(x)
           t == [x EXCEPT !.pc = "answered", !.outcome = "done"]
<1>1. /\ x \in Administration!Request /\ RequestFits(x, provider, audit, lastId, sent)
      /\ \A o \in Requests \ {q} : Apart(x, asked[o])
      /\ AdminTyped /\ TrailSound
  BY RequestParts DEF AdminInv
<1>2. /\ x.pc = "audited" /\ audit' = audit \cup {n} /\ asked' = [asked EXCEPT ![q] = t]
      /\ UNCHANGED <<lastId, sent, made>>
  BY DEF Administration!Commit, Administration!Answer, Administration!EntryOf, EntryFor
<1>3. /\ x.id \in 1 .. lastId /\ lastId \in Nat /\ x.number \in 0 .. MaxActions
      /\ x.before \in Administration!State /\ x.after \in Administration!State
      /\ x.provider \in Named
  BY <1>1, <1>2 DEF RequestFits, AdminTyped, Administration!Request
<1>4. /\ n.id = x.id /\ n.provider = x.provider /\ n.before = x.before /\ n.after = x.after
      /\ x.change = Administration!Import => n.kind = "import" /\ n.task = x.number
      /\ x.change # Administration!Import => n.kind = "edit" /\ n.task = 0
  BY DEF EntryFor
<1>5. n \in Administration!Entry
  BY <1>3, AdminConstants DEF EntryFor, Administration!Entry
<1>6. /\ t \in Administration!Request /\ t.pc = "answered" /\ t.outcome = "done"
      /\ t.number = x.number /\ EntryFor(t) = n
  BY <1>1 DEF Administration!Request, EntryFor
<1> HIDE DEF t
<1>7. IF x.change = Administration!Import THEN UNCHANGED provider
      ELSE /\ x.provider = b1 /\ n.before = provider[b1]
           /\ n.after = Administration!Edited(provider[b1], x.change)
           /\ provider' = [provider EXCEPT ![b1] = n.after]
           /\ \A e \in audit : e.provider = b1 /\ e.kind = "edit" => e.id < n.id
  <2>1. CASE x.change = Administration!Import
    BY <2>1 DEF Administration!Commit
  <2>2. CASE x.change # Administration!Import
    <3>1. Editing(x)
      BY <1>2, <2>2 DEF Editing, Open
    <3>2. /\ x.provider = b1 /\ x.before = provider[b1]
          /\ x.after = Administration!Edited(x.before, x.change)
          /\ \A e \in audit : e.provider = b1 /\ e.kind = "edit" => e.id < x.id
      BY <1>1, <1>2, <3>1 DEF RequestFits
    <3>3. provider' = [provider EXCEPT ![b1] = Administration!Edited(@, x.change)]
      BY <2>2, <3>2 DEF Administration!Commit
    <3> QED
      BY <1>4, <2>2, <3>2, <3>3
  <2> QED
    BY <2>1, <2>2
<1> HIDE DEF n
<1>8. provider' \in [{b1} -> Administration!State]
  BY <1>1, <1>3, <1>4, <1>7 DEF AdminTyped
<1>9. AdminTyped'
  BY <1>1, <1>2, <1>5, <1>6, <1>8 DEF AdminTyped
<1>10. TrailSound'
  <2>1. Administration!EditsChain'
    BY <1>1, <1>2, <1>4, <1>5, <1>7, ChainGrows
  <2>2. \A e \in audit : e.id # n.id
    BY <1>1, <1>2, <1>4 DEF RequestFits
  <2>3. n.kind = "import" => n.task \in sent
    BY <1>1, <1>2, <1>4 DEF RequestFits
  <2> QED
    BY <1>1, <1>2, <1>3, <1>4, <2>1, <2>2, <2>3 DEF TrailSound
<1>11. \A o \in Requests : asked'[o] = IF o = q THEN t ELSE asked[o]
  BY <1>1, <1>2 DEF AdminTyped
<1>12. RequestFits(t, provider', audit', lastId, sent)
  BY <1>1, <1>2, <1>6 DEF RequestFits, Editing, Open
<1>13. ASSUME NEW o \in Requests \ {q}
       PROVE  RequestFits(asked[o], provider', audit', lastId, sent)
  <2> DEFINE y == asked[o]
  <2> SUFFICES RequestFits(y, provider', audit', lastId, sent)
    OBVIOUS
  <2>1. RequestFits(y, provider, audit, lastId, sent) /\ Apart(x, y)
        /\ y \in Administration!Request
    BY <1>1 DEF AdminInv, AdminTyped
  <2> HIDE DEF x, y
  <2>2. /\ y.pc = "audited" => \A e \in audit' : e.id # y.id
        /\ y.outcome = "done" => EntryFor(y) \in audit'
    BY <1>2, <1>4, <2>1 DEF Apart, RequestFits
  <2>3. CASE x.change = Administration!Import
    <3>1. y.pc = "audited" /\ Editing(y) =>
            \A e \in audit' : e.provider = b1 /\ e.kind = "edit" => e.id < y.id
      BY <1>2, <1>4, <2>1, <2>3 DEF RequestFits
    <3> QED
      BY <1>7, <2>1, <2>2, <2>3, <3>1 DEF RequestFits
  <2>4. CASE x.change # Administration!Import
    <3>1. Editing(x)
      BY <1>2, <2>4 DEF Editing, Open
    <3>2. ~(Editing(y) /\ y.provider = b1)
      BY <1>7, <2>1, <2>4, <3>1 DEF Apart
    <3>3. ~Editing(y)
      BY <2>1, <3>2 DEF RequestFits
    <3> QED
      BY <2>1, <2>2, <3>3 DEF RequestFits
  <2> QED
    BY <2>3, <2>4
<1>14. \A o \in Requests : RequestFits(asked'[o], provider', audit', lastId', sent')
  BY <1>2, <1>11, <1>12, <1>13
<1>15. \A o, p \in Requests : o # p => Apart(asked'[o], asked'[p])
  BY <1>6, <1>11 DEF AdminInv, Apart, Editing, Open
<1> QED
  BY <1>9, <1>10, <1>14, <1>15 DEF AdminInv

LEMMA AdminInvHolds ==
  MCSpec => []AdminInv
<1>1. MCInit => AdminInv
  BY AdminInit DEF MCInit
<1>2. AdminInv /\ [MCNext]_AllVars => AdminInv'
  <2> SUFFICES ASSUME AdminInv, [MCNext]_AllVars PROVE AdminInv'
    OBVIOUS
  <2>1. Administration!Next \/ UNCHANGED AdminVars
    BY DEF MCNext, AllVars
  <2>2. CASE UNCHANGED AdminVars
    BY <2>2 DEF AdminVars, AdminInv, AdminTyped, TrailSound, Administration!EditsChain,
       Administration!Edits
  <2>3. ASSUME NEW q \in Requests, Administration!Step(q) PROVE AdminInv'
    BY <2>3, AskAdminKeeps, LockRowKeeps, ChecksKeep, RecordKeeps, CommitEntryKeeps
    DEF Administration!Step
  <2> QED
    BY <2>1, <2>2, <2>3 DEF Administration!Next
<1> QED
  BY <1>1, <1>2, PTL DEF MCSpec

\* Read in the order of their ids, the recorded edits of a provider lead from its
\* first state to its present one, and every trigger that is recorded or answered
\* was enqueued and recorded, whatever requests overlap, are refused or cut off
\* (app/db/provider_repositories.py, app/db/audit.py, app/api/routers).
THEOREM TrailIsTrue ==
  MCSpec => []AuditTrailTrue
<1>1. ASSUME AdminInv PROVE AuditTrailTrue
  <2>1. \A q \in Requests : asked[q].outcome = "done" => Administration!EntryOf(q) \in audit
    BY <1>1 DEF AdminInv, RequestFits, EntryFor, Administration!EntryOf
  <2>2. Administration!TriggersRecorded
    BY <1>1, <2>1 DEF AdminInv, TrailSound, Administration!TriggersRecorded
  <2> QED
    BY <1>1, <2>2 DEF AdminInv, TrailSound, AuditTrailTrue, Administration!AuditTrailTrue
<1> QED
  BY <1>1, AdminInvHolds, PTL

-----------------------------------------------------------------------------
(***************************************************************************)
(* Types, keys and references of every part.                               *)
(***************************************************************************)

LEMMA PagingInv == MCSpec => []IInv
<1>1. MCInit => IInv
  BY InitIInv DEF MCInit
<1>2. IInv /\ [MCNext]_AllVars => IInv'
  <2>1. [MCNext]_AllVars => [Next]_vars
    BY DEF MCNext, AllVars
  <2> QED
    BY <2>1, NextKeepsIInv
<1> QED
  BY <1>1, <1>2, PTL DEF MCSpec

\* The lists of a statement are those of a set of jobs.
LEMMA JobListsAreLists ==
  JobLists \subseteq Links!Lists
<1> SUFFICES ASSUME NEW s \in JobLists PROVE s \in Links!Lists
  OBVIOUS
<1> DEFINE S == Elems(s)
           n == Len(s)
<1>1. s \in Seq(Linkable) /\ NoRepeat(s) /\ n \in Nat /\ s \in [1 .. n -> Linkable]
  BY DEF JobLists
<1>2. S \in SUBSET Linkable /\ s \in [1 .. n -> S]
  BY <1>1 DEF Elems
<1>3. IsFiniteSet(1 .. n) /\ Cardinality(1 .. n) = n
  <2>1. IsFiniteSet(1 .. n) /\ Cardinality(1 .. n) = IF 1 > n THEN 0 ELSE n - 1 + 1
    BY <1>1, FS_Interval
  <2> QED
    BY <2>1, <1>1
<1>4. s \in Bijection(1 .. n, S)
  BY <1>1, <1>2 DEF Elems, NoRepeat, Bijection, Injection, IsInjective, Surjection
<1> HIDE DEF S, n
<1>5. Cardinality(S) = n
  <2>1. ExistsBijection(1 .. n, S)
    BY <1>4 DEF ExistsBijection
  <2> QED
    BY <1>3, <2>1, FS_Bijection
<1>6. \A i, k \in 1 .. n : i # k => s[i] # s[k]
  BY <1>1 DEF NoRepeat
<1>7. s \in Links!SetToSeqs(S)
  BY <1>2, <1>5, <1>6, SetsAgree DEF Links!SetToSeqs
<1> QED
  BY <1>2, <1>7 DEF Links!Lists

\* Whatever requests, imports and scripts do side by side, every part is typed,
\* and its keys are kept: an identity, an address and an account of an
\* administrator have one row each (models.py), a saved job is of an account and
\* a job that exist, a job and a short hash have one link each, audit entries
\* have ids of their own, and only a client on its way has a cursor.
THEOREM PartsTyped ==
  MCSpec => []PartsTypeOK
<1>1. IInv => TypeOK
  BY DEF IInv, Types, TypeOK, BrowseOK, CursorOK
<1>2. Proved!IInv => Member!TypeOK
  BY DEF Proved!IInv, Proved!Typed, Proved!AccountsUnique, Proved!SavedRowsRefer,
     Member!TypeOK, Proved!User, Member!User, Proved!Bookmark, Member!Bookmark,
     Proved!Request, Member!Request, Proved!Known, Member!Known
<1>3. IntakeInv => Intake!TypeOK
  BY DEF IntakeInv, Intake!TypeOK
<1>4. LinksInv => Links!TypeOK
  <2> SUFFICES ASSUME LinksInv PROVE Links!TypeOK
    OBVIOUS
  <2>1. AnyWriter \subseteq Links!Writer
    BY JobListsAreLists DEF AnyWriter, Links!Writer
  <2>2. writer \in [Links!Writers -> Links!Writer]
    BY <2>1 DEF LinksInv, LinksTyped
  <2> QED
    BY <2>2 DEF LinksInv, LinksTyped, RowsApart, Links!TypeOK
<1>5. AdminInv => Administration!TypeOK
  BY DEF AdminInv, AdminTyped, TrailSound, Administration!TypeOK
<1>6. HistoryInv => History!TypeOK
  BY DEF HistoryInv, HistoryTyped, History!TypeOK, History!Committed
<1>7. AccountsInv => Accounts!TypeOK
  BY DEF AccountsInv, AccountsTyped, Accounts!TypeOK
<1>8. RecordInv => Record!TypeOK
  <2>1. CASE row = << >> /\ latest = << >> /\ flagged = {}
    BY <2>1 DEF Record!TypeOK, Record!ToSet
  <2>2. ASSUME NEW e \in Varied, OfElement(e) PROVE Record!TypeOK
    <3> DEFINE r == Record!Stored(e, Record!PayloadHash(e))
    <3>1. row = <<r>> /\ latest = <<e>> /\ r.payload = e
      BY <2>2 DEF OfElement, Record!Stored
    <3> HIDE DEF r
    <3>2. Record!ToSet(row) = {r} /\ Record!ToSet(latest) = {e}
      BY <3>1 DEF Record!ToSet
    <3>3. flagged \subseteq {"employment_type", "salary_currency", "sell_price_currency",
                             "salary_min", "salary_max", "sell_price", "advertiser_logo_url",
                             "apply_url", "salary_range"}
      BY <2>2 DEF OfElement, Record!Fallbacks
    <3> QED
      BY <3>1, <3>2, <3>3 DEF Record!TypeOK
  <2> QED
    BY <2>1, <2>2 DEF RecordInv
<1>9. IInv /\ Proved!IInv /\ IntakeInv /\ LinksInv /\ AdminInv /\ HistoryInv /\ AccountsInv
      /\ RecordInv => PartsTypeOK
  BY <1>1, <1>2, <1>3, <1>4, <1>5, <1>6, <1>7, <1>8 DEF PartsTypeOK
<1> QED
  BY <1>9, PagingInv, MembersInv, IntakeInvHolds, LinksInvHolds, AdminInvHolds, HistoryInvHolds,
     AccountsInvHolds, RecordInvHolds, PTL
=============================================================================
