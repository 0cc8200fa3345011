------------------------ MODULE AdministrationProofs ------------------------
(***************************************************************************)
(* Theorems about the administrative half of the panel, component by       *)
(* component: Accounts, UserSweeps, Admission and TunnelCreds.             *)
(***************************************************************************)
EXTENDS Administration, FiniteSetTheorems, WellFoundedInduction, TLAPS

(* Accounts: passwords and administrators. *)

Rows == [st : {"none", "active", "deleted"}, role : Roles, mcp : BOOLEAN, temp : BOOLEAN]
Asked == [pc : {"idle", "login", "change", "update", "delete"}, user : Users,
          role : Roles \cup {"keep"}, reset : BOOLEAN, mcp : BOOLEAN, temp : BOOLEAN, raced : BOOLEAN]

\* What login read of a row: the flag of the token it will issue tells the
\* truth about the password it verifies.
LoginsHonest ==
    \A q \in Requests :
        req[q].pc = "login" => req[q].mcp = req[q].temp /\ req[q].role \in Roles

\* What a request that no other has overtaken checked still holds when it
\* writes: the administrator it is about to demote or delete is not the last.
ChecksHold ==
    \A q \in Requests :
        /\ req[q].pc = "update" /\ ~req[q].raced =>
              (IsAdmin(req[q].user) /\ req[q].role = "user" => OtherAdmins(req[q].user))
        /\ req[q].pc = "delete" /\ ~req[q].raced =>
              (IsAdmin(req[q].user) => OtherAdmins(req[q].user))

AcctInv == AcctTypeOK /\ LoginsHonest /\ TempOnlyChanges /\ ChecksHold

LEMMA InitAcct == AccountsInit => AcctInv
<1> SUFFICES ASSUME AccountsInit PROVE AcctInv
  OBVIOUS
<1>1. NoRequest \in Asked /\ NoRequest.pc = "idle" /\ NoRow \in Rows
  BY AccountAssumption DEF NoRequest, NoRow, Asked, Rows, Roles
<1>2. \A u \in Users : acct[u] \in Rows /\ acct[u].mcp = acct[u].temp
  BY AccountAssumption DEF AccountsInit, NoRow, Rows, Roles
<1>3. acct \in [Users -> Rows]
  BY <1>2 DEF AccountsInit
<1>4. AcctTypeOK
  BY <1>1, <1>2, <1>3 DEF AccountsInit, AcctTypeOK, NoToken, Rows, Asked, Roles
<1>5. LoginsHonest /\ TempOnlyChanges /\ ChecksHold
  BY <1>1 DEF AccountsInit, LoginsHonest, TempOnlyChanges, ChecksHold, NoToken
<1> QED
  BY <1>4, <1>5 DEF AcctInv

\* A step that changes no row, and adds at most the request of q, whose
\* checks hold, keeps the invariant.
LEMMA AskKeeps ==
    ASSUME AcctInv, NEW q \in Requests, NEW r \in Asked,
           req' = [req EXCEPT ![q] = r], UNCHANGED <<acct, panel>>,
           token' = token,
           r.pc = "login" => r.mcp = r.temp /\ r.role \in Roles,
           r.pc = "update" => (IsAdmin(r.user) /\ r.role = "user" => OtherAdmins(r.user)),
           r.pc = "delete" => (IsAdmin(r.user) => OtherAdmins(r.user))
    PROVE  AcctInv'
<1>1. AcctTypeOK'
  BY DEF AcctInv, AcctTypeOK, Asked
<1>2. LoginsHonest' /\ TempOnlyChanges'
  BY DEF AcctInv, AcctTypeOK, LoginsHonest, TempOnlyChanges
<1>3. ChecksHold'
  BY DEF AcctInv, AcctTypeOK, ChecksHold, IsAdmin, Active, OtherAdmins, AdminRows
<1> QED
  BY <1>1, <1>2, <1>3 DEF AcctInv

\* After a Commit whatever is still to be written counts as overtaken.
LEMMA CommitKeeps ==
    ASSUME AcctInv, NEW q \in Requests, Commit(q), UNCHANGED <<token, panel>>,
           acct' \in [Users -> Rows],
           \A u \in Users : acct'[u].st # "none" => acct'[u].mcp = acct'[u].temp
    PROVE  AcctInv'
<1>1. AcctTypeOK'
  <2>1. req' \in [Requests -> Asked]
    <3>1. \A p \in Requests : req'[p] \in Asked
      <4> TAKE p \in Requests
      <4>1. CASE p = q
        BY <4>1, AccountAssumption DEF Commit, NoRequest, Asked, Roles
      <4>2. CASE p # q
        <5> DEFINE b == req[p].pc \in {"update", "delete"}
        <5>1. req'[p] = [req[p] EXCEPT !.raced = b]
          BY <4>2 DEF Commit
        <5>3. b \in BOOLEAN
          OBVIOUS
        <5> HIDE DEF b
        <5>2. req[p] \in Asked
          BY DEF AcctInv, AcctTypeOK, Asked
        <5> QED
          BY <5>1, <5>2, <5>3 DEF Asked
      <4> QED
        BY <4>1, <4>2
    <3> QED
      BY <3>1 DEF Commit
  <2> QED
    BY <2>1 DEF AcctInv, AcctTypeOK, Rows, Asked
<1>2. LoginsHonest'
  BY DEF AcctInv, AcctTypeOK, LoginsHonest, Commit, NoRequest
<1>3. TempOnlyChanges'
  BY DEF AcctInv, TempOnlyChanges
<1>4. ChecksHold'
  BY DEF AcctInv, AcctTypeOK, ChecksHold, Commit, NoRequest
<1> QED
  BY <1>1, <1>2, <1>3, <1>4 DEF AcctInv

LEMMA AcctStep == AcctInv /\ [AccountsNext]_acctVars => AcctInv'
<1> SUFFICES ASSUME AcctInv, [AccountsNext]_acctVars PROVE AcctInv'
  OBVIOUS
<1> USE AccountAssumption
<1>1. ASSUME NEW q \in Requests, NEW u \in Users, LoginRead(q, u) PROVE AcctInv'
  <2> DEFINE r == [NoRequest EXCEPT !.pc = "login", !.user = u,
                  !.role = acct[u].role, !.mcp = acct[u].mcp, !.temp = acct[u].temp]
  <2>1. r \in Asked /\ r.pc = "login" /\ r.mcp = r.temp /\ r.role \in Roles
    BY <1>1 DEF LoginRead, AcctInv, AcctTypeOK, NoRequest, Asked, Roles, Active
  <2> HIDE DEF r
  <2> QED
    BY <1>1, <2>1, AskKeeps DEF LoginRead, r
<1>2. ASSUME NEW q \in Requests, NEW u \in Users, ChangeRead(q, u) PROVE AcctInv'
  <2> DEFINE r == [NoRequest EXCEPT !.pc = "change", !.user = u]
  <2>1. r \in Asked /\ r.pc = "change"
    BY DEF NoRequest, Asked, Roles
  <2> HIDE DEF r
  <2> QED
    BY <1>2, <2>1, AskKeeps DEF ChangeRead, r
<1>3. ASSUME NEW q \in Requests, NEW by \in Users, NEW u \in Users, DeleteCheck(q, by, u)
      PROVE  AcctInv'
  <2> DEFINE r == [NoRequest EXCEPT !.pc = "delete", !.user = u]
  <2>1. r \in Asked /\ r.pc = "delete" /\ r.user = u
    BY DEF NoRequest, Asked, Roles
  <2>2. IsAdmin(u) => OtherAdmins(u)
    BY <1>3 DEF DeleteCheck, IsAdmin
  <2> HIDE DEF r
  <2> QED
    BY <1>3, <2>1, <2>2, AskKeeps DEF DeleteCheck, r
<1>4. ASSUME NEW q \in Requests, NEW by \in Users, NEW u \in Users, NEW role \in Roles,
             CreateUser(q, by, u, role)
      PROVE  AcctInv'
  <2>1. acct' \in [Users -> Rows]
    BY <1>4 DEF CreateUser, AcctInv, AcctTypeOK, Rows
  <2>2. \A v \in Users : acct'[v].st # "none" => acct'[v].mcp = acct'[v].temp
    BY <1>4 DEF CreateUser, AcctInv, AcctTypeOK
  <2> QED
    BY <1>4, <2>1, <2>2, CommitKeeps DEF CreateUser
<1>5. ASSUME NEW q \in Requests, NEW by \in Users, NEW u \in Users,
             NEW role \in Roles \cup {"keep"}, NEW reset \in BOOLEAN,
             UpdateCheck(q, by, u, role, reset)
      PROVE  AcctInv'
  <2> DEFINE r == [NoRequest EXCEPT !.pc = "update", !.user = u, !.role = role, !.reset = reset]
  <2>1. r \in Asked /\ r.pc = "update" /\ r.user = u /\ r.role = role
    BY DEF NoRequest, Asked, Roles
  <2>2. IsAdmin(u) /\ role = "user" => OtherAdmins(u)
    BY <1>5 DEF UpdateCheck, IsAdmin
  <2> HIDE DEF r
  <2> QED
    BY <1>5, <2>1, <2>2, AskKeeps DEF UpdateCheck, r
<1>6. ASSUME NEW q \in Requests, LoginIssue(q) PROVE AcctInv'
  <2>1. req' = [req EXCEPT ![q] = NoRequest] /\ acct' = acct /\ panel' = panel
    BY <1>6 DEF LoginIssue, Finish
  <2>2. NoRequest \in Asked /\ NoRequest.pc = "idle"
    BY DEF NoRequest, Asked, Roles
  <2>3. req[q].pc = "login" /\ req[q].mcp = req[q].temp /\ req[q].role \in Roles
    BY <1>6 DEF LoginIssue, AcctInv, LoginsHonest
  <2> DEFINE t == [held |-> TRUE, role |-> req[q].role, mcp |-> req[q].mcp, temp |-> req[q].temp]
  <2>4. token' = token \/ token' = [token EXCEPT ![req[q].user] = t]
    BY <1>6 DEF LoginIssue
  <2>5. t \in [held : BOOLEAN, role : Roles, mcp : BOOLEAN, temp : BOOLEAN] /\ t.mcp = t.temp
    BY <2>3 DEF AcctInv, AcctTypeOK
  <2> HIDE DEF t
  <2>6. AcctTypeOK'
    BY <2>1, <2>2, <2>4, <2>5 DEF AcctInv, AcctTypeOK, Asked
  <2>7. LoginsHonest'
    BY <2>1, <2>2 DEF AcctInv, AcctTypeOK, LoginsHonest
  <2>8. TempOnlyChanges'
    BY <2>4, <2>5 DEF AcctInv, AcctTypeOK, TempOnlyChanges
  <2>9. ChecksHold'
    BY <2>1, <2>2 DEF AcctInv, AcctTypeOK, ChecksHold, IsAdmin, Active, OtherAdmins, AdminRows
  <2> QED
    BY <2>6, <2>7, <2>8, <2>9 DEF AcctInv
<1>7. ASSUME NEW q \in Requests, ChangeWrite(q) PROVE AcctInv'
  <2> DEFINE u == req[q].user
             new == [acct[u] EXCEPT !.mcp = FALSE, !.temp = FALSE]
  <2>a. acct \in [Users -> Rows] /\ u \in Users
    BY DEF AcctInv, AcctTypeOK, Rows
  <2>b. new \in Rows /\ new.mcp = new.temp
    BY <2>a DEF Rows
  <2>c. acct' = acct \/ acct' = [acct EXCEPT ![u] = new]
    BY <1>7, <2>a DEF ChangeWrite
  <2> HIDE DEF new, u
  <2>1. acct' \in [Users -> Rows]
    BY <2>a, <2>b, <2>c
  <2>2. \A v \in Users : acct'[v].st # "none" => acct'[v].mcp = acct'[v].temp
    BY <2>a, <2>b, <2>c DEF AcctInv, AcctTypeOK
  <2> QED
    BY <1>7, <2>1, <2>2, CommitKeeps DEF ChangeWrite
<1>8. ASSUME NEW q \in Requests, UpdateWrite(q) PROVE AcctInv'
  <2> DEFINE u == req[q].user
             role == IF req[q].role = "keep" THEN acct[u].role ELSE req[q].role
             new == [acct[u] EXCEPT !.role = role, !.mcp = req[q].reset \/ acct[u].mcp,
                                    !.temp = req[q].reset \/ acct[u].temp]
  <2>a. acct \in [Users -> Rows] /\ req[q] \in Asked /\ u \in Users
    BY DEF AcctInv, AcctTypeOK, Rows, Asked
  <2>b. role \in Roles
    BY <2>a DEF Rows, Asked
  <2>c. (req[q].reset \/ acct[u].mcp) \in BOOLEAN /\ (req[q].reset \/ acct[u].temp) \in BOOLEAN
    OBVIOUS
  <2> HIDE DEF role
  <2>d. new \in Rows
    BY <2>a, <2>b, <2>c DEF Rows
  <2>e. Active(u) => new.mcp = new.temp
    <3>1. Active(u) => acct[u].mcp = acct[u].temp
      BY <2>a DEF AcctInv, AcctTypeOK, Active
    <3>2. new.mcp = (req[q].reset \/ acct[u].mcp) /\ new.temp = (req[q].reset \/ acct[u].temp)
      BY <2>a DEF Rows
    <3> QED
      BY <3>1, <3>2
  <2>f. acct' = IF Active(u) THEN [acct EXCEPT ![u] = new] ELSE acct
    BY <1>8 DEF UpdateWrite, role
  <2> HIDE DEF new
  <2> HIDE DEF u
  <2>1. acct' \in [Users -> Rows]
    <3>1. CASE Active(u)
      BY <2>a, <2>d, <2>f, <3>1
    <3>2. CASE ~Active(u)
      BY <2>a, <2>f, <3>2
    <3> QED
      BY <3>1, <3>2
  <2>2. \A v \in Users : acct'[v].st # "none" => acct'[v].mcp = acct'[v].temp
    <3>1. CASE Active(u)
      BY <2>a, <2>e, <2>f, <3>1 DEF AcctInv, AcctTypeOK
    <3>2. CASE ~Active(u)
      BY <2>f, <3>2 DEF AcctInv, AcctTypeOK
    <3> QED
      BY <3>1, <3>2
  <2> QED
    BY <1>8, <2>1, <2>2, CommitKeeps DEF UpdateWrite
<1>9. ASSUME NEW q \in Requests, DeleteWrite(q) PROVE AcctInv'
  <2>1. acct' \in [Users -> Rows]
    BY <1>9 DEF DeleteWrite, AcctInv, AcctTypeOK, Rows, NoRow, Roles
  <2>2. \A v \in Users : acct'[v].st # "none" => acct'[v].mcp = acct'[v].temp
    BY <1>9 DEF DeleteWrite, AcctInv, AcctTypeOK, NoRow
  <2> QED
    BY <1>9, <2>1, <2>2, CommitKeeps DEF DeleteWrite
<1>10. CASE StartPanel
  <2>1. \A q \in Requests : req'[q] = NoRequest /\ NoRequest \in Asked /\ NoRequest.pc = "idle"
    BY <1>10 DEF StartPanel, NoRequest, Asked, Roles
  <2>2. AcctTypeOK'
    BY <1>10, <2>1 DEF StartPanel, AcctInv, AcctTypeOK, NoRow, Roles, Asked
  <2> QED
    BY <1>10, <2>1, <2>2
       DEF StartPanel, AcctInv, LoginsHonest, TempOnlyChanges, ChecksHold
<1>11. CASE UNCHANGED acctVars
  BY <1>11 DEF acctVars, AcctInv, AcctTypeOK, LoginsHonest, TempOnlyChanges, ChecksHold,
               IsAdmin, Active, OtherAdmins, AdminRows
<1> QED
  BY <1>1, <1>2, <1>3, <1>4, <1>5, <1>6, <1>7, <1>8, <1>9, <1>10, <1>11 DEF AccountsNext

\* For any users and requests: the inductive invariant of accounts, tokens and
\* requests (login and change_password of auth.rs, create, update and delete of
\* users.rs).
THEOREM AccountsInvariant == AccountsSpec => []AcctInv
BY InitAcct, AcctStep, PTL DEF AccountsSpec

\* A token that opens the whole API was obtained with a password its owner
\* chose: login copies the flag of the row it verified against (auth.rs).
THEOREM TemporaryPasswordsOnlyChange == AccountsSpec => []TempOnlyChanges
<1>1. AcctInv => TempOnlyChanges
  BY DEF AcctInv
<1> QED
  BY <1>1, AccountsInvariant, PTL

\* A write that was not overtaken leaves an administrator.
LEMMA WritesLeaveAdmin ==
    ASSUME AcctInv, NEW q \in Requests, UpdateWrite(q) \/ DeleteWrite(q),
           ~req[q].raced, AdminRows # {}
    PROVE  AdminRows' # {}
<1> DEFINE u == req[q].user
<1>1. u \in Users
  BY DEF AcctInv, AcctTypeOK
<1>2. \A v \in Users \ {u} : acct'[v] = acct[v]
  BY <1>1 DEF UpdateWrite, DeleteWrite, AcctInv, AcctTypeOK
<1>3. CASE \E v \in AdminRows : v # u
  BY <1>2, <1>3 DEF AdminRows, IsAdmin, Active
<1>4. CASE AdminRows = {u}
  <2>1. IsAdmin(u) /\ ~OtherAdmins(u)
    BY <1>1, <1>4 DEF AdminRows, OtherAdmins
  <2>2. UpdateWrite(q) /\ req[q].role # "user"
    BY <2>1 DEF UpdateWrite, DeleteWrite, AcctInv, ChecksHold
  <2>3. acct'[u].st = "active" /\ acct'[u].role = "admin"
    BY <1>1, <2>1, <2>2 DEF UpdateWrite, AcctInv, AcctTypeOK, IsAdmin, Active, Roles
  <2> QED
    BY <1>1, <2>3 DEF AdminRows, IsAdmin, Active
<1> QED
  BY <1>3, <1>4

\* The last administrator is lost only to requests that overlap: the counts of
\* update and delete (users.rs) suffice for requests that come one by one.
THEOREM LastAdminGoesOnlyByRace == AccountsSpec => LastAdminOnlyByRace
<1>1. AcctInv /\ [AccountsNext]_acctVars
      => [AdminRows # {} /\ AdminRows' = {} => \E q \in Requests : req[q].raced]_acctVars
  <2> SUFFICES ASSUME AcctInv, AccountsNext, AdminRows # {}, \A q \in Requests : ~req[q].raced
               PROVE  AdminRows' # {}
    OBVIOUS
  <2>1. CASE UNCHANGED acct
    BY <2>1 DEF AdminRows, IsAdmin, Active
  <2>2. ASSUME NEW q \in Requests, NEW by \in Users, NEW u \in Users, NEW role \in Roles,
               CreateUser(q, by, u, role)
        PROVE  AdminRows' # {}
    <3>1. \A v \in AdminRows : acct'[v] = acct[v]
      BY <2>2 DEF CreateUser, AdminRows, IsAdmin, Active, AcctInv, AcctTypeOK
    <3> QED
      BY <3>1 DEF AdminRows, IsAdmin, Active
  <2>3. ASSUME NEW q \in Requests, ChangeWrite(q) PROVE AdminRows' # {}
    <3>1. \A v \in Users : acct'[v].st = acct[v].st /\ acct'[v].role = acct[v].role
      BY <2>3 DEF ChangeWrite, AcctInv, AcctTypeOK
    <3> QED
      BY <3>1 DEF AdminRows, IsAdmin, Active
  <2>4. ASSUME NEW q \in Requests, UpdateWrite(q) \/ DeleteWrite(q) PROVE AdminRows' # {}
    BY <2>4, WritesLeaveAdmin
  <2>5. CASE StartPanel
    BY <2>5, <2>1 DEF StartPanel
  <2>6. ASSUME NEW q \in Requests, NEW u \in Users,
               LoginRead(q, u) \/ ChangeRead(q, u) \/ LoginIssue(q)
        PROVE  UNCHANGED acct
    BY <2>6 DEF LoginRead, ChangeRead, LoginIssue
  <2>7. ASSUME NEW q \in Requests, NEW by \in Users, NEW u \in Users,
               \/ DeleteCheck(q, by, u)
               \/ \E role \in Roles \cup {"keep"}, reset \in BOOLEAN :
                      UpdateCheck(q, by, u, role, reset)
        PROVE  UNCHANGED acct
    BY <2>7 DEF DeleteCheck, UpdateCheck
  <2> QED
    BY <2>1, <2>2, <2>3, <2>4, <2>5, <2>6, <2>7, AccountAssumption DEF AccountsNext
<1> QED
  BY <1>1, AccountsInvariant, PTL DEF AccountsSpec, LastAdminOnlyByRace
-----------------------------------------------------------------------------
(* UserSweeps: what was pushed of the rules' flags. *)

RuleRows == [st : {"none", "active", "deleted"}, owner : Owners \cup {CHOOSE u \in Owners : TRUE},
             on : BOOLEAN]

Ticks == [pc : {"off", "idle", "months", "monthly", "judge", "stop", "disable", "push"},
          users : SUBSET Owners, rules : SUBSET Rules]

SweepTypes ==
    /\ rls \in [Rules -> RuleRows]
    /\ sent \in [Rules -> BOOLEAN]
    /\ tick \in Ticks
    /\ api \in [Calls -> Rules \cup {NoRule}]

\* A change of a rule that is not sent yet is the duty of a request or of the sweeper;
\* what does not exist was sent as disabled, so that a push that finds no row may skip it.
SentOrDue ==
    \A r \in Rules :
        /\ ~Exists(r) => ~sent[r]
        /\ \/ sent[r] = Enabled(r)
           \/ \E c \in Calls : api[c] = r
           \/ tick.pc = "push" /\ r \in tick.rules

SweepInv == SweepTypes /\ SentOrDue

LEMMA SweepInitInv == SweepsInit => SweepInv
<1> SUFFICES ASSUME SweepsInit PROVE SweepInv
  OBVIOUS
<1>1. SweepTypes
  BY DEF SweepsInit, SweepTypes, RuleRows, Ticks, NoTick, NoRule
<1>2. SentOrDue
  BY DEF SweepsInit, SentOrDue, Exists, Enabled
<1> QED
  BY <1>1, <1>2 DEF SweepInv

\* A push leaves the rule as sent, whether the row is still there or not.
LEMMA PushSends ==
    ASSUME SweepInv, NEW r \in Rules, Push(r), rls' = rls
    PROVE  /\ sent' \in [Rules -> BOOLEAN]
           /\ sent'[r] = Enabled(r)'
           /\ \A q \in Rules : q # r => sent'[q] = sent[q]
           /\ \A q \in Rules : ~Exists(q) => ~sent'[q]
<1>1. sent \in [Rules -> BOOLEAN] /\ rls \in [Rules -> RuleRows]
  BY DEF SweepInv, SweepTypes
<1>2. ~Exists(r) => ~sent[r]
  BY DEF SweepInv, SentOrDue
<1>3. CASE Exists(r)
  BY <1>1, <1>3 DEF Push, Enabled, Exists, RuleRows, SweepInv, SentOrDue
<1>4. CASE ~Exists(r)
  BY <1>1, <1>2, <1>4 DEF Push, Enabled, Exists, SweepInv, SentOrDue
<1> QED
  BY <1>3, <1>4

\* A request writes one rule and from then on owes its push.
LEMMA RequestKeeps ==
    ASSUME SweepInv, NEW c \in Calls, NEW r \in Rules, NEW row \in RuleRows,
           api[c] = NoRule, api' = [api EXCEPT ![c] = r],
           rls' = [rls EXCEPT ![r] = row], row.st = "active",
           UNCHANGED <<sent, tick>>
    PROVE  SweepInv'
<1>1. SweepTypes /\ SentOrDue
  BY DEF SweepInv
<1>2. SweepTypes'
  BY <1>1 DEF SweepTypes
<1>3. NoRule \notin Rules
  BY SweepAssumption DEF NoRule
<1>4. api'[c] = r /\ \A d \in Calls : d # c => api'[d] = api[d]
  BY <1>1 DEF SweepTypes
<1>5. \A q \in Rules : (\E d \in Calls : api[d] = q) => (\E d \in Calls : api'[d] = q)
  BY <1>3, <1>4
<1>6. rls'[r] = row /\ \A q \in Rules : q # r => rls'[q] = rls[q]
  BY <1>1 DEF SweepTypes
<1>7. \A q \in Rules : q # r => Exists(q)' = Exists(q) /\ Enabled(q)' = Enabled(q)
  BY <1>6 DEF Exists, Enabled
<1>8. Exists(r)'
  BY <1>6 DEF Exists
<1> QED
  BY <1>1, <1>2, <1>4, <1>5, <1>7, <1>8 DEF SentOrDue, SweepInv

\* A step that only moves the sweeper, and not out of its pushes.
LEMMA SweeperMoves ==
    ASSUME SweepInv, UNCHANGED <<rls, sent, api>>, tick.pc # "push" \/ tick' = tick,
           tick' \in Ticks
    PROVE  SweepInv'
<1>1. SweepTypes'
  BY DEF SweepInv, SweepTypes
<1>2. SentOrDue'
  BY DEF SweepInv, SentOrDue, Exists, Enabled
<1> QED
  BY <1>1, <1>2 DEF SweepInv

LEMMA SweepStepKeeps == ASSUME SweepInv, SweepStep \/ ExpiryTick \/ QuotaTick \/ Spawn PROVE SweepInv'
<1>1. SweepTypes /\ SentOrDue /\ tick \in Ticks
  BY DEF SweepInv, SweepTypes
<1>2. NoTick \in Ticks /\ NoTick.pc = "idle"
  BY DEF NoTick, Ticks
<1>3. ASSUME NEW u \in Owners PROVE NextUser(u) \in Ticks /\ NextUser(u).pc # "push"
  BY <1>1, <1>2 DEF NextUser, NoTick, Ticks
<1>4. CASE Spawn \/ ExpiryTick \/ QuotaTick \/ ListMonthly \/ Judge
  <2>1. UNCHANGED <<rls, sent, api>> /\ tick.pc # "push" /\ tick' \in Ticks
    BY <1>2, <1>4 DEF Spawn, ExpiryTick, QuotaTick, ListMonthly, Judge, NoTick, Ticks, WithRules, OverLimit
  <2> QED
    BY <2>1, SweeperMoves
<1>5. ASSUME NEW u \in Owners, RefreshMonthly(u) \/ Capture(u) PROVE SweepInv'
  <2>1. UNCHANGED <<rls, sent, api>> /\ tick.pc # "push" /\ tick' \in Ticks
    BY <1>1, <1>3, <1>5 DEF RefreshMonthly, Capture, EnabledOf, Ticks
  <2> QED
    BY <2>1, SweeperMoves
<1>6. CASE Disable
  <2>1. /\ tick' = [tick EXCEPT !.pc = "push"] /\ UNCHANGED <<sent, api>>
        /\ rls' = [r \in Rules |-> IF r \in tick.rules THEN [rls[r] EXCEPT !.on = FALSE]
                                                       ELSE rls[r]]
    BY <1>6 DEF Disable
  <2>2. tick' \in Ticks /\ tick'.pc = "push" /\ tick'.rules = tick.rules
    BY <1>1, <2>1 DEF Ticks
  <2>3. \A row \in RuleRows : [row EXCEPT !.on = FALSE] \in RuleRows
                              /\ [row EXCEPT !.on = FALSE].st = row.st
    BY DEF RuleRows
  <2>4. \A r \in Rules : /\ rls'[r] \in RuleRows /\ rls'[r].st = rls[r].st
                         /\ r \notin tick.rules => rls'[r] = rls[r]
    BY <1>1, <2>1, <2>3 DEF SweepTypes
  <2>5. SweepTypes'
    BY <1>1, <2>1, <2>2, <2>4 DEF SweepTypes
  <2>6. tick.pc # "push"
    BY <1>6 DEF Disable
  <2>7. SentOrDue'
    BY <1>1, <2>1, <2>2, <2>4, <2>6 DEF SentOrDue, Exists, Enabled
  <2> QED
    BY <2>5, <2>7 DEF SweepInv
<1>7. ASSUME NEW r \in Rules, SweepPush(r) PROVE SweepInv'
  <2>1. /\ tick.pc = "push" /\ r \in tick.rules /\ Push(r)
        /\ tick' = IF tick.rules = {r} THEN NextUser(rls[r].owner)
                   ELSE [tick EXCEPT !.rules = @ \ {r}]
        /\ UNCHANGED <<rls, api>>
    BY <1>7 DEF SweepPush
  <2>2. tick' \in Ticks
    BY <1>1, <2>1 DEF NextUser, NoTick, Ticks
  <2>3. \A q \in Rules : q # r /\ q \in tick.rules => tick'.pc = "push" /\ q \in tick'.rules
    BY <1>1, <2>1 DEF Ticks
  <2>4. /\ sent' \in [Rules -> BOOLEAN]
        /\ sent'[r] = Enabled(r)'
        /\ \A q \in Rules : q # r => sent'[q] = sent[q]
        /\ \A q \in Rules : ~Exists(q) => ~sent'[q]
    BY <2>1, PushSends
  <2>5. SweepTypes'
    BY <1>1, <2>1, <2>2, <2>4 DEF SweepTypes
  <2>6. SentOrDue'
    BY <1>1, <2>1, <2>3, <2>4 DEF SentOrDue, Exists, Enabled
  <2> QED
    BY <2>5, <2>6 DEF SweepInv
<1> QED
  BY <1>4, <1>5, <1>6, <1>7 DEF SweepStep

LEMMA SweepNextInv == SweepInv /\ [SweepsNext]_sweepVars => SweepInv'
<1> SUFFICES ASSUME SweepInv, [SweepsNext]_sweepVars PROVE SweepInv'
  OBVIOUS
<1>1. SweepTypes /\ SentOrDue
  BY DEF SweepInv
<1>2. ASSUME NEW c \in Calls, NEW r \in Rules, NEW u \in Owners, Create(c, r, u)
      PROVE  SweepInv'
  <2> DEFINE row == [st |-> "active", owner |-> u, on |-> TRUE]
  <2>1. row \in RuleRows /\ row.st = "active"
    BY DEF RuleRows
  <2>2. /\ api[c] = NoRule /\ api' = [api EXCEPT ![c] = r]
        /\ rls' = [rls EXCEPT ![r] = row] /\ UNCHANGED <<sent, tick>>
    BY <1>2 DEF Create
  <2> HIDE DEF row
  <2> QED
    BY <2>1, <2>2, RequestKeeps
<1>3. ASSUME NEW c \in Calls, NEW r \in Rules, NEW on \in BOOLEAN, SetEnabled(c, r, on)
      PROVE  SweepInv'
  <2> DEFINE row == [rls[r] EXCEPT !.on = on]
  <2>1. row \in RuleRows /\ row.st = "active"
    BY <1>1, <1>3 DEF SetEnabled, Exists, SweepTypes, RuleRows
  <2>2. /\ api[c] = NoRule /\ api' = [api EXCEPT ![c] = r]
        /\ rls' = [rls EXCEPT ![r] = row] /\ UNCHANGED <<sent, tick>>
    BY <1>3 DEF SetEnabled
  <2> HIDE DEF row
  <2> QED
    BY <2>1, <2>2, RequestKeeps
<1>4. ASSUME NEW c \in Calls, ApiPush(c) PROVE SweepInv'
  <2>1. PICK r \in Rules :
          /\ api[c] = r /\ Push(r) /\ api' = [api EXCEPT ![c] = NoRule]
          /\ UNCHANGED <<rls, tick>>
    BY <1>1, <1>4 DEF ApiPush, SweepTypes
  <2>2. /\ sent' \in [Rules -> BOOLEAN]
        /\ sent'[r] = Enabled(r)'
        /\ \A q \in Rules : q # r => sent'[q] = sent[q]
        /\ \A q \in Rules : ~Exists(q) => ~sent'[q]
    BY <2>1, PushSends
  <2>3. \A q \in Rules : q # r /\ (\E d \in Calls : api[d] = q) => (\E d \in Calls : api'[d] = q)
    BY <1>1, <2>1 DEF SweepTypes
  <2>4. SweepTypes'
    BY <1>1, <2>1, <2>2 DEF SweepTypes
  <2>5. SentOrDue'
    BY <1>1, <2>1, <2>2, <2>3 DEF SentOrDue, Exists, Enabled
  <2> QED
    BY <2>4, <2>5 DEF SweepInv
<1>5. ASSUME NEW r \in Rules, DeleteRule(r) PROVE SweepInv'
  <2> DEFINE row == [rls[r] EXCEPT !.st = "deleted", !.on = FALSE]
  <2>1. /\ rls' = [rls EXCEPT ![r] = row] /\ sent' = [sent EXCEPT ![r] = FALSE]
        /\ UNCHANGED <<tick, api>>
    BY <1>5 DEF DeleteRule
  <2>2. row \in RuleRows /\ row.st = "deleted" /\ ~row.on
    BY <1>1 DEF SweepTypes, RuleRows
  <2> HIDE DEF row
  <2>3. /\ rls'[r] = row /\ sent'[r] = FALSE
        /\ \A q \in Rules : q # r => rls'[q] = rls[q] /\ sent'[q] = sent[q]
    BY <1>1, <2>1 DEF SweepTypes
  <2>4. SweepTypes'
    BY <1>1, <2>1, <2>2 DEF SweepTypes
  <2>5. SentOrDue'
    BY <1>1, <2>1, <2>2, <2>3 DEF SentOrDue, Exists, Enabled
  <2> QED
    BY <2>4, <2>5 DEF SweepInv
<1>6. ASSUME NEW u \in Owners,
             (\E e \in BOOLEAN : Expiry(u, e)) \/ (\E m \in Modes : SwitchMode(u, m) \/ Traffic(u, m))
      PROVE  SweepInv'
  BY <1>6, SweeperMoves DEF Expiry, SwitchMode, Traffic, SweepInv, SweepTypes
<1>7. CASE SweepStep \/ ExpiryTick \/ QuotaTick \/ Spawn
  BY <1>7, SweepStepKeeps
<1>8. CASE Restart
  <2>1. /\ tick' = NoTick /\ api' = [c \in Calls |-> NoRule]
        /\ sent' = [r \in Rules |-> Enabled(r)] /\ rls' = rls
    BY <1>8 DEF Restart
  <2>2. SweepTypes'
    BY <1>1, <2>1 DEF SweepTypes, NoTick, Ticks, Enabled, Exists, RuleRows
  <2>3. SentOrDue'
    BY <2>1 DEF SentOrDue, Enabled, Exists
  <2> QED
    BY <2>2, <2>3 DEF SweepInv
<1>9. CASE UNCHANGED sweepVars
  BY <1>9, SweeperMoves DEF sweepVars, SweepInv, SweepTypes
<1> QED
  BY <1>2, <1>3, <1>4, <1>5, <1>6, <1>7, <1>8, <1>9 DEF SweepsNext

\* For any users, rules and requests: when neither a request nor the sweeper is at work,
\* the flag the last push of a rule has read is the flag in the table.
THEOREM SweepsAreSent == SweepsSpec => []SweptIsSent
<1>1. SweepInv => SweptIsSent
  BY SweepAssumption DEF SweepInv, SentOrDue, SweptIsSent, NoRule
<1> QED
  BY <1>1, SweepInitInv, SweepNextInv, PTL DEF SweepsSpec

-----------------------------------------------------------------------------
(* Admission: what a request may rely on once it has checked. *)

(* Admission: a check holds until another request writes. *)

AskSteps == {"idle", "node", "hops", "quota", "tunnelQuota", "ports", "interPorts", "exact",
             "conflict", "insert", "move", "hopPort", "insertTunnel", "refs", "dropTunnel",
             "rules", "tunnels", "dropNode"}
AskRows == [pc : AskSteps, op : {"create", "import", "update", "tunnel"}, id : Nat,
            proto : Protocols \cup {"tcp"}, tun : 0..MaxTunnels, port : 0..MaxPort,
            auto : BOOLEAN, taken : SUBSET Nat, raced : BOOLEAN]
ForwardRows == [st : {"none", "active", "deleted"}, port : 0..MaxPort,
                proto : Protocols \cup {"tcp"}, tun : 0..MaxTunnels]
TunnelRows == [st : {"none", "active", "deleted"}, way : {"out", "in"}, port : 0..MaxPort, rows : BOOLEAN]

TableTypes ==
    /\ ruleRow \in [RuleIds -> ForwardRows] /\ tunnelRow \in [TunnelIds -> TunnelRows]
    /\ \A t \in TunnelIds : tunnelRow[t].rows <=> t \in ActiveTunnels
    /\ nodeHere \in BOOLEAN

\* Which steps the kinds of request take.
Shape(a) ==
    /\ a.pc \in {"hops", "quota", "tunnelQuota", "ports", "interPorts"} => a.op = "create" /\ a.id = 0
    /\ a.pc \in {"hops", "tunnelQuota"} => a.tun # 0
    /\ a.pc \in {"ports", "interPorts"} => a.auto
    /\ a.pc = "exact" => a.op = "import"
    /\ a.pc \in {"conflict", "node"} /\ a.op # "update" => a.id = 0
    /\ a.pc = "insert" => a.op \in {"create", "import"} /\ a.id = 0
    /\ a.pc = "move" => a.op = "update"
    /\ a.pc = "conflict" => a.op # "tunnel"
    /\ a.pc \in {"hopPort", "insertTunnel"} => a.op = "tunnel"
    /\ a.op = "import" => a.tun = 0 /\ a.id = 0
    /\ a.op \in {"import", "update"} => ~a.auto
    /\ a.pc = "exact" => a.id = 0

\* A port the panel may choose for a rule.
FreePort(port, proto) ==
    /\ \A r \in ActiveRules :
          ruleRow[r].proto = proto \/ Clash(proto, ruleRow[r].proto) => ruleRow[r].port # port
    /\ port \notin InterPorts

\* What a request that no other has overtaken has found so far still holds.
StillHolds(a) ==
    ~a.raced =>
      /\ a.pc \in {"hops", "quota", "tunnelQuota", "ports", "interPorts", "exact", "conflict",
                   "insert", "move", "hopPort", "insertTunnel"} => nodeHere
      /\ a.pc \in {"quota", "tunnelQuota", "ports", "interPorts", "conflict", "insert"} /\ a.op = "create" =>
            a.tun = 0 \/ a.tun \in ActiveTunnels
      /\ a.pc \in {"tunnelQuota", "ports", "interPorts", "conflict", "insert"} /\ a.op = "create" =>
            Cardinality(ActiveRules) < UserQuota
      /\ a.pc \in {"ports", "interPorts", "conflict", "insert"} /\ a.op = "create" /\ a.tun # 0 =>
            Cardinality(OnTunnel(a.tun)) < TunnelQuota
      /\ a.pc \in {"insert", "move"} => NoProtocolConflict(a.port, a.proto, a.id)
      /\ a.pc \in {"node", "conflict", "move"} /\ a.op = "update" =>
            a.id \in ActiveRules /\ ruleRow[a.id].proto = a.proto
      /\ a.pc = "interPorts" =>
            \A r \in ActiveRules :
                ruleRow[r].proto = a.proto \/ Clash(a.proto, ruleRow[r].proto) => ruleRow[r].port \in a.taken
      /\ a.pc \in {"conflict", "insert"} /\ a.auto => FreePort(a.port, a.proto)
      /\ a.pc = "insertTunnel" /\ a.auto =>
            a.port \notin InterPorts /\ \A r \in ActiveRules : ruleRow[r].port # a.port
      /\ a.pc = "dropTunnel" => OnTunnel(a.id) = {}
      /\ a.pc \in {"tunnels", "dropNode"} => ActiveRules = {}
      /\ a.pc = "dropNode" => ActiveTunnels = {}

AdmInv ==
    /\ TableTypes /\ ask \in [Handlers -> AskRows]
    /\ \A h \in Handlers : Shape(ask[h]) /\ StillHolds(ask[h])

\* Row a at the step pc.
Moved(a, pc) == [a EXCEPT !.pc = pc]

LEMMA AdmNumbers ==
    /\ MaxRules \in Nat /\ MaxTunnels \in Nat /\ MaxPort \in Nat /\ UserQuota \in Nat /\ TunnelQuota \in Nat
    /\ NoAsk \in AskRows /\ NoRuleRow \in ForwardRows /\ NoTunnelRow \in TunnelRows
    /\ NoAsk.pc = "idle" /\ Shape(NoAsk) /\ NoAsk.op = "create" /\ NoAsk.id = 0 /\ NoAsk.tun = 0
    /\ ~NoAsk.raced /\ ~NoAsk.auto /\ NoAsk.port = 0
<1>1. MaxRules \in Nat /\ MaxTunnels \in Nat /\ MaxPort \in Nat /\ UserQuota \in Nat /\ TunnelQuota \in Nat
  BY AdmissionAssumption
<1>2. NoAsk \in AskRows /\ NoRuleRow \in ForwardRows /\ NoTunnelRow \in TunnelRows
  BY <1>1 DEF NoAsk, AskRows, AskSteps, NoRuleRow, ForwardRows, NoTunnelRow, TunnelRows
<1>3. /\ NoAsk.pc = "idle" /\ Shape(NoAsk) /\ NoAsk.op = "create" /\ NoAsk.id = 0 /\ NoAsk.tun = 0
      /\ ~NoAsk.raced /\ ~NoAsk.auto /\ NoAsk.port = 0
  BY DEF NoAsk, Shape
<1> QED
  BY <1>1, <1>2, <1>3

LEMMA IdleHolds == ASSUME NEW a, a.pc = "idle" PROVE StillHolds(a)
BY DEF StillHolds

LEMMA MovedIs ==
    ASSUME NEW a \in AskRows, NEW pc \in AskSteps
    PROVE  /\ Moved(a, pc) \in AskRows /\ Moved(a, pc).pc = pc /\ Moved(a, pc).op = a.op
           /\ Moved(a, pc).id = a.id /\ Moved(a, pc).proto = a.proto /\ Moved(a, pc).tun = a.tun
           /\ Moved(a, pc).port = a.port /\ Moved(a, pc).auto = a.auto /\ Moved(a, pc).taken = a.taken
           /\ Moved(a, pc).raced = a.raced
BY DEF Moved, AskRows

\* A non-empty set of ids or ports has a smallest one.
LEMMA SmallestIn ==
    ASSUME NEW S, S \subseteq Nat, S # {}
    PROVE  Min(S) \in S
<1>1. PICK x \in S : \A y \in S : ~ (<<y, x>> \in OpToRel(<, Nat))
  BY NatLessThanWellFounded, WFMin
<1>2. ASSUME NEW y \in S PROVE x <= y
  <2>1. ASSUME y < x PROVE FALSE
    <3>1. y \in Nat /\ x \in Nat /\ <<y, x>> \in Nat \X Nat
      OBVIOUS
    <3>2. <<y, x>>[1] < <<y, x>>[2]
      BY <2>1
    <3>3. <<y, x>> \in OpToRel(<, Nat)
      BY <3>1, <3>2, Zenon DEF OpToRel
    <3> QED
      BY <1>1, <3>3
  <2> QED
    BY <2>1
<1>3. \E n \in S : \A m \in S : n <= m
  BY <1>2
<1> QED
  BY <1>3 DEF Min

LEMMA AdmInitInv == AdmissionInit => AdmInv
<1> SUFFICES ASSUME AdmissionInit PROVE AdmInv
  OBVIOUS
<1>1. TableTypes
  BY AdmNumbers DEF AdmissionInit, TableTypes, ActiveTunnels, NoTunnelRow
<1> QED
  BY <1>1, AdmNumbers, IdleHolds DEF AdmissionInit, AdmInv

\* A step of g that writes no table makes its request r.
LEMMA ReadKeeps ==
    ASSUME AdmInv, NEW g \in Handlers, NEW r \in AskRows, ask' = [ask EXCEPT ![g] = r], Reads,
           Shape(r), StillHolds(r)
    PROVE  AdmInv'
<1>1. ask' \in [Handlers -> AskRows] /\ ask'[g] = r /\ \A h \in Handlers : h # g => ask'[h] = ask[h]
  BY DEF AdmInv
<1>2. TableTypes'
  BY DEF AdmInv, TableTypes, Reads, ActiveTunnels
<1>3. ASSUME NEW a, StillHolds(a) PROVE StillHolds(a)'
  BY <1>3 DEF StillHolds, Reads, ActiveTunnels, ActiveRules, OnTunnel, NoProtocolConflict, FreePort, InterPorts
<1>4. ASSUME NEW h \in Handlers PROVE Shape(ask[h])' /\ StillHolds(ask[h])'
  <2>1. PICK a : a = ask'[h]
    OBVIOUS
  <2>2. Shape(a) /\ StillHolds(a)
    BY <1>1, <2>1 DEF AdmInv
  <2>3. StillHolds(a)'
    BY <1>3, <2>2
  <2>4. Shape(ask'[h])
    BY <2>1, <2>2
  <2> QED
    BY <2>1, <2>3, <2>4 DEF StillHolds, Shape
<1> QED
  BY <1>1, <1>2, <1>4 DEF AdmInv

LEMMA GoKeeps ==
    ASSUME AdmInv, NEW g \in Handlers, NEW pc \in AskSteps, Go(g, pc), Reads,
           Shape(Moved(ask[g], pc)), StillHolds(Moved(ask[g], pc))
    PROVE  AdmInv'
<1>1. ask[g] \in AskRows
  BY DEF AdmInv
<1>2. ask' = [ask EXCEPT ![g] = Moved(ask[g], pc)]
  BY <1>1 DEF Go, Moved, AdmInv, AskRows
<1>3. Moved(ask[g], pc) \in AskRows
  BY <1>1, MovedIs
<1> QED
  BY <1>2, <1>3, ReadKeeps

LEMMA RefusedKeeps == ASSUME AdmInv, NEW g \in Handlers, Refused(g) PROVE AdmInv'
BY AdmNumbers, IdleHolds, ReadKeeps DEF Refused, Reads

\* A step of g that writes: the others' reads may be out of date.
LEMMA WriteKeeps ==
    ASSUME AdmInv, NEW g \in Handlers, Wrote(g), TableTypes'
    PROVE  AdmInv'
<1>1. ASSUME NEW h \in Handlers PROVE ask'[h] \in AskRows /\ Shape(ask'[h]) /\ StillHolds(ask[h])'
  <2>1. CASE h = g
    <3>1. ask'[h] = NoAsk
      BY <2>1 DEF Wrote
    <3>2. StillHolds(NoAsk)'
      BY AdmNumbers DEF StillHolds
    <3> QED
      BY <3>1, <3>2, AdmNumbers DEF StillHolds
  <2>2. CASE h # g
    <3>1. ask[h] \in AskRows /\ Shape(ask[h])
      BY DEF AdmInv
    <3>2. ask'[h] = [ask[h] EXCEPT !.raced = (ask[h].pc # "idle")]
      BY <2>2 DEF Wrote
    <3>3. ask'[h] \in AskRows /\ Shape(ask'[h])
      BY <3>1, <3>2 DEF AskRows, Shape
    <3>4. ask'[h].raced \/ ask'[h].pc = "idle"
      BY <3>1, <3>2 DEF AskRows
    <3> QED
      BY <3>3, <3>4 DEF StillHolds
  <2> QED
    BY <2>1, <2>2
<1>2. ask' \in [Handlers -> AskRows]
  BY <1>1 DEF Wrote
<1>3. \A h \in Handlers : Shape(ask[h])'
  BY <1>1 DEF Shape
<1> QED
  BY <1>1, <1>2, <1>3 DEF AdmInv

\* A request comes in.
LEMMA ArrivesKeeps ==
    ASSUME AdmInv, NEW g \in Handlers, Arrives(g), Reads
    PROVE  AdmInv'
<1>1. ASSUME NEW r \in AskRows, ask' = [ask EXCEPT ![g] = r], r.pc \in {"node", "refs", "rules"},
             r.pc = "node" /\ r.op # "update" => r.id = 0,
             r.op = "import" => r.tun = 0 /\ r.id = 0, r.op \in {"import", "update"} => ~r.auto,
             r.op = "update" => r.id \in ActiveRules /\ ruleRow[r.id].proto = r.proto
      PROVE  AdmInv'
  <2>1. Shape(r) /\ StillHolds(r)
    BY <1>1 DEF Shape, StillHolds
  <2> QED
    BY <1>1, <2>1, ReadKeeps
<1>2. ASSUME NEW proto \in Protocols, NEW tun \in 0..MaxTunnels, NEW port \in 0..MaxPort,
             CreateAsked(g, proto, tun, port)
      PROVE  AdmInv'
  <2>1. PICK r : r = [NoAsk EXCEPT !.pc = "node", !.proto = proto, !.tun = tun, !.port = port, !.auto = (port = 0)]
    OBVIOUS
  <2>2. r \in AskRows /\ r.pc = "node" /\ r.op = "create" /\ r.id = 0
    BY <2>1, AdmNumbers DEF AskRows, AskSteps
  <2> QED
    BY <1>1, <1>2, <2>1, <2>2 DEF CreateAsked
<1>3. ASSUME NEW proto \in Protocols, NEW port \in Ports, ImportAsked(g, proto, port) PROVE AdmInv'
  <2>1. PICK r : r = [NoAsk EXCEPT !.pc = "node", !.op = "import", !.proto = proto, !.port = port]
    OBVIOUS
  <2>2. r \in AskRows /\ r.pc = "node" /\ r.op = "import" /\ r.id = 0 /\ r.tun = 0 /\ ~r.auto
    <3>1. port \in 0..MaxPort
      BY AdmNumbers DEF Ports
    <3> QED
      BY <2>1, <3>1, AdmNumbers DEF AskRows, AskSteps
  <2> QED
    BY <1>1, <1>3, <2>1, <2>2 DEF ImportAsked
<1>4. ASSUME NEW x \in RuleIds, NEW port \in Ports, UpdateAsked(g, x, port) PROVE AdmInv'
  <2>1. PICK r : r = [NoAsk EXCEPT !.pc = "node", !.op = "update", !.id = x, !.proto = ruleRow[x].proto, !.port = port]
    OBVIOUS
  <2>2. ruleRow[x].proto \in Protocols \cup {"tcp"} /\ x \in Nat /\ x \in ActiveRules
    BY <1>4 DEF AdmInv, TableTypes, ForwardRows, RuleIds, UpdateAsked
  <2>3. /\ r \in AskRows /\ r.pc = "node" /\ r.op = "update" /\ r.id = x /\ ~r.auto
        /\ r.proto = ruleRow[x].proto
    <3>1. port \in 0..MaxPort
      BY AdmNumbers DEF Ports
    <3> QED
      BY <2>1, <2>2, <3>1, AdmNumbers DEF AskRows, AskSteps
  <2> QED
    BY <1>1, <1>4, <2>1, <2>2, <2>3 DEF UpdateAsked
<1>5. ASSUME NEW way \in {"out", "in"}, TunnelAsked(g, way) PROVE AdmInv'
  <2>1. PICK r : r = [NoAsk EXCEPT !.pc = "node", !.op = "tunnel", !.auto = (way = "in")]
    OBVIOUS
  <2>2. r \in AskRows /\ r.pc = "node" /\ r.op = "tunnel" /\ r.id = 0
    BY <2>1, AdmNumbers DEF AskRows, AskSteps
  <2> QED
    BY <1>1, <1>5, <2>1, <2>2 DEF TunnelAsked
<1>6. ASSUME NEW t \in TunnelIds, TunnelDropAsked(g, t) PROVE AdmInv'
  <2>1. PICK r : r = [NoAsk EXCEPT !.pc = "refs", !.id = t]
    OBVIOUS
  <2>2. r \in AskRows /\ r.pc = "refs" /\ r.op = "create"
    <3>1. t \in Nat
      BY AdmNumbers DEF TunnelIds
    <3> QED
      BY <2>1, <3>1, AdmNumbers DEF AskRows, AskSteps
  <2> QED
    BY <1>1, <1>6, <2>1, <2>2 DEF TunnelDropAsked
<1>7. ASSUME NodeDropAsked(g) PROVE AdmInv'
  <2>1. PICK r : r = [NoAsk EXCEPT !.pc = "rules"]
    OBVIOUS
  <2>2. r \in AskRows /\ r.pc = "rules" /\ r.op = "create"
    BY <2>1, AdmNumbers DEF AskRows, AskSteps
  <2> QED
    BY <1>1, <1>7, <2>1, <2>2 DEF NodeDropAsked
<1>8. ASSUME NEW x \in RuleIds, RuleDelete(g, x) PROVE FALSE
  <2>1. ruleRow[x].st = "active" /\ ruleRow'[x] = [NoRuleRow EXCEPT !.st = "deleted"]
    BY <1>8 DEF RuleDelete, AdmInv, TableTypes, ActiveRules
  <2>2. ruleRow'[x].st = "deleted" /\ ruleRow' = ruleRow
    BY <2>1 DEF Reads, NoRuleRow
  <2> QED
    BY <2>1, <2>2
<1>9. /\ \A tun \in {0} \cup {t \in TunnelIds : tunnelRow[t].st # "none"} : tun \in 0..MaxTunnels
      /\ \A port \in Ports \cup {0} : port \in 0..MaxPort
  BY AdmNumbers DEF TunnelIds, Ports
<1> QED
  BY <1>2, <1>3, <1>4, <1>5, <1>6, <1>7, <1>8, <1>9 DEF Arrives

\* A request goes on, is refused, or has chosen a port.
ReadStep(g) ==
    \/ RuleNode(g) \/ RuleHops(g) \/ RuleQuota(g) \/ RuleTunnelQuota(g)
    \/ AllocateRules(g) \/ AllocateInterPorts(g) \/ ImportExact(g) \/ RuleConflict(g)
    \/ TunnelNode(g) \/ TunnelPort(g) \/ TunnelRefs(g) \/ NodeRules(g) \/ NodeTunnels(g)

LEMMA ReadStepKeeps ==
    ASSUME AdmInv, NEW g \in Handlers, ReadStep(g)
    PROVE  AdmInv'
<1> DEFINE a == ask[g]
<1>1. a \in AskRows /\ Shape(a) /\ StillHolds(a)
  BY DEF AdmInv
<1>2. \A pc \in AskSteps :
        /\ Moved(a, pc) \in AskRows /\ Moved(a, pc).pc = pc /\ Moved(a, pc).op = a.op
        /\ Moved(a, pc).id = a.id /\ Moved(a, pc).proto = a.proto /\ Moved(a, pc).tun = a.tun
        /\ Moved(a, pc).port = a.port /\ Moved(a, pc).auto = a.auto /\ Moved(a, pc).taken = a.taken
        /\ Moved(a, pc).raced = a.raced
  BY <1>1, MovedIs
<1>3. /\ a.op \in {"create", "import", "update", "tunnel"} /\ a.tun \in 0..MaxTunnels /\ a.auto \in BOOLEAN
      /\ a.taken \in SUBSET Nat /\ a.raced \in BOOLEAN
      /\ a.tun # 0 => a.tun \in TunnelIds
  BY <1>1, AdmNumbers DEF AskRows, TunnelIds
<1>4. ASSUME NEW pc \in AskSteps, Go(g, pc), Reads, Shape(Moved(a, pc)), StillHolds(Moved(a, pc)) PROVE AdmInv'
  BY <1>4, GoKeeps
<1>5. Refused(g) => AdmInv'
  BY RefusedKeeps
<1>6. \A t \in TunnelIds : tunnelRow[t].rows <=> t \in ActiveTunnels
  BY DEF AdmInv, TableTypes
<1>7. {"hops", "quota", "tunnelQuota", "ports", "interPorts", "exact", "conflict", "insert", "move",
       "hopPort", "insertTunnel", "dropTunnel", "tunnels", "dropNode"} \subseteq AskSteps
  BY DEF AskSteps
<1> HIDE DEF a
<1>11. CASE RuleNode(g)
  <2>1. PICK pc : pc = CASE a.op = "update" -> "conflict" [] a.op = "import" -> "exact"
                         [] a.op = "create" -> IF a.tun = 0 THEN "quota" ELSE "hops"
    OBVIOUS
  <2>2. a.pc = "node" /\ a.op # "tunnel" /\ (IF nodeHere THEN Go(g, pc) /\ Reads ELSE Refused(g))
    BY <1>11, <2>1 DEF RuleNode, Check, At, a
  <2>3. pc \in AskSteps /\ \/ a.op = "update" /\ pc = "conflict"
                           \/ a.op = "import" /\ pc = "exact"
                           \/ a.op = "create" /\ a.tun = 0 /\ pc = "quota"
                           \/ a.op = "create" /\ a.tun # 0 /\ pc = "hops"
    BY <1>3, <1>7, <2>1, <2>2
  <2>4. CASE nodeHere
    <3>1. Shape(Moved(a, pc))
      BY <1>1, <1>2, <2>2, <2>3 DEF Shape
    <3>2. StillHolds(Moved(a, pc))
      BY <1>1, <1>2, <2>2, <2>3, <2>4 DEF StillHolds, Shape
    <3> QED
      BY <1>4, <2>2, <2>3, <2>4, <3>1, <3>2
  <2> QED
    BY <1>5, <2>2, <2>4
<1>12. CASE RuleHops(g)
  <2>1. a.pc = "hops" /\ (IF tunnelRow[a.tun].rows /\ tunnelRow[a.tun].way = "out" THEN Go(g, "quota") /\ Reads
                          ELSE Refused(g))
    BY <1>12 DEF RuleHops, Check, At, a
  <2>2. CASE tunnelRow[a.tun].rows /\ tunnelRow[a.tun].way = "out"
    <3>1. a.tun \in ActiveTunnels
      BY <1>1, <1>3, <1>6, <2>1, <2>2 DEF Shape
    <3>2. Shape(Moved(a, "quota"))
      BY <1>1, <1>2, <1>7, <2>1 DEF Shape
    <3>3. StillHolds(Moved(a, "quota"))
      BY <1>1, <1>2, <1>7, <2>1, <3>1 DEF StillHolds
    <3> QED
      BY <1>4, <1>7, <2>1, <2>2, <3>2, <3>3
  <2> QED
    BY <1>5, <2>1, <2>2
<1>13. CASE RuleQuota(g)
  <2>1. PICK pc : pc = IF a.tun = 0 THEN AfterQuota(g) ELSE "tunnelQuota"
    OBVIOUS
  <2>2. a.pc = "quota" /\ (IF Cardinality(ActiveRules) < UserQuota THEN Go(g, pc) /\ Reads ELSE Refused(g))
    BY <1>13, <2>1 DEF RuleQuota, Check, At, UnderQuota, a
  <2>3. pc \in AskSteps /\ \/ a.tun = 0 /\ a.auto /\ pc = "ports"
                           \/ a.tun = 0 /\ ~a.auto /\ pc = "conflict"
                           \/ a.tun # 0 /\ pc = "tunnelQuota"
    BY <1>7, <2>1 DEF AfterQuota, a
  <2>4. CASE Cardinality(ActiveRules) < UserQuota
    <3>1. Shape(Moved(a, pc))
      BY <1>1, <1>2, <2>2, <2>3 DEF Shape
    <3>2. StillHolds(Moved(a, pc))
      BY <1>1, <1>2, <2>2, <2>3, <2>4 DEF StillHolds, Shape
    <3> QED
      BY <1>4, <2>2, <2>3, <2>4, <3>1, <3>2
  <2> QED
    BY <1>5, <2>2, <2>4
<1>14. CASE RuleTunnelQuota(g)
  <2>1. PICK pc : pc = AfterQuota(g)
    OBVIOUS
  <2>2. a.pc = "tunnelQuota"
        /\ (IF Cardinality(OnTunnel(a.tun)) < TunnelQuota THEN Go(g, pc) /\ Reads ELSE Refused(g))
    BY <1>14, <2>1 DEF RuleTunnelQuota, Check, At, UnderQuota, a
  <2>3. pc \in AskSteps /\ \/ a.auto /\ pc = "ports"
                           \/ ~a.auto /\ pc = "conflict"
    BY <1>7, <2>1 DEF AfterQuota, a
  <2>4. CASE Cardinality(OnTunnel(a.tun)) < TunnelQuota
    <3>1. Shape(Moved(a, pc))
      BY <1>1, <1>2, <2>2, <2>3 DEF Shape
    <3>2. StillHolds(Moved(a, pc))
      BY <1>1, <1>2, <2>2, <2>3, <2>4 DEF StillHolds, Shape
    <3> QED
      BY <1>4, <2>2, <2>3, <2>4, <3>1, <3>2
  <2> QED
    BY <1>5, <2>2, <2>4
<1>15. CASE AllocateRules(g)
  <2>0. a.pc = "ports" /\ Reads /\ a.op = "create" /\ a.id = 0 /\ a.auto
    BY <1>1, <1>15 DEF AllocateRules, At, Shape, a
  <2>1. PICK u : /\ ask' = [ask EXCEPT ![g].pc = "interPorts", ![g].taken = u]
                 /\ u = {ruleRow[r].port : r \in {x \in ActiveRules : \/ ruleRow[x].proto = a.proto
                                                                     \/ Clash(a.proto, ruleRow[x].proto)}}
    BY <1>15 DEF AllocateRules, a
  <2>2. u \subseteq Nat
    BY <2>1, AdmNumbers DEF AdmInv, TableTypes, ForwardRows, ActiveRules
  <2>3. PICK r : r = [a EXCEPT !.pc = "interPorts", !.taken = u]
    OBVIOUS
  <2>4. ask' = [ask EXCEPT ![g] = r]
    BY <1>1, <2>1, <2>3 DEF a, AskRows, AdmInv
  <2>5. /\ r \in AskRows /\ r.pc = "interPorts" /\ r.op = a.op /\ r.id = a.id /\ r.proto = a.proto
        /\ r.tun = a.tun /\ r.auto = a.auto /\ r.taken = u /\ r.raced = a.raced
    BY <1>1, <1>7, <2>2, <2>3 DEF AskRows
  <2>6. Shape(r)
    BY <2>0, <2>5 DEF Shape
  <2>7. StillHolds(r)
    BY <1>1, <2>0, <2>1, <2>5 DEF StillHolds
  <2> QED
    BY <2>0, <2>4, <2>5, <2>6, <2>7, ReadKeeps
<1>16. CASE AllocateInterPorts(g)
  <2>0. a.pc = "interPorts" /\ a.op = "create" /\ a.id = 0 /\ a.auto
    BY <1>1, <1>16 DEF AllocateInterPorts, At, Shape, a
  <2>1. PICK free : free = (Ports \ a.taken) \ InterPorts
    OBVIOUS
  <2>2. IF free = {} THEN Refused(g)
        ELSE /\ ask' = [ask EXCEPT ![g].pc = "conflict", ![g].port = Min(free), ![g].taken = {}]
             /\ Reads
    BY <1>16, <2>1 DEF AllocateInterPorts, a
  <2>3. CASE free # {}
    <3>1. PICK port : port = Min(free)
      OBVIOUS
    <3>2. port \in free /\ port \in 0..MaxPort /\ port \notin a.taken /\ port \notin InterPorts
      <4>1. free \subseteq Nat
        BY <2>1, AdmNumbers DEF Ports
      <4>2. port \in free
        BY <2>3, <3>1, <4>1, SmallestIn
      <4> QED
        BY <2>1, <4>2, AdmNumbers DEF Ports
    <3>3. PICK r : r = [a EXCEPT !.pc = "conflict", !.port = port, !.taken = {}]
      OBVIOUS
    <3>4. ask' = [ask EXCEPT ![g] = r] /\ Reads
      BY <1>1, <2>2, <2>3, <3>1, <3>3 DEF a, AskRows, AdmInv
    <3>5. /\ r \in AskRows /\ r.pc = "conflict" /\ r.op = a.op /\ r.id = a.id /\ r.proto = a.proto
          /\ r.tun = a.tun /\ r.auto = a.auto /\ r.port = port /\ r.raced = a.raced
      BY <1>1, <1>7, <3>2, <3>3 DEF AskRows
    <3>6. Shape(r)
      BY <1>1, <2>0, <3>5 DEF Shape
    <3>7. ~r.raced => FreePort(port, r.proto)
      BY <1>1, <2>0, <3>2, <3>5 DEF StillHolds, FreePort
    <3>8. StillHolds(r)
      BY <1>1, <2>0, <3>5, <3>7 DEF StillHolds
    <3> QED
      BY <3>4, <3>5, <3>6, <3>8, ReadKeeps
  <2> QED
    BY <1>5, <2>2, <2>3
<1>17. CASE ImportExact(g)
  <2>1. a.pc = "exact" /\ ((Go(g, "conflict") /\ Reads) \/ Refused(g))
    BY <1>17 DEF ImportExact, Check, At, a
  <2>2. CASE Go(g, "conflict") /\ Reads
    <3>1. Shape(Moved(a, "conflict"))
      BY <1>1, <1>2, <1>7, <2>1 DEF Shape
    <3>2. StillHolds(Moved(a, "conflict"))
      BY <1>1, <1>2, <1>7, <2>1 DEF StillHolds, Shape
    <3> QED
      BY <1>4, <1>7, <2>2, <3>1, <3>2
  <2> QED
    BY <1>5, <2>1, <2>2
<1>18. CASE RuleConflict(g)
  <2>1. PICK pc : pc = IF a.op = "update" THEN "move" ELSE "insert"
    OBVIOUS
  <2>2. a.pc = "conflict"
        /\ (IF NoProtocolConflict(a.port, a.proto, a.id) THEN Go(g, pc) /\ Reads ELSE Refused(g))
    BY <1>18, <2>1 DEF RuleConflict, Check, At, a
  <2>3. pc \in AskSteps /\ \/ a.op = "update" /\ pc = "move"
                           \/ a.op # "update" /\ pc = "insert"
    BY <1>7, <2>1
  <2>4. CASE NoProtocolConflict(a.port, a.proto, a.id)
    <3>1. Shape(Moved(a, pc))
      BY <1>1, <1>2, <1>3, <2>2, <2>3 DEF Shape
    <3>2. StillHolds(Moved(a, pc))
      BY <1>1, <1>2, <2>2, <2>3, <2>4 DEF StillHolds, Shape
    <3> QED
      BY <1>4, <2>2, <2>3, <2>4, <3>1, <3>2
  <2> QED
    BY <1>5, <2>2, <2>4
<1>19. CASE TunnelNode(g)
  <2>1. PICK pc : pc = IF a.auto THEN "hopPort" ELSE "insertTunnel"
    OBVIOUS
  <2>2. a.pc = "node" /\ a.op = "tunnel" /\ (IF nodeHere THEN Go(g, pc) /\ Reads ELSE Refused(g))
    BY <1>19, <2>1 DEF TunnelNode, Check, At, a
  <2>3. pc \in AskSteps /\ \/ a.auto /\ pc = "hopPort"
                           \/ ~a.auto /\ pc = "insertTunnel"
    BY <1>7, <2>1
  <2>4. CASE nodeHere
    <3>1. Shape(Moved(a, pc))
      BY <1>1, <1>2, <2>2, <2>3 DEF Shape
    <3>2. StillHolds(Moved(a, pc))
      BY <1>1, <1>2, <2>2, <2>3, <2>4 DEF StillHolds
    <3> QED
      BY <1>4, <2>2, <2>3, <2>4, <3>1, <3>2
  <2> QED
    BY <1>5, <2>2, <2>4
<1>20. CASE TunnelPort(g)
  <2>0. a.pc = "hopPort" /\ a.op = "tunnel"
    BY <1>1, <1>20 DEF TunnelPort, At, Shape, a
  <2>1. PICK free : free = (Ports \ {ruleRow[r].port : r \in ActiveRules}) \ InterPorts
    OBVIOUS
  <2>2. IF free = {} THEN Refused(g)
        ELSE ask' = [ask EXCEPT ![g].pc = "insertTunnel", ![g].port = Min(free)] /\ Reads
    BY <1>20, <2>1 DEF TunnelPort
  <2>3. CASE free # {}
    <3>1. PICK port : port = Min(free)
      OBVIOUS
    <3>2. /\ port \in 0..MaxPort /\ port \notin InterPorts
          /\ \A r \in ActiveRules : ruleRow[r].port # port
      <4>1. free \subseteq Nat
        BY <2>1, AdmNumbers DEF Ports
      <4>2. port \in free
        BY <2>3, <3>1, <4>1, SmallestIn
      <4> QED
        BY <2>1, <4>2, AdmNumbers DEF Ports
    <3>3. PICK r : r = [a EXCEPT !.pc = "insertTunnel", !.port = port]
      OBVIOUS
    <3>4. ask' = [ask EXCEPT ![g] = r] /\ Reads
      BY <1>1, <2>2, <2>3, <3>1, <3>3 DEF a, AskRows, AdmInv
    <3>5. /\ r \in AskRows /\ r.pc = "insertTunnel" /\ r.op = a.op /\ r.id = a.id
          /\ r.tun = a.tun /\ r.auto = a.auto /\ r.port = port /\ r.raced = a.raced
      BY <1>1, <3>2, <3>3 DEF AskRows, AskSteps
    <3>6. Shape(r)
      BY <1>1, <2>0, <3>5 DEF Shape
    <3>7. StillHolds(r)
      BY <1>1, <2>0, <3>2, <3>5 DEF StillHolds
    <3> QED
      BY <3>4, <3>5, <3>6, <3>7, ReadKeeps
  <2> QED
    BY <1>5, <2>2, <2>3
<1>21. CASE TunnelRefs(g)
  <2>1. a.pc = "refs" /\ (IF OnTunnel(a.id) = {} THEN Go(g, "dropTunnel") /\ Reads ELSE Refused(g))
    BY <1>21 DEF TunnelRefs, Check, At, a
  <2>2. CASE OnTunnel(a.id) = {}
    <3>1. Shape(Moved(a, "dropTunnel"))
      BY <1>1, <1>2, <1>7, <2>1 DEF Shape
    <3>2. StillHolds(Moved(a, "dropTunnel"))
      BY <1>1, <1>2, <1>7, <2>1, <2>2 DEF StillHolds
    <3> QED
      BY <1>4, <1>7, <2>1, <2>2, <3>1, <3>2
  <2> QED
    BY <1>5, <2>1, <2>2
<1>22. CASE NodeRules(g)
  <2>1. a.pc = "rules" /\ (IF ActiveRules = {} THEN Go(g, "tunnels") /\ Reads ELSE Refused(g))
    BY <1>22 DEF NodeRules, Check, At, a
  <2>2. CASE ActiveRules = {}
    <3>1. Shape(Moved(a, "tunnels"))
      BY <1>1, <1>2, <1>7, <2>1 DEF Shape
    <3>2. StillHolds(Moved(a, "tunnels"))
      BY <1>1, <1>2, <1>7, <2>1, <2>2 DEF StillHolds
    <3> QED
      BY <1>4, <1>7, <2>1, <2>2, <3>1, <3>2
  <2> QED
    BY <1>5, <2>1, <2>2
<1>23. CASE NodeTunnels(g)
  <2>1. a.pc = "tunnels" /\ (IF ActiveTunnels = {} THEN Go(g, "dropNode") /\ Reads ELSE Refused(g))
    BY <1>23 DEF NodeTunnels, Check, At, a
  <2>2. CASE ActiveTunnels = {}
    <3>1. Shape(Moved(a, "dropNode"))
      BY <1>1, <1>2, <1>7, <2>1 DEF Shape
    <3>2. StillHolds(Moved(a, "dropNode"))
      BY <1>1, <1>2, <1>7, <2>1, <2>2 DEF StillHolds
    <3> QED
      BY <1>4, <1>7, <2>1, <2>2, <3>1, <3>2
  <2> QED
    BY <1>5, <2>1, <2>2
<1> QED
  BY <1>11, <1>12, <1>13, <1>14, <1>15, <1>16, <1>17, <1>18, <1>19, <1>20, <1>21, <1>22, <1>23 DEF ReadStep

\* What a request writes.
LEMMA InsertWrites ==
    ASSUME AdmInv, NEW g \in Handlers, RuleInsert(g), ~BindingTaken(ask[g].port, ask[g].proto, 0)
    PROVE  \E n \in RuleIds :
              /\ n \notin ActiveRules /\ ActiveRules' = ActiveRules \cup {n}
              /\ \A r \in ActiveRules : r # n /\ ruleRow'[r] = ruleRow[r]
              /\ ruleRow'[n].port = ask[g].port /\ ruleRow'[n].proto = ask[g].proto /\ ruleRow'[n].tun = ask[g].tun
              /\ ruleRow' \in [RuleIds -> ForwardRows]
              /\ Wrote(g) /\ UNCHANGED <<tunnelRow, nodeHere>>
<1>1. ask[g] \in AskRows /\ ruleRow \in [RuleIds -> ForwardRows]
  BY DEF AdmInv, TableTypes
<1>2. PICK n : n = Min({r \in RuleIds : ruleRow[r].st = "none"})
  OBVIOUS
<1>3. n \in RuleIds /\ ruleRow[n].st = "none"
  <2>1. {r \in RuleIds : ruleRow[r].st = "none"} # {}
    BY DEF RuleInsert
  <2>2. {r \in RuleIds : ruleRow[r].st = "none"} \subseteq Nat
    BY AdmNumbers DEF RuleIds
  <2> QED
    BY <1>2, <2>1, <2>2, SmallestIn
<1>4. /\ ruleRow' = [ruleRow EXCEPT ![n] = [st |-> "active", port |-> ask[g].port, proto |-> ask[g].proto,
                                            tun |-> ask[g].tun]]
      /\ Wrote(g) /\ UNCHANGED <<tunnelRow, nodeHere>>
  BY <1>2 DEF RuleInsert
<1>5. [st |-> "active", port |-> ask[g].port, proto |-> ask[g].proto, tun |-> ask[g].tun] \in ForwardRows
  BY <1>1 DEF AskRows, ForwardRows
<1>6. /\ ruleRow' \in [RuleIds -> ForwardRows] /\ ruleRow'[n].st = "active"
      /\ ruleRow'[n].port = ask[g].port /\ ruleRow'[n].proto = ask[g].proto /\ ruleRow'[n].tun = ask[g].tun
      /\ \A r \in RuleIds : r # n => ruleRow'[r] = ruleRow[r]
  BY <1>1, <1>3, <1>4, <1>5
<1>7. n \notin ActiveRules /\ \A r \in ActiveRules : r # n /\ ruleRow'[r] = ruleRow[r]
  BY <1>3, <1>6 DEF ActiveRules
<1>8. ActiveRules' = ActiveRules \cup {n}
  BY <1>3, <1>6, <1>7 DEF ActiveRules
<1> QED
  BY <1>3, <1>4, <1>6, <1>7, <1>8

LEMMA MoveWrites ==
    ASSUME AdmInv, NEW g \in Handlers, RuleMove(g), ~Refused(g)
    PROVE  LET n == ask[g].id IN
           /\ n \in ActiveRules /\ ActiveRules' = ActiveRules
           /\ \A r \in ActiveRules : ruleRow'[r].proto = ruleRow[r].proto /\ ruleRow'[r].tun = ruleRow[r].tun
           /\ \A r \in ActiveRules : r # n => ruleRow'[r] = ruleRow[r]
           /\ ruleRow'[n].port = ask[g].port
           /\ ruleRow' \in [RuleIds -> ForwardRows]
           /\ Wrote(g) /\ UNCHANGED <<tunnelRow, nodeHere>>
<1> DEFINE n == ask[g].id
<1>1. ask[g] \in AskRows /\ ruleRow \in [RuleIds -> ForwardRows]
  BY DEF AdmInv, TableTypes
<1>2. n \in ActiveRules /\ n \in RuleIds /\ ruleRow' = [ruleRow EXCEPT ![n].port = ask[g].port]
      /\ Wrote(g) /\ UNCHANGED <<tunnelRow, nodeHere>>
  BY DEF RuleMove, ActiveRules
<1>3. ask[g].port \in 0..MaxPort
  BY <1>1 DEF AskRows
<1> HIDE DEF n
<1>4. /\ ruleRow' \in [RuleIds -> ForwardRows]
      /\ \A r \in RuleIds : ruleRow'[r].proto = ruleRow[r].proto /\ ruleRow'[r].tun = ruleRow[r].tun
                            /\ ruleRow'[r].st = ruleRow[r].st
      /\ \A r \in RuleIds : r # n => ruleRow'[r] = ruleRow[r]
      /\ ruleRow'[n].port = ask[g].port
  BY <1>1, <1>2, <1>3 DEF ForwardRows
<1>5. ActiveRules' = ActiveRules /\ \A r \in ActiveRules : r \in RuleIds
  BY <1>4 DEF ActiveRules
<1> QED
  BY <1>2, <1>4, <1>5 DEF n

LEMMA DeleteWrites ==
    ASSUME AdmInv, NEW g \in Handlers, NEW n \in RuleIds, RuleDelete(g, n)
    PROVE  /\ ActiveRules' = ActiveRules \ {n} /\ \A r \in ActiveRules' : ruleRow'[r] = ruleRow[r]
           /\ ruleRow' \in [RuleIds -> ForwardRows]
           /\ Wrote(g) /\ UNCHANGED <<tunnelRow, nodeHere>>
<1>1. ruleRow \in [RuleIds -> ForwardRows]
  BY DEF AdmInv, TableTypes
<1>2. [NoRuleRow EXCEPT !.st = "deleted"] \in ForwardRows /\ [NoRuleRow EXCEPT !.st = "deleted"].st = "deleted"
  BY AdmNumbers DEF ForwardRows
<1> QED
  BY <1>1, <1>2 DEF RuleDelete, ActiveRules

\* The inter ports the index over tunnel_hops refuses.
HeldPorts == {tunnelRow[t].port : t \in {s \in TunnelIds : tunnelRow[s].rows}} \ {0}

LEMMA TunnelInsertWrites ==
    ASSUME AdmInv, NEW g \in Handlers, TunnelInsert(g), ask[g].port \notin HeldPorts
    PROVE  \E n \in TunnelIds :
              /\ n \notin ActiveTunnels /\ ActiveTunnels' = ActiveTunnels \cup {n}
              /\ \A t \in ActiveTunnels : tunnelRow'[t] = tunnelRow[t]
              /\ tunnelRow'[n].port = ask[g].port
              /\ tunnelRow' \in [TunnelIds -> TunnelRows]
              /\ (\A t \in TunnelIds : tunnelRow[t].rows <=> t \in ActiveTunnels)'
              /\ Wrote(g) /\ UNCHANGED <<ruleRow, nodeHere>>
<1>1. /\ ask[g] \in AskRows /\ tunnelRow \in [TunnelIds -> TunnelRows]
      /\ \A t \in TunnelIds : tunnelRow[t].rows <=> t \in ActiveTunnels
  BY DEF AdmInv, TableTypes
<1>2. PICK n : n = Min({t \in TunnelIds : tunnelRow[t].st = "none"})
  OBVIOUS
<1>3. n \in TunnelIds /\ tunnelRow[n].st = "none"
  <2>1. {t \in TunnelIds : tunnelRow[t].st = "none"} # {}
    BY DEF TunnelInsert
  <2>2. {t \in TunnelIds : tunnelRow[t].st = "none"} \subseteq Nat
    BY AdmNumbers DEF TunnelIds
  <2> QED
    BY <1>2, <2>1, <2>2, SmallestIn
<1>4. PICK row : row = [st |-> "active", way |-> IF ask[g].auto THEN "in" ELSE "out", port |-> ask[g].port, rows |-> TRUE]
  OBVIOUS
<1>5. /\ tunnelRow' = [tunnelRow EXCEPT ![n] = row]
      /\ Wrote(g) /\ UNCHANGED <<ruleRow, nodeHere>>
  BY <1>2, <1>4 DEF TunnelInsert, HeldPorts
<1>6. row \in TunnelRows /\ row.st = "active" /\ row.port = ask[g].port /\ row.rows
  BY <1>1, <1>4 DEF AskRows, TunnelRows
<1>7. /\ tunnelRow' \in [TunnelIds -> TunnelRows] /\ tunnelRow'[n] = row
      /\ \A t \in TunnelIds : t # n => tunnelRow'[t] = tunnelRow[t]
  BY <1>1, <1>3, <1>5, <1>6
<1>8. ActiveTunnels' = ActiveTunnels \cup {n} /\ n \notin ActiveTunnels
  BY <1>3, <1>6, <1>7 DEF ActiveTunnels
<1>9. \A t \in ActiveTunnels : tunnelRow'[t] = tunnelRow[t]
  BY <1>7, <1>8 DEF ActiveTunnels
<1>10. (\A t \in TunnelIds : tunnelRow[t].rows <=> t \in ActiveTunnels)'
  BY <1>1, <1>6, <1>7, <1>8
<1> QED
  BY <1>3, <1>5, <1>6, <1>7, <1>8, <1>9, <1>10

LEMMA TunnelDropWrites ==
    ASSUME AdmInv, NEW g \in Handlers, TunnelDrop(g), ~Refused(g)
    PROVE  /\ ActiveTunnels' = ActiveTunnels \ {ask[g].id}
           /\ \A t \in ActiveTunnels' : tunnelRow'[t] = tunnelRow[t]
           /\ tunnelRow' \in [TunnelIds -> TunnelRows]
           /\ (\A t \in TunnelIds : tunnelRow[t].rows <=> t \in ActiveTunnels)'
           /\ Wrote(g) /\ UNCHANGED <<ruleRow, nodeHere>>
<1>1. /\ tunnelRow \in [TunnelIds -> TunnelRows]
      /\ \A t \in TunnelIds : tunnelRow[t].rows <=> t \in ActiveTunnels
  BY DEF AdmInv, TableTypes
<1>2. PICK n : n = ask[g].id
  OBVIOUS
<1>3. PICK row : row = [NoTunnelRow EXCEPT !.st = "deleted"]
  OBVIOUS
<1>4. /\ n \in ActiveTunnels /\ tunnelRow' = [tunnelRow EXCEPT ![n] = row]
      /\ Wrote(g) /\ UNCHANGED <<ruleRow, nodeHere>>
  BY <1>2, <1>3 DEF TunnelDrop
<1>5. row \in TunnelRows /\ row.st = "deleted" /\ ~row.rows
  BY <1>3, AdmNumbers DEF TunnelRows, NoTunnelRow
<1>6. /\ tunnelRow' \in [TunnelIds -> TunnelRows] /\ n \in TunnelIds /\ tunnelRow'[n] = row
      /\ \A t \in TunnelIds : t # n => tunnelRow'[t] = tunnelRow[t]
  BY <1>1, <1>4, <1>5 DEF ActiveTunnels
<1>7. ActiveTunnels' = ActiveTunnels \ {n}
  BY <1>5, <1>6 DEF ActiveTunnels
<1>8. \A t \in ActiveTunnels' : tunnelRow'[t] = tunnelRow[t]
  BY <1>6, <1>7 DEF ActiveTunnels
<1>9. (\A t \in TunnelIds : tunnelRow[t].rows <=> t \in ActiveTunnels)'
  BY <1>1, <1>5, <1>6, <1>7
<1> QED
  BY <1>2, <1>4, <1>6, <1>7, <1>8, <1>9

LEMMA AdmStep == AdmInv /\ [AdmissionNext]_admVars => AdmInv'
<1> SUFFICES ASSUME AdmInv, [AdmissionNext]_admVars PROVE AdmInv'
  OBVIOUS
<1>0. /\ ruleRow \in [RuleIds -> ForwardRows] /\ tunnelRow \in [TunnelIds -> TunnelRows]
      /\ \A t \in TunnelIds : tunnelRow[t].rows <=> t \in ActiveTunnels
      /\ nodeHere \in BOOLEAN
  BY DEF AdmInv, TableTypes
<1>1. ASSUME NEW g \in Handlers, Arrives(g) PROVE AdmInv'
  <2>1. CASE Reads
    BY <1>1, <2>1, ArrivesKeeps
  <2>2. CASE ~Reads
    <3>1. PICK n \in RuleIds : RuleDelete(g, n)
      BY <1>1, <2>2 DEF Arrives, CreateAsked, ImportAsked, UpdateAsked, TunnelAsked, TunnelDropAsked, NodeDropAsked
    <3>2. TableTypes'
      BY <1>0, <3>1, DeleteWrites DEF TableTypes, ActiveTunnels
    <3> QED
      BY <3>1, <3>2, WriteKeeps, DeleteWrites
  <2> QED
    BY <2>1, <2>2
<1>2. ASSUME NEW g \in Handlers, Proceeds(g) PROVE AdmInv'
  <2>1. CASE ReadStep(g)
    BY <2>1, ReadStepKeeps
  <2>2. CASE Refused(g)
    BY <2>2, RefusedKeeps
  <2>3. CASE RuleInsert(g) /\ ~BindingTaken(ask[g].port, ask[g].proto, 0)
    <3>1. PICK n \in RuleIds : ruleRow' \in [RuleIds -> ForwardRows] /\ Wrote(g) /\ UNCHANGED <<tunnelRow, nodeHere>>
      BY <2>3, InsertWrites
    <3>2. TableTypes'
      BY <1>0, <3>1 DEF TableTypes, ActiveTunnels
    <3> QED
      BY <3>1, <3>2, WriteKeeps
  <2>4. CASE RuleMove(g) /\ ~Refused(g)
    <3>1. ruleRow' \in [RuleIds -> ForwardRows] /\ Wrote(g) /\ UNCHANGED <<tunnelRow, nodeHere>>
      BY <2>4, MoveWrites
    <3>2. TableTypes'
      BY <1>0, <3>1 DEF TableTypes, ActiveTunnels
    <3> QED
      BY <3>1, <3>2, WriteKeeps
  <2>5. CASE TunnelInsert(g) /\ ask[g].port \notin HeldPorts
    <3>1. TableTypes' /\ Wrote(g)
      BY <1>0, <2>5, TunnelInsertWrites DEF TableTypes
    <3> QED
      BY <3>1, WriteKeeps
  <2>6. CASE TunnelDrop(g) /\ ~Refused(g)
    <3>1. TableTypes' /\ Wrote(g)
      BY <1>0, <2>6, TunnelDropWrites DEF TableTypes
    <3> QED
      BY <3>1, WriteKeeps
  <2>7. CASE NodeDrop(g) /\ ~Refused(g)
    <3>1. nodeHere' = FALSE /\ Wrote(g) /\ UNCHANGED <<ruleRow, tunnelRow>>
      BY <2>7 DEF NodeDrop
    <3>2. TableTypes'
      BY <1>0, <3>1 DEF TableTypes, ActiveTunnels
    <3> QED
      BY <3>1, <3>2, WriteKeeps
  <2>8. /\ RuleInsert(g) /\ BindingTaken(ask[g].port, ask[g].proto, 0) => Refused(g)
        /\ TunnelInsert(g) /\ ask[g].port \in HeldPorts => Refused(g)
    BY DEF RuleInsert, TunnelInsert, HeldPorts
  <2> QED
    BY <1>2, <2>1, <2>2, <2>3, <2>4, <2>5, <2>6, <2>7, <2>8 DEF Proceeds, ReadStep
<1>3. CASE UNCHANGED admVars
  <2>1. Reads /\ ask' = ask
    BY <1>3 DEF admVars, Reads
  <2>2. ASSUME NEW g \in Handlers PROVE AdmInv'
    <3>1. PICK r : r = ask[g]
      OBVIOUS
    <3>2. r \in AskRows /\ Shape(r) /\ StillHolds(r) /\ ask' = [ask EXCEPT ![g] = r]
      BY <2>1, <3>1 DEF AdmInv
    <3> QED
      BY <2>1, <3>2, ReadKeeps
  <2>3. CASE Handlers = {}
    BY <2>1, <2>3 DEF AdmInv, TableTypes, Reads, ActiveTunnels
  <2> QED
    BY <2>2, <2>3
<1> QED
  BY <1>1, <1>2, <1>3 DEF AdmissionNext

\* For any tables, ports, quotas and requests that overlap: what a request has found
\* holds until another one writes.
THEOREM AdmissionInvariant == AdmissionSpec => []AdmInv
BY AdmInitInv, AdmStep, PTL DEF AdmissionSpec

\* Rules other than n are as they were, and n clashes with none of them.
LEMMA NoClash ==
    ASSUME NEW n, \A r \in ActiveRules' : r # n => r \in ActiveRules /\ ruleRow'[r] = ruleRow[r],
           n \in ActiveRules' =>
              \A r \in ActiveRules' : r # n /\ ruleRow'[r].port = ruleRow'[n].port =>
                                         ~Clash(ruleRow'[n].proto, ruleRow'[r].proto)
    PROVE  ~NewClash
<1>1. ASSUME NEW c \in Clashes' PROVE c \in Clashes
  <2>1. PICK r \in ActiveRules', s \in ActiveRules' : c = {r, s}
    BY DEF Clashes
  <2>2. c \in SUBSET RuleIds
    BY DEF Clashes
  <2>3. PICK x \in c, y \in c : Clash(ruleRow'[x].proto, ruleRow'[y].proto) /\ ruleRow'[x].port = ruleRow'[y].port
    BY DEF Clashes
  <2>4. x # y /\ Clash(ruleRow'[y].proto, ruleRow'[x].proto)
    BY <2>3 DEF Clash
  <2>5. x \in ActiveRules' /\ y \in ActiveRules' /\ c = {x, y}
    BY <2>1, <2>3, <2>4
  <2>6. x # n /\ y # n
    BY <2>3, <2>4, <2>5
  <2>7. x \in ActiveRules /\ y \in ActiveRules /\ ruleRow'[x] = ruleRow[x] /\ ruleRow'[y] = ruleRow[y]
    BY <2>5, <2>6
  <2>8. Clash(ruleRow[x].proto, ruleRow[y].proto) /\ ruleRow[x].port = ruleRow[y].port
    BY <2>3, <2>7
  <2>9. c \in {d \in SUBSET RuleIds : \E p, q \in d : /\ Clash(ruleRow[p].proto, ruleRow[q].proto)
                                                     /\ ruleRow[p].port = ruleRow[q].port}
    BY <2>2, <2>3, <2>8
  <2> QED
    BY <2>5, <2>7, <2>9 DEF Clashes
<1> QED
  BY <1>1 DEF NewClash

LEMMA ActiveFinite ==
    /\ IsFiniteSet(ActiveRules) /\ Cardinality(ActiveRules) \in Nat
    /\ \A t : IsFiniteSet(OnTunnel(t)) /\ Cardinality(OnTunnel(t)) \in Nat
<1>1. IsFiniteSet(RuleIds)
  BY AdmNumbers, FS_Interval DEF RuleIds
<1>2. IsFiniteSet(ActiveRules)
  BY <1>1, FS_Subset DEF ActiveRules
<1>3. ASSUME NEW t PROVE IsFiniteSet(OnTunnel(t))
  BY <1>2, FS_Subset DEF OnTunnel
<1> QED
  BY <1>2, <1>3, FS_CardinalityType

\* Rules that are fewer than before, or as many, exceed nothing anew.
LEMMA NoExcess ==
    ASSUME ActiveRules' \subseteq ActiveRules, \A r \in ActiveRules' : ruleRow'[r].tun = ruleRow[r].tun
    PROVE  ~NewExcess
<1>1. ~(Cardinality(ActiveRules') > Cardinality(ActiveRules))
  <2>1. IsFiniteSet(ActiveRules) /\ Cardinality(ActiveRules) \in Nat
    BY ActiveFinite
  <2>2. PICK S : S = ActiveRules'
    OBVIOUS
  <2>3. Cardinality(S) <= Cardinality(ActiveRules) /\ Cardinality(S) \in Nat
    BY <2>1, <2>2, FS_Subset, FS_CardinalityType
  <2> QED
    BY <2>1, <2>2, <2>3
<1>2. ASSUME NEW t \in TunnelIds PROVE ~(Cardinality(OnTunnel(t)') > Cardinality(OnTunnel(t)))
  <2>1. IsFiniteSet(OnTunnel(t)) /\ Cardinality(OnTunnel(t)) \in Nat
    BY ActiveFinite
  <2>2. PICK S : S = OnTunnel(t)'
    OBVIOUS
  <2>3. S \subseteq OnTunnel(t)
    BY <2>2 DEF OnTunnel
  <2>4. Cardinality(S) <= Cardinality(OnTunnel(t)) /\ Cardinality(S) \in Nat
    BY <2>1, <2>3, FS_Subset, FS_CardinalityType
  <2> QED
    BY <2>1, <2>2, <2>4
<1> QED
  BY <1>1, <1>2 DEF NewExcess

\* A port that was chosen in vain belongs to the request that ends.
LEMMA ChoiceIsOwn ==
    ASSUME AdmInv, NEW g \in Handlers, NEW r \in AskRows,
           \/ ask' = [ask EXCEPT ![g] = r]
           \/ Wrote(g),
           BadChoice
    PROVE  /\ ask[g].pc \in {"insert", "insertTunnel"} /\ ask[g].auto /\ ask'[g].pc = "idle"
           /\ \/ ruleRow' = ruleRow /\ tunnelRow' = tunnelRow
              \/ \E x \in ActiveRules' : ruleRow'[x].port = ask[g].port /\ ask[g].port \in InterPorts'
<1>1. PICK h \in Handlers :
        /\ ask[h].pc \in {"insert", "insertTunnel"} /\ ask[h].auto /\ ask'[h].pc = "idle"
        /\ \/ ruleRow' = ruleRow /\ tunnelRow' = tunnelRow
           \/ \E x \in ActiveRules' : ruleRow'[x].port = ask[h].port /\ ask[h].port \in InterPorts'
  BY DEF BadChoice
<1>2. \A k \in Handlers : k # g => ask'[k].pc = ask[k].pc
  BY DEF AdmInv, Wrote, AskRows
<1>3. h = g
  BY <1>1, <1>2
<1> QED
  BY <1>1, <1>3

LEMMA ReadsBreakNothing == ASSUME Reads PROVE ~NewClash /\ ~NewExcess /\ ~NewStranded
<1>1. ~NewClash
  <2>1. 0 \notin ActiveRules'
    BY AdmNumbers DEF Reads, ActiveRules, RuleIds
  <2>2. \A r \in ActiveRules' : r \in ActiveRules /\ ruleRow'[r] = ruleRow[r]
    BY DEF Reads, ActiveRules
  <2> QED
    BY <2>1, <2>2, NoClash
<1>2. ~NewExcess
  BY NoExcess DEF Reads, ActiveRules
<1>3. ~NewStranded
  BY DEF Reads, NewStranded, Stranded, StrandedTunnels, ActiveRules, ActiveTunnels
<1> QED
  BY <1>1, <1>2, <1>3

\* A request that ends with a write breaks nothing unless it was overtaken.
LEMMA InsertBreaks ==
    ASSUME AdmInv, NEW g \in Handlers, RuleInsert(g), ~BindingTaken(ask[g].port, ask[g].proto, 0), ~ask[g].raced
    PROVE  ~NewClash /\ ~NewExcess /\ ~NewStranded /\ ~BadChoice
<1> DEFINE a == ask[g]
<1>1. /\ a \in AskRows /\ Shape(a) /\ StillHolds(a) /\ a.pc = "insert" /\ ~a.raced
      /\ a.op \in {"create", "import"} /\ a.id = 0
  BY DEF AdmInv, RuleInsert, At, Shape
<1>2. PICK n \in RuleIds :
        /\ n \notin ActiveRules /\ ActiveRules' = ActiveRules \cup {n}
        /\ \A r \in ActiveRules : r # n /\ ruleRow'[r] = ruleRow[r]
        /\ ruleRow'[n].port = a.port /\ ruleRow'[n].proto = a.proto /\ ruleRow'[n].tun = a.tun
        /\ Wrote(g) /\ UNCHANGED <<tunnelRow, nodeHere>>
  BY InsertWrites
<1>3. ask'[g].pc = "idle"
  BY <1>2, AdmNumbers DEF Wrote
<1> HIDE DEF a
<1>4. ~NewClash
  <2>1. NoProtocolConflict(a.port, a.proto, 0)
    BY <1>1 DEF StillHolds
  <2>2. \A r \in ActiveRules : r # 0
    BY AdmNumbers DEF ActiveRules, RuleIds
  <2>3. \A r \in ActiveRules' : r # n /\ ruleRow'[r].port = ruleRow'[n].port => ~Clash(ruleRow'[n].proto, ruleRow'[r].proto)
    BY <1>2, <2>1, <2>2 DEF NoProtocolConflict
  <2> QED
    BY <1>2, <2>3, NoClash
<1>5. ~NewExcess
  <2>1. CASE a.op = "import"
    BY <1>3, <2>1 DEF NewExcess, a
  <2>2. CASE a.op = "create"
    <3>1. Cardinality(ActiveRules') = Cardinality(ActiveRules) + 1
      BY <1>2, ActiveFinite, FS_AddElement
    <3>2. Cardinality(ActiveRules) < UserQuota /\ Cardinality(ActiveRules) \in Nat /\ UserQuota \in Nat
      BY <1>1, <2>2, ActiveFinite, AdmNumbers DEF StillHolds
    <3>3. ASSUME NEW t \in TunnelIds
          PROVE  ~(Cardinality(OnTunnel(t)') > Cardinality(OnTunnel(t)) /\ Cardinality(OnTunnel(t)') > TunnelQuota)
      <4>0. t # 0 /\ IsFiniteSet(OnTunnel(t)) /\ Cardinality(OnTunnel(t)) \in Nat /\ TunnelQuota \in Nat
        BY ActiveFinite, AdmNumbers DEF TunnelIds
      <4>1. CASE t = a.tun
        <5>1. OnTunnel(t)' = OnTunnel(t) \cup {n} /\ n \notin OnTunnel(t)
          BY <1>2, <4>1 DEF OnTunnel
        <5>2. Cardinality(OnTunnel(t)') = Cardinality(OnTunnel(t)) + 1
          BY <4>0, <5>1, FS_AddElement
        <5>3. Cardinality(OnTunnel(t)) < TunnelQuota
          BY <1>1, <2>2, <4>0, <4>1 DEF StillHolds
        <5> QED
          BY <4>0, <5>2, <5>3
      <4>2. CASE t # a.tun
        <5>1. OnTunnel(t)' = OnTunnel(t)
          BY <1>2, <4>2 DEF OnTunnel
        <5> QED
          BY <4>0, <5>1
      <4> QED
        BY <4>1, <4>2
    <3> QED
      BY <3>1, <3>2, <3>3 DEF NewExcess
  <2> QED
    BY <1>1, <2>1, <2>2
<1>6. ActiveTunnels' = ActiveTunnels /\ InterPorts' = InterPorts
  BY <1>2 DEF ActiveTunnels, InterPorts
<1>7. ~NewStranded
  <2>1. nodeHere /\ (a.tun = 0 \/ a.tun \in ActiveTunnels)
    BY <1>1 DEF StillHolds, Shape
  <2>2. Stranded' \subseteq Stranded
    BY <1>2, <1>6, <2>1 DEF Stranded
  <2>3. StrandedTunnels' \subseteq StrandedTunnels
    BY <1>2, <1>6 DEF StrandedTunnels
  <2> QED
    BY <2>2, <2>3 DEF NewStranded
<1>8. ~BadChoice
  <2>1. ASSUME BadChoice PROVE FALSE
    <3>1. /\ a.auto
          /\ \/ ruleRow' = ruleRow /\ tunnelRow' = tunnelRow
             \/ \E x \in ActiveRules' : ruleRow'[x].port = a.port /\ a.port \in InterPorts'
      BY <1>1, <1>2, <2>1, ChoiceIsOwn DEF a
    <3>2. ruleRow' # ruleRow
      BY <1>2 DEF ActiveRules
    <3>3. a.port \notin InterPorts
      BY <1>1, <3>1 DEF StillHolds, FreePort
    <3> QED
      BY <1>6, <3>1, <3>2, <3>3
  <2> QED
    BY <2>1
<1> QED
  BY <1>4, <1>5, <1>7, <1>8

LEMMA MoveBreaks ==
    ASSUME AdmInv, NEW g \in Handlers, RuleMove(g), ~Refused(g), ~ask[g].raced
    PROVE  ~NewClash /\ ~NewExcess /\ ~NewStranded /\ ~BadChoice
<1> DEFINE a == ask[g]
           n == ask[g].id
<1>1. a \in AskRows /\ StillHolds(a) /\ a.pc = "move" /\ a.op = "update" /\ ~a.raced
  BY DEF AdmInv, RuleMove, At, Shape
<1>2. /\ n \in ActiveRules /\ ActiveRules' = ActiveRules
      /\ \A r \in ActiveRules : ruleRow'[r].proto = ruleRow[r].proto /\ ruleRow'[r].tun = ruleRow[r].tun
      /\ \A r \in ActiveRules : r # n => ruleRow'[r] = ruleRow[r]
      /\ ruleRow'[n].port = a.port
      /\ Wrote(g) /\ UNCHANGED <<tunnelRow, nodeHere>>
  BY MoveWrites
<1>3. NoProtocolConflict(a.port, a.proto, n) /\ ruleRow[n].proto = a.proto
  BY <1>1 DEF StillHolds
<1> HIDE DEF a, n
<1>4. ~NewClash
  <2>1. \A r \in ActiveRules' : r # n /\ ruleRow'[r].port = ruleRow'[n].port => ~Clash(ruleRow'[n].proto, ruleRow'[r].proto)
    BY <1>2, <1>3 DEF NoProtocolConflict
  <2> QED
    BY <1>2, <2>1, NoClash
<1>5. ~NewExcess
  BY <1>2, NoExcess
<1>6. ~NewStranded
  BY <1>2 DEF NewStranded, Stranded, StrandedTunnels, ActiveTunnels
<1>7. ~BadChoice
  BY <1>1, <1>2, ChoiceIsOwn DEF a
<1> QED
  BY <1>4, <1>5, <1>6, <1>7

LEMMA DeleteBreaks ==
    ASSUME AdmInv, NEW g \in Handlers, NEW n \in RuleIds, RuleDelete(g, n)
    PROVE  ~NewClash /\ ~NewExcess /\ ~NewStranded /\ ~BadChoice
<1>1. /\ ActiveRules' = ActiveRules \ {n} /\ \A r \in ActiveRules' : ruleRow'[r] = ruleRow[r]
      /\ Wrote(g) /\ UNCHANGED <<tunnelRow, nodeHere>>
  BY DeleteWrites
<1>2. ~NewClash
  BY <1>1, NoClash
<1>3. ~NewExcess
  BY <1>1, NoExcess
<1>4. ~NewStranded
  BY <1>1 DEF NewStranded, Stranded, StrandedTunnels, ActiveTunnels
<1>5. ask[g].pc = "idle" /\ ask[g] \in AskRows
  BY DEF RuleDelete, Begins, At, AdmInv
<1>6. ~BadChoice
  BY <1>1, <1>5, ChoiceIsOwn
<1> QED
  BY <1>2, <1>3, <1>4, <1>6

\* A step that leaves the rules alone.
LEMMA RulesStay == ASSUME ruleRow' = ruleRow PROVE ActiveRules' = ActiveRules /\ ~NewClash /\ ~NewExcess
<1>1. ActiveRules' = ActiveRules
  BY DEF ActiveRules
<1>2. ~NewClash
  <2>1. 0 \notin ActiveRules'
    BY AdmNumbers DEF ActiveRules, RuleIds
  <2>2. \A r \in ActiveRules' : r \in ActiveRules /\ ruleRow'[r] = ruleRow[r]
    BY DEF ActiveRules
  <2> QED
    BY <2>1, <2>2, NoClash
<1>3. ~NewExcess
  BY <1>1, NoExcess
<1> QED
  BY <1>1, <1>2, <1>3

LEMMA TunnelInsertBreaks ==
    ASSUME AdmInv, NEW g \in Handlers, TunnelInsert(g), ask[g].port \notin HeldPorts, ~ask[g].raced
    PROVE  ~NewClash /\ ~NewExcess /\ ~NewStranded /\ ~BadChoice
<1> DEFINE a == ask[g]
<1>1. a \in AskRows /\ StillHolds(a) /\ a.pc = "insertTunnel" /\ ~a.raced
  BY DEF AdmInv, TunnelInsert, At
<1>2. PICK n \in TunnelIds :
        /\ n \notin ActiveTunnels /\ ActiveTunnels' = ActiveTunnels \cup {n}
        /\ Wrote(g) /\ UNCHANGED <<ruleRow, nodeHere>>
  BY TunnelInsertWrites
<1> HIDE DEF a
<1>3. ActiveRules' = ActiveRules /\ ~NewClash /\ ~NewExcess
  BY <1>2, RulesStay
<1>4. ~NewStranded
  <2>1. nodeHere
    BY <1>1 DEF StillHolds
  <2> QED
    BY <1>2, <1>3, <2>1 DEF NewStranded, Stranded, StrandedTunnels
<1>5. ~BadChoice
  <2>1. ASSUME BadChoice PROVE FALSE
    <3>1. /\ a.auto
          /\ \/ ruleRow' = ruleRow /\ tunnelRow' = tunnelRow
             \/ \E x \in ActiveRules' : ruleRow'[x].port = a.port /\ a.port \in InterPorts'
      BY <1>1, <1>2, <2>1, ChoiceIsOwn DEF a
    <3>2. tunnelRow' # tunnelRow
      BY <1>2 DEF ActiveTunnels
    <3>3. \A r \in ActiveRules : ruleRow[r].port # a.port
      BY <1>1, <3>1 DEF StillHolds
    <3> QED
      BY <1>2, <1>3, <3>1, <3>2, <3>3
  <2> QED
    BY <2>1
<1> QED
  BY <1>3, <1>4, <1>5

LEMMA TunnelDropBreaks ==
    ASSUME AdmInv, NEW g \in Handlers, TunnelDrop(g), ~Refused(g), ~ask[g].raced
    PROVE  ~NewClash /\ ~NewExcess /\ ~NewStranded /\ ~BadChoice
<1> DEFINE a == ask[g]
<1>1. a \in AskRows /\ StillHolds(a) /\ a.pc = "dropTunnel" /\ ~a.raced
  BY DEF AdmInv, TunnelDrop, At
<1>2. ActiveTunnels' = ActiveTunnels \ {a.id} /\ Wrote(g) /\ UNCHANGED <<ruleRow, nodeHere>>
  BY TunnelDropWrites
<1>3. OnTunnel(a.id) = {}
  BY <1>1 DEF StillHolds
<1> HIDE DEF a
<1>4. ActiveRules' = ActiveRules /\ ~NewClash /\ ~NewExcess
  BY <1>2, RulesStay
<1>5. ~NewStranded
  BY <1>2, <1>3, <1>4 DEF NewStranded, Stranded, StrandedTunnels, OnTunnel
<1>6. ~BadChoice
  BY <1>1, <1>2, ChoiceIsOwn DEF a
<1> QED
  BY <1>4, <1>5, <1>6

LEMMA NodeDropBreaks ==
    ASSUME AdmInv, NEW g \in Handlers, NodeDrop(g), ~Refused(g), ~ask[g].raced
    PROVE  ~NewClash /\ ~NewExcess /\ ~NewStranded /\ ~BadChoice
<1> DEFINE a == ask[g]
<1>1. a \in AskRows /\ StillHolds(a) /\ a.pc = "dropNode" /\ ~a.raced
  BY DEF AdmInv, NodeDrop, At
<1>2. Wrote(g) /\ UNCHANGED <<ruleRow, tunnelRow>>
  BY DEF NodeDrop
<1>3. ActiveRules = {} /\ ActiveTunnels = {} /\ ActiveTunnels' = ActiveTunnels
  BY <1>1, <1>2 DEF StillHolds, ActiveTunnels
<1> HIDE DEF a
<1>4. ActiveRules' = ActiveRules /\ ~NewClash /\ ~NewExcess
  BY <1>2, RulesStay
<1>5. ~NewStranded
  BY <1>3, <1>4 DEF NewStranded, Stranded, StrandedTunnels
<1>6. ~BadChoice
  BY <1>1, <1>2, ChoiceIsOwn DEF a
<1> QED
  BY <1>4, <1>5, <1>6

\* A refused request chose no port in vain unless it was overtaken.
LEMMA RefusedBreaks ==
    ASSUME AdmInv, NEW g \in Handlers, Refused(g), ~ask[g].raced,
           \/ RuleInsert(g) /\ BindingTaken(ask[g].port, ask[g].proto, 0)
           \/ TunnelInsert(g) /\ ask[g].port \in HeldPorts
           \/ ask[g].pc \notin {"insert", "insertTunnel"}
    PROVE  ~BadChoice
<1> DEFINE a == ask[g]
<1>1. a \in AskRows /\ StillHolds(a) /\ ~a.raced /\ ask' = [ask EXCEPT ![g] = NoAsk]
      /\ \A t \in TunnelIds : tunnelRow[t].rows <=> t \in ActiveTunnels
  BY DEF AdmInv, TableTypes, Refused
<1>2. BadChoice => a.auto /\ a.pc \in {"insert", "insertTunnel"}
  BY <1>1, AdmNumbers, ChoiceIsOwn DEF a
<1>3. CASE RuleInsert(g) /\ BindingTaken(a.port, a.proto, 0)
  <2>1. a.pc = "insert"
    BY <1>3 DEF RuleInsert, At
  <2>2. a.auto => FreePort(a.port, a.proto)
    BY <1>1, <2>1 DEF StillHolds
  <2> QED
    BY <1>2, <1>3, <2>2 DEF BindingTaken, FreePort
<1>4. CASE TunnelInsert(g) /\ a.port \in HeldPorts
  <2>1. a.pc = "insertTunnel"
    BY <1>4 DEF TunnelInsert, At
  <2>2. a.auto => a.port \notin InterPorts
    BY <1>1, <2>1 DEF StillHolds
  <2>3. a.port \in InterPorts
    BY <1>1, <1>4 DEF HeldPorts, InterPorts, ActiveTunnels
  <2> QED
    BY <1>2, <2>2, <2>3
<1> QED
  BY <1>2, <1>3, <1>4

LEMMA OnlyRacedBreak ==
    ASSUME AdmInv, AdmissionNext
    PROVE  NewClash \/ NewExcess \/ NewStranded \/ BadChoice => RacedEnds
<1>1. ASSUME NEW g \in Handlers, Wrote(g) \/ Refused(g), ask[g].raced PROVE RacedEnds
  <2>1. ask'[g].pc = "idle"
    BY <1>1, AdmNumbers DEF Wrote, Refused, AdmInv
  <2> QED
    BY <1>1, <2>1 DEF RacedEnds
<1>2. ASSUME NEW g \in Handlers, Refused(g) PROVE Reads
  BY <1>2 DEF Refused, Reads
<1>3. ASSUME NEW g \in Handlers, NEW r \in AskRows, ask' = [ask EXCEPT ![g] = r],
             ask[g].pc \notin {"insert", "insertTunnel"}
      PROVE  ~BadChoice
  BY <1>3, ChoiceIsOwn
<1>4. ASSUME NEW g \in Handlers, Arrives(g) PROVE ~NewClash /\ ~NewExcess /\ ~NewStranded /\ ~BadChoice
  <2>1. CASE \E n \in RuleIds : RuleDelete(g, n)
    BY <2>1, DeleteBreaks
  <2>2. CASE ~\E n \in RuleIds : RuleDelete(g, n)
    <3>1. /\ Reads /\ ask[g].pc = "idle" /\ \A k \in Handlers : k # g => ask'[k] = ask[k]
      BY <1>4, <2>2 DEF Arrives, CreateAsked, ImportAsked, UpdateAsked, TunnelAsked, TunnelDropAsked,
                        NodeDropAsked, Begins, At, AdmInv
    <3>2. ~BadChoice
      BY <3>1 DEF BadChoice
    <3> QED
      BY <3>1, <3>2, ReadsBreakNothing
  <2> QED
    BY <2>1, <2>2
<1>5. ASSUME NEW g \in Handlers, ReadStep(g) PROVE ~NewClash /\ ~NewExcess /\ ~NewStranded /\ ~BadChoice
  <2>1. /\ Reads /\ ask[g].pc \notin {"insert", "insertTunnel"} /\ \A k \in Handlers : k # g => ask'[k] = ask[k]
    BY <1>5 DEF ReadStep, RuleNode, RuleHops, RuleQuota, RuleTunnelQuota, AllocateRules, AllocateInterPorts,
                ImportExact, RuleConflict, TunnelNode, TunnelPort, TunnelRefs, NodeRules, NodeTunnels,
                Check, At, Go, Refused, Reads, AdmInv
  <2>2. ~BadChoice
    BY <2>1 DEF BadChoice
  <2> QED
    BY <2>1, <2>2, ReadsBreakNothing
<1>6. ASSUME NEW g \in Handlers, Proceeds(g), NewClash \/ NewExcess \/ NewStranded \/ BadChoice PROVE RacedEnds
  <2>1. CASE ReadStep(g)
    BY <1>5, <1>6, <2>1
  <2>2. CASE RuleInsert(g)
    <3>1. CASE BindingTaken(ask[g].port, ask[g].proto, 0)
      <4>1. Refused(g)
        BY <2>2, <3>1 DEF RuleInsert
      <4> QED
        BY <1>1, <1>2, <1>6, <2>2, <3>1, <4>1, ReadsBreakNothing, RefusedBreaks
    <3>2. CASE ~BindingTaken(ask[g].port, ask[g].proto, 0)
      <4>1. Wrote(g)
        BY <2>2, <3>2 DEF RuleInsert
      <4> QED
        BY <1>1, <1>6, <2>2, <3>2, <4>1, InsertBreaks
    <3> QED
      BY <3>1, <3>2
  <2>3. CASE TunnelInsert(g)
    <3>1. CASE ask[g].port \in HeldPorts
      <4>1. Refused(g)
        BY <2>3, <3>1 DEF TunnelInsert, HeldPorts
      <4> QED
        BY <1>1, <1>2, <1>6, <2>3, <3>1, <4>1, ReadsBreakNothing, RefusedBreaks
    <3>2. CASE ask[g].port \notin HeldPorts
      <4>1. Wrote(g)
        BY <2>3, <3>2 DEF TunnelInsert, HeldPorts
      <4> QED
        BY <1>1, <1>6, <2>3, <3>2, <4>1, TunnelInsertBreaks
    <3> QED
      BY <3>1, <3>2
  <2>4. CASE RuleMove(g) \/ TunnelDrop(g) \/ NodeDrop(g)
    <3>1. CASE Refused(g)
      <4>1. ask[g].pc \notin {"insert", "insertTunnel"}
        BY <2>4 DEF RuleMove, TunnelDrop, NodeDrop, At
      <4> QED
        BY <1>1, <1>2, <1>6, <3>1, <4>1, ReadsBreakNothing, RefusedBreaks
    <3>2. CASE ~Refused(g)
      <4>1. Wrote(g)
        BY <2>4, <3>2 DEF RuleMove, TunnelDrop, NodeDrop
      <4> QED
        BY <1>1, <1>6, <2>4, <3>2, <4>1, MoveBreaks, TunnelDropBreaks, NodeDropBreaks
    <3> QED
      BY <3>1, <3>2
  <2> QED
    BY <1>6, <2>1, <2>2, <2>3, <2>4 DEF Proceeds, ReadStep
<1> QED
  BY <1>4, <1>6 DEF AdmissionNext

\* For any tables, ports, quotas and requests: what the checks are for is broken only
\* by a request during which another one wrote.
THEOREM ChecksBreakOnlyByRace == AdmissionSpec => BrokenOnlyByRace
<1>1. AdmInv /\ [AdmissionNext]_admVars =>
          [NewClash \/ NewExcess \/ NewStranded \/ BadChoice => RacedEnds]_admVars
  BY OnlyRacedBreak
<1> QED
  BY <1>1, AdmissionInvariant, PTL DEF AdmissionSpec, BrokenOnlyByRace

-----------------------------------------------------------------------------
(* TunnelCreds: certificates, their age and the files they are kept in. *)

\* A command of one of these kinds is in s.
Has(s, kinds) == \E i \in 1..Len(s) : s[i] \in kinds

\* The last command of these kinds in s is x.
LastIs(s, kinds, x) ==
    \E k \in 1..Len(s) : s[k] = x /\ \A j \in (k + 1)..Len(s) : s[j] \notin kinds

RuleCmds == {"apply", "remove"}
Starts == {"apply", "restart"}
FileCmds == {"creds", "revoke"}
AgentCmds == {"creds", "apply", "restart", "remove", "revoke"}

\* The last start in s loads certificates that s brings, or that are good on disk;
\* without a start, what runs is good now.
FreshIn(s, good, now) ==
    \/ ~Has(s, Starts) /\ now
    \/ \E k \in 1..Len(s) :
          /\ s[k] \in Starts /\ \A j \in (k + 1)..Len(s) : s[j] \notin Starts
          /\ good \/ \E j \in 1..(k - 1) : s[j] = "creds"

JobRows == [pc : {"idle", "read", "creds", "stamp", "restart", "revoke"},
            op : {"create", "rotate", "delete"}, hops : SUBSET Hops]
HopRows == [conn : BOOLEAN, disk : Ages \cup {NoCert, Torn}, run : Ages \cup {NoCert},
            saved : BOOLEAN, retry : [kind : {"none", "apply", "restart"}, left : 0..MaxRetries]]

PanelTypes ==
    /\ tunnel \in {"none", "active", "deleted"} /\ stamp \in Ages
    /\ ruleOn \in BOOLEAN /\ swept \in BOOLEAN /\ (ruleOn => tunnel = "active")
    /\ job \in [Callers -> JobRows]

HopTypes ==
    /\ hop \in [Hops -> HopRows] /\ mishap \in [Hops -> SUBSET {"wrong", "kept"}]
    /\ channel \in [Hops -> Seq(AgentCmds)] /\ replay \in [Hops -> Seq(AgentCmds)]

\* What a job at work says of the tunnel.
JobFitsTunnel(c) ==
    /\ job[c].pc # "idle" => tunnel # "none"
    /\ job[c].pc # "idle" /\ job[c].op = "create" =>
          c = "api" /\ job[c].pc \in {"read", "creds", "stamp"} /\ tunnel = "active" /\ stamp = 0
    /\ job[c].pc = "restart" => stamp = 0 /\ job[c].op = "rotate"
    /\ job[c].pc = "revoke" <=> job[c].pc # "idle" /\ job[c].op = "delete"
    /\ job[c].pc = "revoke" => c = "api" /\ tunnel = "deleted" /\ job[c].hops = Hops
    /\ job[c].pc = "creds" /\ tunnel = "active" => job[c].hops = Hops

\* The sweeper keeps up with the age of the certificates.
StampFits ==
    tunnel = "active" => stamp <= RotateAfter /\ (swept => stamp < RotateAfter)

PanelInv == PanelTypes /\ (\A c \in Callers : JobFitsTunnel(c)) /\ StampFits

\* What may be on its way to h.
OnTheWay(h) ==
    /\ ~hop[h].conn => channel[h] = <<>> /\ replay[h] = <<>>
    /\ ruleOn => replay[h] \in {<<>>, <<"apply">>, <<"creds", "apply">>}
    /\ ~ruleOn => replay[h] \in {<<>>, <<"remove">>, <<"creds", "remove">>}
    /\ tunnel # "deleted" => ~Has(channel[h], {"revoke"})
    /\ tunnel = "none" => /\ ~Has(channel[h], {"creds", "apply", "restart"})
                          /\ replay[h] \in {<<>>, <<"remove">>}
                          /\ hop[h].disk = NoCert /\ hop[h].run = NoCert
    /\ hop[h].retry.kind # "none" => hop[h].run = NoCert /\ hop[h].conn

Sound(h) == hop[h].conn /\ "wrong" \notin mishap[h] /\ tunnel = "active"

\* The certificates of a new tunnel are still to be pushed.
Creating == job["api"].op = "create" /\ job["api"].pc \in {"read", "creds"}

BringsCreds(h) == Has(channel[h], {"creds"}) \/ replay[h] \in {<<"creds", "apply">>, <<"creds", "remove">>}

\* The files of h are as new as the time noted, or will be.
FilesFit(h) ==
    Sound(h) =>
      /\ \/ BringsCreds(h) \/ hop[h].disk <= stamp
         \/ Creating /\ hop[h].disk \notin Ages
      /\ \A c \in Callers : job[c].pc = "stamp" => BringsCreds(h) \/ hop[h].disk = 0
      /\ hop[h].disk \notin Ages /\ hop[h].run # NoCert =>
            replay[h] # <<>> \/ Has(channel[h], RuleCmds)

\* h runs the rule of the table, or will start it.
WillRun(h) ==
    Sound(h) /\ ruleOn /\ replay[h] = <<>> =>
      \/ LastIs(channel[h], RuleCmds, "apply")
      \/ ~Has(channel[h], RuleCmds) /\ (hop[h].run # NoCert \/ hop[h].retry.kind = "apply")

\* What it runs is as new as the time noted, once all that is on its way has come.
GoodDisk(h) == hop[h].disk <= stamp \/ hop[h].disk \notin Ages
GoodRun(h) == hop[h].run <= stamp \/ hop[h].run = NoCert
RunsFresh(h) ==
    Sound(h) /\ ruleOn /\ (\A c \in Callers : job[c].pc # "restart") =>
      /\ replay[h] = <<>> => FreshIn(channel[h], GoodDisk(h), GoodRun(h))
      /\ replay[h] = <<"apply">> => GoodDisk(h) \/ Has(channel[h], {"creds"})

\* The files of a deleted tunnel go, and nothing brings them back.
KeysGo(h) ==
    tunnel = "deleted" /\ "kept" \notin mishap[h] =>
      \/ job["api"].pc = "revoke"
      \/ /\ replay[h] \notin {<<"creds", "apply">>, <<"creds", "remove">>}
         /\ \A k \in Callers : job[k].pc = "creds" => h \notin job[k].hops
         /\ \/ LastIs(channel[h], FileCmds, "revoke")
            \/ ~Has(channel[h], FileCmds) /\ hop[h].disk = NoCert

HopInv(h) == OnTheWay(h) /\ FilesFit(h) /\ WillRun(h) /\ RunsFresh(h) /\ KeysGo(h)

CredInv == PanelInv /\ HopTypes /\ \A h \in Hops : HopInv(h)

LEMMA EmptyCmds ==
    ASSUME NEW K, NEW x, NEW good, NEW now
    PROVE  ~Has(<<>>, K) /\ ~LastIs(<<>>, K, x) /\ (FreshIn(<<>>, good, now) <=> now)
BY DEF Has, LastIs, FreshIn

LEMMA AppendedHas ==
    ASSUME NEW s \in Seq(AgentCmds), NEW c \in AgentCmds, NEW K
    PROVE  Has(Append(s, c), K) <=> Has(s, K) \/ c \in K
<1> DEFINE t == Append(s, c)
<1>1. /\ t \in Seq(AgentCmds) /\ Len(s) \in Nat /\ Len(t) = Len(s) + 1 /\ t[Len(s) + 1] = c
      /\ \A i \in 1..Len(s) : t[i] = s[i]
  OBVIOUS
<1> HIDE DEF t
<1> QED
  BY <1>1 DEF Has, t

LEMMA AppendedLast ==
    ASSUME NEW s \in Seq(AgentCmds), NEW c \in AgentCmds, NEW K, NEW x \in K
    PROVE  LastIs(Append(s, c), K, x) <=> IF c \in K THEN c = x ELSE LastIs(s, K, x)
<1> DEFINE t == Append(s, c)
<1>1. /\ t \in Seq(AgentCmds) /\ Len(s) \in Nat /\ Len(t) = Len(s) + 1 /\ t[Len(s) + 1] = c
      /\ \A i \in 1..Len(s) : t[i] = s[i]
  OBVIOUS
<1> HIDE DEF t
<1>2. c \in K => (LastIs(t, K, x) <=> c = x)
  BY <1>1 DEF LastIs
<1>3. c \notin K => (LastIs(t, K, x) <=> LastIs(s, K, x))
  <2> SUFFICES ASSUME c \notin K PROVE LastIs(t, K, x) <=> LastIs(s, K, x)
    OBVIOUS
  <2>1. LastIs(s, K, x) => LastIs(t, K, x)
    BY <1>1 DEF LastIs
  <2>2. LastIs(t, K, x) => LastIs(s, K, x)
    BY <1>1 DEF LastIs
  <2> QED
    BY <2>1, <2>2
<1> QED
  BY <1>2, <1>3 DEF t

LEMMA AppendedFresh ==
    ASSUME NEW s \in Seq(AgentCmds), NEW c \in AgentCmds, NEW good, NEW now
    PROVE  /\ c \in Starts => (FreshIn(Append(s, c), good, now) <=> good \/ Has(s, {"creds"}))
           /\ c \notin Starts => (FreshIn(Append(s, c), good, now) <=> FreshIn(s, good, now))
<1> DEFINE t == Append(s, c)
<1>1. /\ t \in Seq(AgentCmds) /\ Len(s) \in Nat /\ Len(t) = Len(s) + 1 /\ t[Len(s) + 1] = c
      /\ \A i \in 1..Len(s) : t[i] = s[i]
  OBVIOUS
<1> HIDE DEF t
<1>2. c \in Starts => (FreshIn(t, good, now) <=> good \/ Has(s, {"creds"}))
  <2> SUFFICES ASSUME c \in Starts PROVE FreshIn(t, good, now) <=> good \/ Has(s, {"creds"})
    OBVIOUS
  <2>1. Has(t, Starts)
    BY <1>1 DEF Has
  <2>2. ASSUME good \/ Has(s, {"creds"}) PROVE FreshIn(t, good, now)
    <3>1. good \/ \E j \in 1..((Len(s) + 1) - 1) : t[j] = "creds"
      BY <1>1, <2>2 DEF Has
    <3> QED
      BY <1>1, <3>1 DEF FreshIn
  <2>3. ASSUME FreshIn(t, good, now) PROVE good \/ Has(s, {"creds"})
    <3>1. PICK k \in 1..Len(t) :
             /\ t[k] \in Starts /\ \A j \in (k + 1)..Len(t) : t[j] \notin Starts
             /\ good \/ \E j \in 1..(k - 1) : t[j] = "creds"
      BY <2>1, <2>3 DEF FreshIn
    <3>2. k = Len(s) + 1
      BY <1>1, <3>1
    <3> QED
      BY <1>1, <3>1, <3>2 DEF Has
  <2> QED
    BY <2>2, <2>3
<1>3. c \notin Starts => (FreshIn(t, good, now) <=> FreshIn(s, good, now))
  <2> SUFFICES ASSUME c \notin Starts PROVE FreshIn(t, good, now) <=> FreshIn(s, good, now)
    OBVIOUS
  <2>1. Has(t, Starts) <=> Has(s, Starts)
    BY <1>1 DEF Has
  <2>2. ASSUME FreshIn(s, good, now) PROVE FreshIn(t, good, now)
    <3>1. CASE ~Has(s, Starts)
      BY <2>1, <2>2, <3>1 DEF FreshIn, Has
    <3>2. CASE Has(s, Starts)
      <4>1. PICK k \in 1..Len(s) :
               /\ s[k] \in Starts /\ \A j \in (k + 1)..Len(s) : s[j] \notin Starts
               /\ good \/ \E j \in 1..(k - 1) : s[j] = "creds"
        BY <2>2, <3>2 DEF FreshIn
      <4>2. k \in 1..Len(t) /\ t[k] \in Starts /\ \A j \in (k + 1)..Len(t) : t[j] \notin Starts
        BY <1>1, <4>1
      <4>3. good \/ \E j \in 1..(k - 1) : t[j] = "creds"
        BY <1>1, <4>1
      <4> QED
        BY <4>2, <4>3 DEF FreshIn
    <3> QED
      BY <3>1, <3>2
  <2>3. ASSUME FreshIn(t, good, now) PROVE FreshIn(s, good, now)
    <3>1. CASE ~Has(t, Starts)
      BY <2>1, <2>3, <3>1 DEF FreshIn, Has
    <3>2. CASE Has(t, Starts)
      <4>1. PICK k \in 1..Len(t) :
               /\ t[k] \in Starts /\ \A j \in (k + 1)..Len(t) : t[j] \notin Starts
               /\ good \/ \E j \in 1..(k - 1) : t[j] = "creds"
        BY <2>3, <3>2 DEF FreshIn
      <4>2. k \in 1..Len(s) /\ s[k] \in Starts /\ \A j \in (k + 1)..Len(s) : s[j] \notin Starts
        BY <1>1, <4>1
      <4>3. good \/ \E j \in 1..(k - 1) : s[j] = "creds"
        BY <1>1, <4>1, <4>2
      <4> QED
        BY <4>2, <4>3 DEF FreshIn
    <3> QED
      BY <3>1, <3>2
  <2> QED
    BY <2>2, <2>3
<1> QED
  BY <1>2, <1>3 DEF t

LEMMA FirstHas ==
    ASSUME NEW s \in Seq(AgentCmds), s # <<>>, NEW K
    PROVE  Has(s, K) <=> Head(s) \in K \/ Has(Tail(s), K)
<1> DEFINE t == Tail(s)
           c == Head(s)
<1>1. /\ t \in Seq(AgentCmds) /\ Len(s) \in Nat /\ Len(s) > 0 /\ Len(t) = Len(s) - 1 /\ c = s[1]
      /\ c \in AgentCmds /\ \A i \in 1..Len(t) : t[i] = s[i + 1]
  OBVIOUS
<1>2. \A i \in 2..Len(s) : i - 1 \in 1..Len(t) /\ t[i - 1] = s[i]
  BY <1>1
<1> HIDE DEF t, c
<1>3. Has(t, K) => Has(s, K)
  BY <1>1 DEF Has
<1>4. c \in K => Has(s, K)
  BY <1>1 DEF Has
<1>5. ASSUME Has(s, K) PROVE c \in K \/ Has(t, K)
  <2>1. PICK i \in 1..Len(s) : s[i] \in K
    BY <1>5 DEF Has
  <2>2. CASE i = 1
    BY <1>1, <2>1, <2>2
  <2>3. CASE i # 1
    BY <1>1, <1>2, <2>1, <2>3 DEF Has
  <2> QED
    BY <2>2, <2>3
<1> QED
  BY <1>3, <1>4, <1>5 DEF t, c

LEMMA FirstLast ==
    ASSUME NEW s \in Seq(AgentCmds), s # <<>>, NEW K, NEW x
    PROVE  LastIs(s, K, x) <=> LastIs(Tail(s), K, x) \/ (~Has(Tail(s), K) /\ Head(s) = x)
<1> DEFINE t == Tail(s)
           c == Head(s)
<1>1. /\ t \in Seq(AgentCmds) /\ Len(s) \in Nat /\ Len(s) > 0 /\ Len(t) = Len(s) - 1 /\ c = s[1]
      /\ c \in AgentCmds /\ \A i \in 1..Len(t) : t[i] = s[i + 1]
  OBVIOUS
<1>2. \A i \in 2..Len(s) : i - 1 \in 1..Len(t) /\ t[i - 1] = s[i]
  BY <1>1
<1> HIDE DEF t, c
<1>3. ASSUME LastIs(t, K, x) PROVE LastIs(s, K, x)
  <2>1. PICK k \in 1..Len(t) : t[k] = x /\ \A j \in (k + 1)..Len(t) : t[j] \notin K
    BY <1>3 DEF LastIs
  <2>2. k + 1 \in 1..Len(s) /\ s[k + 1] = x
    BY <1>1, <2>1
  <2>3. ASSUME NEW j \in ((k + 1) + 1)..Len(s) PROVE s[j] \notin K
    <3>1. j \in 2..Len(s) /\ j - 1 \in (k + 1)..Len(t)
      BY <1>1
    <3> QED
      BY <1>2, <2>1, <3>1
  <2> QED
    BY <2>2, <2>3 DEF LastIs
<1>4. ASSUME ~Has(t, K), c = x PROVE LastIs(s, K, x)
  <2>1. s[1] = x /\ \A j \in (1 + 1)..Len(s) : s[j] \notin K
    BY <1>1, <1>2, <1>4 DEF Has
  <2> QED
    BY <1>1, <2>1 DEF LastIs
<1>5. ASSUME LastIs(s, K, x) PROVE LastIs(t, K, x) \/ (~Has(t, K) /\ c = x)
  <2>1. PICK k \in 1..Len(s) : s[k] = x /\ \A j \in (k + 1)..Len(s) : s[j] \notin K
    BY <1>5 DEF LastIs
  <2>2. CASE k = 1
    BY <1>1, <2>1, <2>2 DEF Has
  <2>3. CASE k # 1
    <3>1. k - 1 \in 1..Len(t) /\ t[k - 1] = x
      BY <1>1, <1>2, <2>1, <2>3
    <3>2. ASSUME NEW j \in ((k - 1) + 1)..Len(t) PROVE t[j] \notin K
      <4>1. j \in 1..Len(t) /\ j + 1 \in (k + 1)..Len(s)
        BY <1>1
      <4> QED
        BY <1>1, <2>1, <4>1
    <3> QED
      BY <3>1, <3>2 DEF LastIs
  <2> QED
    BY <2>2, <2>3
<1> QED
  BY <1>3, <1>4, <1>5 DEF t, c

\* What is left to say when the command c at the head has been handled.
FreshLeft(c, t, good, now) ==
    CASE c = "creds" -> FreshIn(t, TRUE, now)
      [] c \in Starts -> \/ ~Has(t, Starts) /\ good
                         \/ Has(t, Starts) /\ \A w \in BOOLEAN : FreshIn(t, good, w)
      [] OTHER -> FreshIn(t, good, now)

LEMMA FirstFresh ==
    ASSUME NEW s \in Seq(AgentCmds), s # <<>>, NEW good, NEW now
    PROVE  FreshIn(s, good, now) => FreshLeft(Head(s), Tail(s), good, now)
<1> DEFINE t == Tail(s)
           c == Head(s)
<1>1. /\ t \in Seq(AgentCmds) /\ Len(s) \in Nat /\ Len(s) > 0 /\ Len(t) = Len(s) - 1 /\ c = s[1]
      /\ c \in AgentCmds /\ \A i \in 1..Len(t) : t[i] = s[i + 1]
  OBVIOUS
<1>2. \A i \in 2..Len(s) : i - 1 \in 1..Len(t) /\ t[i - 1] = s[i]
  BY <1>1
<1> HIDE DEF t, c
<1>3. Has(s, Starts) <=> c \in Starts \/ Has(t, Starts)
  BY FirstHas DEF t, c
<1>4. ASSUME FreshIn(s, good, now), ~Has(s, Starts) PROVE now /\ ~Has(t, Starts) /\ c \notin Starts
  BY <1>3, <1>4 DEF FreshIn, Has
<1>5. ASSUME FreshIn(s, good, now), Has(s, Starts)
      PROVE  IF Has(t, Starts) THEN \A w \in BOOLEAN : FreshIn(t, good \/ c = "creds", w)
             ELSE c \in Starts /\ good
  <2>1. PICK k \in 1..Len(s) :
           /\ s[k] \in Starts /\ \A j \in (k + 1)..Len(s) : s[j] \notin Starts
           /\ good \/ \E j \in 1..(k - 1) : s[j] = "creds"
    BY <1>5 DEF FreshIn
  <2>2. CASE k = 1
    <3>1. ~Has(t, Starts)
      BY <1>1, <2>1, <2>2 DEF Has
    <3> QED
      BY <1>1, <2>1, <2>2, <3>1
  <2>3. CASE k # 1
    <3>1. k - 1 \in 1..Len(t) /\ t[k - 1] \in Starts /\ \A j \in ((k - 1) + 1)..Len(t) : t[j] \notin Starts
      BY <1>1, <1>2, <2>1, <2>3
    <3>2. Has(t, Starts)
      BY <3>1 DEF Has
    <3>3. (good \/ c = "creds") \/ \E j \in 1..((k - 1) - 1) : t[j] = "creds"
      <4>1. CASE good
        BY <4>1
      <4>2. CASE \E j \in 1..(k - 1) : s[j] = "creds"
        <5>1. PICK j \in 1..(k - 1) : s[j] = "creds"
          BY <4>2
        <5>2. CASE j = 1
          BY <1>1, <5>1, <5>2
        <5>3. CASE j # 1
          <6>1. j - 1 \in 1..((k - 1) - 1) /\ t[j - 1] = "creds"
            BY <1>1, <1>2, <5>1, <5>3
          <6> QED
            BY <6>1
        <5> QED
          BY <5>2, <5>3
      <4> QED
        BY <2>1, <4>1, <4>2
    <3>4. \A w \in BOOLEAN : FreshIn(t, good \/ c = "creds", w)
      BY <3>1, <3>3 DEF FreshIn
    <3> QED
      BY <3>2, <3>4
  <2> QED
    BY <2>2, <2>3
<1>6. \A w : ~Has(t, Starts) /\ w => FreshIn(t, good, w) /\ FreshIn(t, TRUE, w)
  BY DEF FreshIn
<1>7. FreshIn(s, good, now) =>
         CASE c = "creds" -> FreshIn(t, TRUE, now)
           [] c \in Starts -> \/ ~Has(t, Starts) /\ good
                              \/ Has(t, Starts) /\ \A w \in BOOLEAN : FreshIn(t, good, w)
           [] OTHER -> FreshIn(t, good, now)
  <2> SUFFICES ASSUME FreshIn(s, good, now)
               PROVE  /\ c = "creds" => FreshIn(t, TRUE, now)
                      /\ c \in Starts => \/ ~Has(t, Starts) /\ good
                                         \/ Has(t, Starts) /\ \A w \in BOOLEAN : FreshIn(t, good, w)
                      /\ c # "creds" /\ c \notin Starts => FreshIn(t, good, now)
    BY DEF Starts
  <2>1. CASE ~Has(s, Starts)
    BY <1>4, <1>6, <2>1
  <2>2. CASE Has(s, Starts) /\ ~Has(t, Starts)
    BY <1>5, <2>2 DEF Starts
  <2>3. CASE Has(s, Starts) /\ Has(t, Starts)
    <3>1. CASE c = "creds"
      <4>1. \A w \in BOOLEAN : FreshIn(t, TRUE, w)
        BY <1>5, <2>3, <3>1
      <4> QED
        BY <2>3, <3>1, <4>1 DEF FreshIn, Starts
    <3>2. CASE c # "creds"
      <4>1. \A w \in BOOLEAN : FreshIn(t, good, w)
        BY <1>5, <2>3, <3>2 DEF FreshIn
      <4> QED
        BY <2>3, <3>2, <4>1 DEF FreshIn
    <3> QED
      BY <3>1, <3>2
  <2> QED
    BY <2>1, <2>2, <2>3
<1> QED
  BY <1>7 DEF t, c, FreshLeft

LEMMA CredNumbers ==
    /\ Ages = 0..Validity /\ NoCert \notin Ages /\ Torn \notin Ages /\ NoCert # Torn
    /\ Validity \in Nat /\ RotateAfter \in Nat /\ RotateAfter >= 1 /\ RotateAfter < Validity
    /\ MaxRetries \in Nat /\ MaxRetries > 0 /\ 0 \in Ages /\ Hops # {}
    /\ NoRetry \in [kind : {"none", "apply", "restart"}, left : 0..MaxRetries] /\ NoRetry.kind = "none"
    /\ NoJob \in JobRows /\ NoJob.pc = "idle"
BY CredsAssumption DEF Ages, NoCert, Torn, NoRetry, NoJob, JobRows

LEMMA CredsInitInv == CredsInit => CredInv
<1> SUFFICES ASSUME CredsInit PROVE CredInv
  OBVIOUS
<1>1. PanelInv
  BY CredNumbers DEF CredsInit, PanelInv, PanelTypes, JobFitsTunnel, StampFits, Callers
<1>2. HopTypes
  <2>1. <<>> \in Seq(AgentCmds) /\ {} \in SUBSET {"wrong", "kept"}
    OBVIOUS
  <2>2. [conn |-> TRUE, disk |-> NoCert, run |-> NoCert, saved |-> FALSE, retry |-> NoRetry] \in HopRows
    BY CredNumbers DEF HopRows
  <2> QED
    BY <2>1, <2>2 DEF CredsInit, HopTypes
<1>3. ASSUME NEW h \in Hops PROVE HopInv(h)
  BY CredNumbers, EmptyCmds DEF CredsInit, HopInv, OnTheWay, FilesFit, WillRun, RunsFresh, KeysGo, Sound
<1> QED
  BY <1>1, <1>2, <1>3 DEF CredInv

\* The panel: jobs, and the time noted.
LEMMA JobTyped ==
    ASSUME PanelInv, NEW c \in Callers
    PROVE  /\ job[c] \in JobRows /\ job[c].hops \subseteq Hops
           /\ \A r \in JobRows : [job EXCEPT ![c] = r] \in [Callers -> JobRows]
           /\ \A pc \in {"idle", "read", "creds", "stamp", "restart", "revoke"} :
                 /\ [NoJob EXCEPT !.pc = pc] \in JobRows
                 /\ [NoJob EXCEPT !.pc = pc, !.op = "create"] \in JobRows
BY CredNumbers DEF PanelInv, PanelTypes, JobRows, NoJob

\* A step of caller c alone, which makes its job r.
LEMMA JobMoves ==
    ASSUME PanelInv, NEW c \in Callers, NEW r \in JobRows, job' = [job EXCEPT ![c] = r],
           tunnel' \in {"none", "active", "deleted"}, stamp' \in Ages,
           ruleOn' \in BOOLEAN, swept' \in BOOLEAN, ruleOn' => tunnel' = "active", StampFits',
           \A k \in Callers : k # c => JobFitsTunnel(k)',
           r.pc # "idle" => tunnel' # "none",
           r.pc # "idle" /\ r.op = "create" =>
              c = "api" /\ r.pc \in {"read", "creds", "stamp"} /\ tunnel' = "active" /\ stamp' = 0,
           r.pc = "restart" => stamp' = 0 /\ r.op = "rotate",
           r.pc = "revoke" <=> r.pc # "idle" /\ r.op = "delete",
           r.pc = "revoke" => c = "api" /\ tunnel' = "deleted" /\ r.hops = Hops,
           r.pc = "creds" /\ tunnel' = "active" => r.hops = Hops
    PROVE  PanelInv'
<1>1. job' \in [Callers -> JobRows] /\ job'[c] = r
  BY JobTyped DEF PanelInv, PanelTypes
<1>2. JobFitsTunnel(c)'
  BY <1>1 DEF JobFitsTunnel
<1> QED
  BY <1>1, <1>2 DEF PanelInv, PanelTypes

LEMMA PanelKeeps == ASSUME CredInv, CredsNext PROVE PanelInv'
<1>0. PanelInv /\ PanelTypes /\ StampFits /\ \A k \in Callers : JobFitsTunnel(k)
  BY DEF CredInv, PanelInv
<1>1. ASSUME NEW c \in Callers, CreateTunnel(c) PROVE PanelInv'
  <2> DEFINE r == [NoJob EXCEPT !.pc = "read", !.op = "create"]
  <2>1. r \in JobRows /\ r.pc = "read" /\ r.op = "create"
    BY <1>0, JobTyped, CredNumbers DEF NoJob
  <2>2. \A k \in Callers : k # c => JobFitsTunnel(k)'
    BY <1>0, <1>1 DEF CreateTunnel, JobFitsTunnel, PanelTypes
  <2>3. job' = [job EXCEPT ![c] = r] /\ c = "api" /\ tunnel' = "active" /\ stamp' = 0
    BY <1>1 DEF CreateTunnel
  <2>4. stamp' \in Ages /\ StampFits' /\ UNCHANGED <<ruleOn, swept>>
    BY <1>1, CredNumbers DEF CreateTunnel, StampFits
  <2>5. ruleOn' \in BOOLEAN /\ swept' \in BOOLEAN /\ tunnel' \in {"none", "active", "deleted"}
    BY <1>0, <2>3, <2>4 DEF PanelTypes
  <2> HIDE DEF r
  <2> QED
    BY <1>0, <2>1, <2>2, <2>3, <2>4, <2>5, JobMoves
<1>2. ASSUME NEW c \in Callers, RestartTunnel(c) PROVE PanelInv'
  <2> DEFINE r == [NoJob EXCEPT !.pc = "read"]
  <2>1. r \in JobRows /\ r.pc = "read" /\ r.op = "rotate"
    BY <1>0, JobTyped, CredNumbers DEF NoJob
  <2>2. \A k \in Callers : k # c => JobFitsTunnel(k)'
    BY <1>0, <1>2 DEF RestartTunnel, JobFitsTunnel, PanelTypes
  <2> QED
    BY <1>0, <1>2, <2>1, <2>2, JobMoves DEF RestartTunnel, StampFits, PanelTypes
<1>3. ASSUME NEW c \in Callers, DeleteTunnel(c) PROVE PanelInv'
  <2> DEFINE r == [pc |-> "revoke", op |-> "delete", hops |-> Hops]
  <2>1. r \in JobRows /\ r.pc = "revoke" /\ r.op = "delete" /\ r.hops = Hops
    BY DEF JobRows
  <2>2. \A k \in Callers : k # c => JobFitsTunnel(k)'
    BY <1>0, <1>3 DEF DeleteTunnel, JobFitsTunnel, PanelTypes, Callers
  <2> QED
    BY <1>0, <1>3, <2>1, <2>2, JobMoves DEF DeleteTunnel, StampFits, PanelTypes
<1>4. ASSUME NEW c \in Callers, ReadHops(c) PROVE PanelInv'
  <2> DEFINE r == [job[c] EXCEPT !.pc = "creds", !.hops = IF tunnel = "active" THEN Hops ELSE {}]
  <2>0. job[c] \in JobRows
    BY <1>0, JobTyped
  <2>1. r \in JobRows /\ r.pc = "creds" /\ r.op = job[c].op /\ (tunnel = "active" => r.hops = Hops)
    BY <2>0 DEF JobRows
  <2>2. \A k \in Callers : k # c => JobFitsTunnel(k)'
    BY <1>0, <1>4 DEF ReadHops, JobFitsTunnel, PanelTypes
  <2>3. job' = [job EXCEPT ![c] = r]
    BY <1>0, <1>4 DEF ReadHops, PanelTypes, JobRows
  <2>4. job[c].op = "create" => c = "api" /\ tunnel = "active" /\ stamp = 0
    BY <1>0, <1>4 DEF ReadHops, JobFitsTunnel
  <2>5. tunnel # "none" /\ job[c].op # "delete"
    BY <1>0, <1>4 DEF ReadHops, JobFitsTunnel
  <2> HIDE DEF r
  <2> QED
    BY <1>0, <1>4, <2>1, <2>2, <2>3, <2>4, <2>5, JobMoves DEF ReadHops, StampFits, PanelTypes
<1>5. ASSUME NEW c \in Callers, PushCreds(c) PROVE PanelInv'
  <2> DEFINE r == [job[c] EXCEPT !.pc = "stamp"]
  <2>1. r \in JobRows /\ r.pc = "stamp" /\ r.op = job[c].op
    BY <1>0, JobTyped DEF JobRows
  <2>2. \A k \in Callers : k # c => JobFitsTunnel(k)'
    BY <1>0, <1>5 DEF PushCreds, JobFitsTunnel, PanelTypes
  <2>3. job' = [job EXCEPT ![c] = r]
    BY <1>0, <1>5 DEF PushCreds, PanelTypes, JobRows
  <2>4. /\ job[c].op = "create" => c = "api" /\ tunnel = "active" /\ stamp = 0
        /\ tunnel # "none" /\ job[c].op # "delete"
    BY <1>0, <1>5 DEF PushCreds, JobFitsTunnel
  <2> HIDE DEF r
  <2> QED
    BY <1>0, <1>5, <2>1, <2>2, <2>3, <2>4, JobMoves DEF PushCreds, StampFits, PanelTypes
<1>6. ASSUME NEW c \in Callers, Stamp(c) PROVE PanelInv'
  <2>0. job[c].op # "delete" /\ tunnel # "none" /\ (job[c].op = "create" => c = "api" /\ tunnel = "active")
    BY <1>0, <1>6 DEF Stamp, JobFitsTunnel
  <2>2. \A k \in Callers : k # c => JobFitsTunnel(k)'
    BY <1>0, <1>6 DEF Stamp, JobFitsTunnel, PanelTypes
  <2>3. CASE job[c].op = "create"
    BY <1>0, <1>6, <2>2, <2>3, JobMoves, CredNumbers DEF Stamp, StampFits, PanelTypes
  <2>4. CASE job[c].op # "create"
    <3> DEFINE r == [job[c] EXCEPT !.pc = "restart", !.hops = {}]
    <3>0. job[c] \in JobRows
      BY <1>0, JobTyped
    <3>1. r \in JobRows /\ r.pc = "restart" /\ r.op = "rotate"
      BY <2>0, <2>4, <3>0 DEF JobRows
    <3>2. job' = [job EXCEPT ![c] = r] /\ stamp' = 0
      BY <1>0, <1>6, <2>4 DEF Stamp, PanelTypes, JobRows
    <3> HIDE DEF r
    <3>3. stamp' \in Ages /\ StampFits' /\ UNCHANGED <<tunnel, ruleOn, swept>>
      BY <1>6, CredNumbers DEF Stamp, StampFits
    <3>4. ruleOn' \in BOOLEAN /\ swept' \in BOOLEAN /\ tunnel' \in {"none", "active", "deleted"}
          /\ (ruleOn' => tunnel' = "active")
      BY <1>0, <3>3 DEF PanelTypes
    <3> QED
      BY <1>0, <2>0, <2>2, <3>1, <3>2, <3>3, <3>4, JobMoves
  <2> QED
    BY <2>3, <2>4
<1>7. ASSUME NEW c \in Callers, IssueFails(c) \/ PushRestart(c) \/ Revoke(c) PROVE PanelInv'
  <2>1. job' = [job EXCEPT ![c] = NoJob] /\ UNCHANGED <<tunnel, stamp, ruleOn>> /\ swept' \in BOOLEAN
    BY <1>0, <1>7 DEF IssueFails, PushRestart, Revoke, PanelTypes
  <2>2. \A k \in Callers : k # c => JobFitsTunnel(k)'
    BY <1>0, <2>1 DEF JobFitsTunnel, PanelTypes
  <2>3. StampFits'
    <3>1. swept' => swept \/ stamp = 0
      BY <1>0, <1>7 DEF IssueFails, PushRestart, Revoke, JobFitsTunnel
    <3> QED
      BY <1>0, <2>1, <3>1, CredNumbers DEF StampFits
  <2> QED
    BY <1>0, <2>1, <2>2, <2>3, JobMoves, CredNumbers DEF PanelTypes
<1>8. CASE SweepTick
  <2>1. CASE tunnel = "active" /\ stamp >= RotateAfter
    <3> DEFINE r == [NoJob EXCEPT !.pc = "read"]
    <3>1. r \in JobRows /\ r.pc = "read" /\ r.op = "rotate"
      BY <1>0, JobTyped, CredNumbers DEF NoJob, Callers
    <3>2. job' = [job EXCEPT !["sweep"] = r] /\ "sweep" \in Callers /\ swept' = FALSE
          /\ UNCHANGED <<tunnel, stamp, ruleOn>>
      BY <1>8, <2>1 DEF SweepTick, Callers
    <3>3. \A k \in Callers : k # "sweep" => JobFitsTunnel(k)'
      BY <1>0, <3>2 DEF JobFitsTunnel, PanelTypes
    <3> QED
      BY <1>0, <2>1, <3>1, <3>2, <3>3, JobMoves DEF StampFits, PanelTypes
  <2>2. CASE ~(tunnel = "active" /\ stamp >= RotateAfter)
    <3>1. UNCHANGED <<job, tunnel, stamp, ruleOn>> /\ swept' = TRUE
      BY <1>8, <2>2 DEF SweepTick
    <3> QED
      BY <1>0, <2>2, <3>1, CredNumbers DEF PanelInv, PanelTypes, StampFits, JobFitsTunnel
  <2> QED
    BY <2>1, <2>2
<1>9. CASE CreateRule \/ DeleteTheRule
  <2>1. UNCHANGED <<tunnel, stamp, swept, job>> /\ ruleOn' \in BOOLEAN /\ (ruleOn' => tunnel' = "active")
    BY <1>9 DEF CreateRule, DeleteTheRule
  <2> QED
    BY <1>0, <2>1 DEF PanelInv, PanelTypes, StampFits, JobFitsTunnel
<1>10. CASE Tick
  <2>1. \A c \in Callers : job[c].pc = "idle"
    BY <1>10, CredNumbers DEF Tick, Quiet
  <2>2. stamp' = Older(stamp) /\ swept /\ UNCHANGED <<tunnel, ruleOn, job>> /\ swept' = FALSE
    BY <1>10 DEF Tick
  <2>3. stamp \in 0..Validity /\ (tunnel = "active" => stamp < RotateAfter)
    BY <1>0, <2>2, CredNumbers DEF PanelTypes, StampFits
  <2>4. stamp' \in Ages /\ (tunnel = "active" => stamp' <= RotateAfter)
    BY <2>2, <2>3, CredNumbers DEF Older
  <2> QED
    BY <1>0, <2>1, <2>2, <2>4 DEF PanelInv, PanelTypes, StampFits, JobFitsTunnel
<1>11. ASSUME NEW h \in Hops,
              Receive(h) \/ StoreFails(h) \/ Retry(h) \/ Disconnect(h) \/ Crash(h) \/ Connect(h) \/ ReplaySend(h)
       PROVE  PanelInv'
  <2>1. UNCHANGED <<tunnel, stamp, ruleOn, swept, job>>
    BY <1>11 DEF Receive, StoreFails, Retry, Disconnect, Crash, Connect, ReplaySend, Lost
  <2> QED
    BY <1>0, <2>1 DEF PanelInv, PanelTypes, StampFits, JobFitsTunnel
<1> QED
  BY <1>1, <1>2, <1>3, <1>4, <1>5, <1>6, <1>7, <1>8, <1>9, <1>10, <1>11 DEF CredsNext

\* Steps that only change jobs, the tunnel or the time noted.
LEMMA JobStepKeeps ==
    ASSUME CredInv, NEW h \in Hops, NEW c \in Callers,
           CreateTunnel(c) \/ RestartTunnel(c) \/ DeleteTunnel(c) \/ ReadHops(c) \/ Stamp(c) \/ SweepTick
    PROVE  HopInv(h)'
<1>0. UNCHANGED <<hop, channel, replay, mishap, ruleOn>>
  BY DEF CreateTunnel, RestartTunnel, DeleteTunnel, ReadHops, Stamp, SweepTick
<1>1. /\ OnTheWay(h) /\ FilesFit(h) /\ WillRun(h) /\ RunsFresh(h) /\ KeysGo(h)
      /\ \A k \in Callers : JobFitsTunnel(k) /\ job[k] \in JobRows
      /\ tunnel \in {"none", "active", "deleted"} /\ (ruleOn => tunnel = "active")
      /\ hop[h] \in HopRows /\ stamp \in Ages /\ job \in [Callers -> JobRows]
  BY DEF CredInv, HopInv, PanelInv, PanelTypes, HopTypes
<1>2. CASE CreateTunnel(c)
  <2>1. /\ tunnel = "none" /\ tunnel' = "active" /\ stamp' = 0 /\ c = "api" /\ ~ruleOn
        /\ job'["api"].pc = "read" /\ job'["api"].op = "create"
        /\ \A k \in Callers : k # "api" => job'[k].pc = "idle"
    BY <1>1, <1>2 DEF CreateTunnel, JobFitsTunnel, Callers, NoJob
  <2> QED
    BY <1>0, <1>1, <2>1, CredNumbers
       DEF HopInv, OnTheWay, FilesFit, WillRun, RunsFresh, KeysGo, Creating, BringsCreds, Callers
<1>3. CASE DeleteTunnel(c)
  <2>1. tunnel = "active" /\ tunnel' = "deleted" /\ ~ruleOn /\ job'["api"].pc = "revoke"
    BY <1>1, <1>3 DEF DeleteTunnel
  <2> QED
    BY <1>0, <1>1, <2>1 DEF HopInv, OnTheWay, FilesFit, WillRun, RunsFresh, KeysGo, Sound
<1>4. CASE Stamp(c)
  <2>1. /\ tunnel' = tunnel /\ stamp' = 0 /\ job[c].pc = "stamp" /\ tunnel # "none"
        /\ \A k \in Callers : k # c => job'[k] = job[k]
        /\ IF job[c].op = "create" THEN job'[c].pc = "idle" /\ stamp = 0
           ELSE job'[c].pc = "restart"
    BY <1>1, <1>4 DEF Stamp, JobFitsTunnel, NoJob, JobRows
  <2>2. OnTheWay(h)'
    BY <1>0, <1>1, <2>1 DEF OnTheWay
  <2>3. FilesFit(h)'
    BY <1>0, <1>1, <2>1, CredNumbers DEF FilesFit, Sound, BringsCreds, HopRows, Callers
  <2>4. WillRun(h)'
    BY <1>0, <1>1, <2>1 DEF WillRun, Sound
  <2>5. RunsFresh(h)'
    <3>1. CASE job[c].op = "create"
      BY <1>0, <1>1, <2>1, <3>1 DEF RunsFresh, Sound, GoodDisk, GoodRun
    <3>2. CASE job[c].op # "create"
      BY <2>1, <3>2 DEF RunsFresh
    <3> QED
      BY <3>1, <3>2
  <2>6. KeysGo(h)'
    BY <1>0, <1>1, <2>1 DEF KeysGo, Callers
  <2> QED
    BY <2>2, <2>3, <2>4, <2>5, <2>6 DEF HopInv
<1>5. CASE RestartTunnel(c) \/ SweepTick \/ ReadHops(c)
  <2>1. /\ UNCHANGED <<tunnel, stamp>>
        /\ \A k \in Callers :
              \/ job'[k] = job[k]
              \/ job[k].pc = "idle" /\ job'[k].pc = "read" /\ job'[k].op = "rotate" /\ tunnel = "active"
              \/ /\ job[k].pc = "read" /\ job'[k].pc = "creds" /\ job'[k].op = job[k].op
                 /\ tunnel # "active" => job'[k].hops = {}
    BY <1>1, <1>5 DEF RestartTunnel, SweepTick, ReadHops, NoJob, JobRows, Callers
  <2>2. OnTheWay(h)'
    BY <1>0, <1>1, <2>1 DEF OnTheWay
  <2>3. FilesFit(h)'
    BY <1>0, <1>1, <2>1 DEF FilesFit, Sound, BringsCreds, Creating, Callers
  <2>4. WillRun(h)'
    BY <1>0, <1>1, <2>1 DEF WillRun, Sound
  <2>5. RunsFresh(h)'
    BY <1>0, <1>1, <2>1 DEF RunsFresh, Sound, GoodDisk, GoodRun
  <2>6. KeysGo(h)'
    BY <1>0, <1>1, <2>1 DEF KeysGo, Callers
  <2> QED
    BY <2>2, <2>3, <2>4, <2>5, <2>6 DEF HopInv
<1> QED
  BY <1>2, <1>3, <1>4, <1>5

\* What the invariant says of hop h, ready for a step.
LEMMA HopHas ==
    ASSUME CredInv, NEW h \in Hops
    PROVE  /\ OnTheWay(h) /\ FilesFit(h) /\ WillRun(h) /\ RunsFresh(h) /\ KeysGo(h)
           /\ \A k \in Callers : JobFitsTunnel(k) /\ job[k] \in JobRows
           /\ tunnel \in {"none", "active", "deleted"} /\ (ruleOn => tunnel = "active")
           /\ hop[h] \in HopRows /\ stamp \in Ages /\ job \in [Callers -> JobRows]
           /\ channel[h] \in Seq(AgentCmds) /\ replay[h] \in Seq(AgentCmds)
           /\ mishap[h] \subseteq {"wrong", "kept"}
BY DEF CredInv, HopInv, PanelInv, PanelTypes, HopTypes

\* A push: h takes the command, or misses it.
LEMMA PushedTo ==
    ASSUME CredInv, NEW hops, NEW cmd \in AgentCmds, PushTo(hops, cmd), NEW h \in Hops
    PROVE  /\ \/ h \in hops /\ hop[h].conn /\ channel'[h] = Append(channel[h], cmd) /\ mishap'[h] = mishap[h]
              \/ /\ channel'[h] = channel[h] /\ mishap[h] \subseteq mishap'[h]
                 /\ mishap'[h] \ {"wrong"} = mishap[h] \ {"wrong"}
                 /\ h \in hops /\ hop[h].conn => "wrong" \in mishap'[h]
           /\ channel'[h] \in Seq(AgentCmds) /\ mishap'[h] \in SUBSET {"wrong", "kept"}
           /\ channel' \in [Hops -> Seq(AgentCmds)]
           /\ mishap' \in [Hops -> SUBSET {"wrong", "kept"}]
<1>1. /\ channel \in [Hops -> Seq(AgentCmds)] /\ mishap \in [Hops -> SUBSET {"wrong", "kept"}]
  BY DEF CredInv, HopTypes
<1>2. \A x \in Hops : Append(channel[x], cmd) \in Seq(AgentCmds) /\ channel[x] \in Seq(AgentCmds)
  BY <1>1
<1>3. channel' \in [Hops -> Seq(AgentCmds)]
  BY <1>2 DEF PushTo
<1>4. mishap' \in [Hops -> SUBSET {"wrong", "kept"}]
  BY <1>1 DEF PushTo, Wrong
<1>5. \/ h \in hops /\ hop[h].conn /\ channel'[h] = Append(channel[h], cmd) /\ mishap'[h] = mishap[h]
      \/ /\ channel'[h] = channel[h] /\ mishap[h] \subseteq mishap'[h]
         /\ mishap'[h] \ {"wrong"} = mishap[h] \ {"wrong"}
         /\ h \in hops /\ hop[h].conn => "wrong" \in mishap'[h]
  BY DEF PushTo, Wrong, Takes
<1> QED
  BY <1>3, <1>4, <1>5

LEMMA PushCredsKeeps ==
    ASSUME CredInv, NEW h \in Hops, NEW c \in Callers, PushCreds(c) \/ IssueFails(c)
    PROVE  HopInv(h)'
<1>1. /\ OnTheWay(h) /\ FilesFit(h) /\ WillRun(h) /\ RunsFresh(h) /\ KeysGo(h)
      /\ \A k \in Callers : JobFitsTunnel(k) /\ job[k] \in JobRows
      /\ channel[h] \in Seq(AgentCmds) /\ mishap[h] \subseteq {"wrong", "kept"}
      /\ job \in [Callers -> JobRows] /\ hop[h] \in HopRows
  BY HopHas
<1>2. /\ UNCHANGED <<hop, replay, tunnel, stamp, ruleOn>>
      /\ job[c].pc = "creds" /\ tunnel # "none" /\ job[c].op # "delete"
      /\ \A k \in Callers : k # c => job'[k] = job[k]
      /\ \/ job'[c].pc = "stamp" /\ job'[c].op = job[c].op
         \/ job'[c].pc = "idle"
      /\ tunnel = "active" => job[c].hops = Hops
  <2>1. CASE PushCreds(c)
    <3>1. job' = [job EXCEPT ![c] = [job[c] EXCEPT !.pc = "stamp"]]
      BY <1>1, <2>1 DEF PushCreds, JobRows
    <3> QED
      BY <1>1, <2>1, <3>1 DEF PushCreds, JobFitsTunnel, JobRows
  <2>2. CASE IssueFails(c)
    <3>1. job' = [job EXCEPT ![c] = NoJob]
      BY <2>2 DEF IssueFails
    <3> QED
      BY <1>1, <2>2, <3>1, CredNumbers DEF IssueFails, JobFitsTunnel
  <2> QED
    BY <2>1, <2>2
\* h takes the certificate, misses it, or is left out.
<1>3. \/ h \in job[c].hops /\ hop[h].conn /\ channel'[h] = Append(channel[h], "creds") /\ mishap'[h] = mishap[h]
      \/ /\ channel'[h] = channel[h] /\ mishap[h] \subseteq mishap'[h]
         /\ mishap'[h] \ {"wrong"} = mishap[h] \ {"wrong"}
         /\ \/ h \in job[c].hops /\ hop[h].conn => "wrong" \in mishap'[h]
            \/ job'[c].pc = "idle" /\ job[c].op = "rotate"
  <2>1. CASE PushCreds(c)
    BY <2>1, PushedTo DEF PushCreds, AgentCmds
  <2>2. CASE IssueFails(c)
    <3>1. job'[c].pc = "idle"
      BY <1>1, <2>2, CredNumbers DEF IssueFails
    <3> QED
      BY <2>2, <3>1 DEF IssueFails, Wrong, Takes
  <2> QED
    BY <2>1, <2>2
<1> DEFINE q == channel[h]
           q2 == channel'[h]
<1>4. /\ \A K : Has(q2, K) <=> Has(q, K) \/ (q2 # q /\ "creds" \in K)
      /\ LastIs(q2, RuleCmds, "apply") <=> LastIs(q, RuleCmds, "apply")
      /\ FreshIn(q2, GoodDisk(h), GoodRun(h)) <=> FreshIn(q, GoodDisk(h), GoodRun(h))
      /\ q2 # q => Has(q2, {"creds"}) /\ h \in job[c].hops /\ hop[h].conn
  <2>1. CASE q2 = q
    BY <2>1
  <2>2. CASE q2 = Append(q, "creds") /\ q2 # q
    <3>1. "creds" \in AgentCmds /\ "creds" \notin RuleCmds /\ "creds" \notin Starts /\ "apply" \in RuleCmds
      BY DEF AgentCmds, RuleCmds, Starts
    <3>2. \A K : Has(q2, K) <=> Has(q, K) \/ "creds" \in K
      BY <1>1, <2>2, <3>1, AppendedHas
    <3>3. LastIs(q2, RuleCmds, "apply") <=> LastIs(q, RuleCmds, "apply")
      BY <1>1, <2>2, <3>1, AppendedLast
    <3>4. FreshIn(q2, GoodDisk(h), GoodRun(h)) <=> FreshIn(q, GoodDisk(h), GoodRun(h))
      BY <1>1, <2>2, <3>1, AppendedFresh
    <3> QED
      BY <1>3, <2>2, <3>2, <3>3, <3>4
  <2> QED
    BY <1>3, <2>1, <2>2
<1> HIDE DEF q, q2
<1>5. OnTheWay(h)'
  <2>1. hop'[h] = hop[h] /\ replay'[h] = replay[h]
    BY <1>2
  <2> QED
    BY <1>1, <1>2, <1>4, <2>1 DEF OnTheWay, q, q2
<1>6. FilesFit(h)'
  <2> SUFFICES ASSUME Sound(h)' PROVE FilesFit(h)'
    BY DEF FilesFit
  <2>1. Sound(h) /\ h \in job[c].hops /\ hop[h].conn
    BY <1>2, <1>3 DEF Sound
  <2>2. q2 # q \/ (job'[c].pc = "idle" /\ job[c].op = "rotate")
    BY <1>2, <1>3, <2>1 DEF Sound, q, q2
  <2> QED
    BY <1>1, <1>2, <1>4, <2>1, <2>2 DEF FilesFit, BringsCreds, Creating, RuleCmds, q, q2, Callers
<1>7. WillRun(h)'
  <2>1. Has(q2, RuleCmds) <=> Has(q, RuleCmds)
    BY <1>4 DEF RuleCmds
  <2> QED
    BY <1>1, <1>2, <1>3, <1>4, <2>1 DEF WillRun, Sound, q, q2
<1>8. RunsFresh(h)'
  <2> SUFFICES ASSUME Sound(h)', ruleOn', \A k \in Callers : job'[k].pc # "restart" PROVE RunsFresh(h)'
    BY DEF RunsFresh
  <2>1. Sound(h) /\ ruleOn /\ \A k \in Callers : job[k].pc # "restart"
    BY <1>2, <1>3 DEF Sound
  <2>2. GoodDisk(h)' = GoodDisk(h) /\ GoodRun(h)' = GoodRun(h)
    BY <1>2 DEF GoodDisk, GoodRun
  <2>3. replay[h] = <<>> => FreshIn(q, GoodDisk(h), GoodRun(h))
    BY <1>1, <2>1 DEF RunsFresh, q
  <2>4. replay[h] = <<"apply">> => GoodDisk(h) \/ Has(q, {"creds"})
    BY <1>1, <2>1 DEF RunsFresh, q
  <2>5. Has(q, {"creds"}) => Has(q2, {"creds"})
    BY <1>4
  <2>6. replay'[h] = replay[h]
    BY <1>2
  <2>7. replay'[h] = <<>> => FreshIn(q2, GoodDisk(h)', GoodRun(h)')
    BY <1>4, <2>2, <2>3, <2>6
  <2>8. replay'[h] = <<"apply">> => GoodDisk(h)' \/ Has(q2, {"creds"})
    BY <2>2, <2>4, <2>5, <2>6
  <2> QED
    BY <2>7, <2>8 DEF RunsFresh, q2
<1>9. KeysGo(h)'
  <2> SUFFICES ASSUME tunnel' = "deleted", "kept" \notin mishap'[h], job'["api"].pc # "revoke" PROVE KeysGo(h)'
    BY DEF KeysGo
  <2>1. job["api"].pc # "revoke"
    BY <1>2 DEF Callers
  <2>2. "kept" \notin mishap[h]
    BY <1>3
  <2>3. h \notin job[c].hops
    BY <1>1, <1>2, <2>1, <2>2 DEF KeysGo
  <2>4. q2 = q
    BY <1>4, <2>3
  <2> QED
    BY <1>1, <1>2, <2>1, <2>2, <2>4 DEF KeysGo, q, q2
<1> QED
  BY <1>5, <1>6, <1>7, <1>8, <1>9 DEF HopInv

\* The rule is restarted where it runs: what it loads then is on disk or on its way.
LEMMA PushRestartKeeps ==
    ASSUME CredInv, NEW h \in Hops, NEW c \in Callers, PushRestart(c)
    PROVE  HopInv(h)'
<1>1. /\ OnTheWay(h) /\ FilesFit(h) /\ WillRun(h) /\ RunsFresh(h) /\ KeysGo(h)
      /\ \A k \in Callers : JobFitsTunnel(k) /\ job[k] \in JobRows
      /\ channel[h] \in Seq(AgentCmds) /\ (ruleOn => tunnel = "active")
      /\ job \in [Callers -> JobRows] /\ hop[h] \in HopRows
  BY HopHas
<1>2. /\ UNCHANGED <<hop, replay, tunnel, stamp, ruleOn>>
      /\ job[c].pc = "restart" /\ tunnel # "none" /\ job[c].op = "rotate" /\ job'[c].pc = "idle" /\ job'[c].op = "rotate"
      /\ \A k \in Callers : k # c => job'[k] = job[k]
  BY <1>1, CredNumbers DEF PushRestart, JobFitsTunnel, NoJob
<1> DEFINE q == channel[h]
           q2 == channel'[h]
<1>3. \/ ruleOn /\ hop[h].conn /\ q2 = Append(q, "restart") /\ mishap'[h] = mishap[h]
      \/ /\ q2 = q /\ mishap[h] \subseteq mishap'[h]
         /\ mishap'[h] \ {"wrong"} = mishap[h] \ {"wrong"}
         /\ ruleOn /\ hop[h].conn => "wrong" \in mishap'[h]
  BY PushedTo DEF PushRestart, AgentCmds
<1>4. /\ \A K : "restart" \notin K => (Has(q2, K) <=> Has(q, K))
      /\ LastIs(q2, RuleCmds, "apply") <=> LastIs(q, RuleCmds, "apply")
      /\ q2 # q => (FreshIn(q2, GoodDisk(h), GoodRun(h)) <=> GoodDisk(h) \/ Has(q, {"creds"}))
  <2>1. CASE q2 = q
    BY <2>1
  <2>2. CASE q2 = Append(q, "restart")
    <3>1. "restart" \in AgentCmds /\ "restart" \notin RuleCmds /\ "restart" \in Starts /\ "apply" \in RuleCmds
      BY DEF AgentCmds, RuleCmds, Starts
    <3>2. \A K : "restart" \notin K => (Has(q2, K) <=> Has(q, K))
      BY <1>1, <2>2, <3>1, AppendedHas
    <3>3. LastIs(q2, RuleCmds, "apply") <=> LastIs(q, RuleCmds, "apply")
      BY <1>1, <2>2, <3>1, AppendedLast
    <3>4. FreshIn(q2, GoodDisk(h), GoodRun(h)) <=> GoodDisk(h) \/ Has(q, {"creds"})
      BY <1>1, <2>2, <3>1, AppendedFresh
    <3> QED
      BY <3>2, <3>3, <3>4
  <2> QED
    BY <1>3, <2>1, <2>2
<1> HIDE DEF q, q2
<1>5. OnTheWay(h)'
  <2>1. hop'[h] = hop[h] /\ replay'[h] = replay[h]
    BY <1>2
  <2>2. Has(q2, {"revoke"}) <=> Has(q, {"revoke"})
    BY <1>4
  <2> QED
    BY <1>1, <1>2, <1>3, <2>1, <2>2 DEF OnTheWay, q, q2
<1>6. (Has(q2, {"creds"}) <=> Has(q, {"creds"})) /\ (Has(q2, RuleCmds) <=> Has(q, RuleCmds))
  BY <1>4 DEF RuleCmds
<1>7. FilesFit(h)'
  BY <1>1, <1>2, <1>3, <1>6 DEF FilesFit, Sound, BringsCreds, Creating, q, q2, Callers
<1>8. WillRun(h)'
  BY <1>1, <1>2, <1>3, <1>4, <1>6 DEF WillRun, Sound, q, q2
<1>9. RunsFresh(h)'
  <2> SUFFICES ASSUME Sound(h)', ruleOn' PROVE RunsFresh(h)'
    BY DEF RunsFresh
  <2>1. Sound(h) /\ ruleOn /\ hop[h].conn /\ q2 = Append(q, "restart") /\ mishap'[h] = mishap[h]
    BY <1>2, <1>3 DEF Sound
  <2>2. GoodDisk(h)' = GoodDisk(h) /\ GoodRun(h)' = GoodRun(h) /\ replay'[h] = replay[h]
    BY <1>2 DEF GoodDisk, GoodRun
  <2>3. GoodDisk(h) \/ BringsCreds(h)
    BY <1>1, <2>1 DEF FilesFit, GoodDisk
  <2>4. replay[h] \in {<<>>, <<"apply">>} => GoodDisk(h) \/ Has(q, {"creds"})
    BY <2>3 DEF BringsCreds, q
  <2>5. q2 # q
    BY <1>1, <2>1 DEF q, q2
  <2>6. replay'[h] = <<>> => FreshIn(q2, GoodDisk(h)', GoodRun(h)')
    BY <1>4, <2>2, <2>4, <2>5
  <2>7. replay'[h] = <<"apply">> => GoodDisk(h)' \/ Has(q2, {"creds"})
    BY <1>6, <2>2, <2>4
  <2> QED
    BY <2>6, <2>7 DEF RunsFresh, q2
<1>10. KeysGo(h)'
  <2> SUFFICES ASSUME tunnel' = "deleted", "kept" \notin mishap'[h], job'["api"].pc # "revoke" PROVE KeysGo(h)'
    BY DEF KeysGo
  <2>1. job["api"].pc # "revoke" /\ "kept" \notin mishap[h] /\ q2 = q
    BY <1>1, <1>2, <1>3 DEF Callers
  <2> QED
    BY <1>1, <1>2, <2>1 DEF KeysGo, q, q2
<1> QED
  BY <1>5, <1>7, <1>8, <1>9, <1>10 DEF HopInv

\* A rule of the tunnel is created or deleted.
LEMMA PushRuleKeeps ==
    ASSUME CredInv, NEW h \in Hops, CreateRule \/ DeleteTheRule
    PROVE  HopInv(h)'
<1>1. /\ OnTheWay(h) /\ FilesFit(h) /\ WillRun(h) /\ RunsFresh(h) /\ KeysGo(h)
      /\ channel[h] \in Seq(AgentCmds) /\ (ruleOn => tunnel = "active")
      /\ hop[h] \in HopRows
  BY HopHas
<1>2. /\ UNCHANGED <<hop, replay, tunnel, stamp, job>> /\ tunnel = "active"
      /\ replay[h] = <<>>
  BY <1>1 DEF CreateRule, DeleteTheRule
<1> DEFINE q == channel[h]
           q2 == channel'[h]
           cmd == IF ruleOn' THEN "apply" ELSE "remove"
<1>3. \/ hop[h].conn /\ q2 = Append(q, cmd) /\ mishap'[h] = mishap[h]
      \/ /\ q2 = q /\ mishap[h] \subseteq mishap'[h]
         /\ hop[h].conn => "wrong" \in mishap'[h]
  <2>1. PushTo(Hops, cmd) /\ cmd \in AgentCmds
    BY DEF CreateRule, DeleteTheRule, AgentCmds
  <2> HIDE DEF cmd
  <2> QED
    BY <2>1, PushedTo
<1>4. cmd \in AgentCmds /\ cmd \in RuleCmds /\ "apply" \in Starts /\ "apply" \in RuleCmds
  BY DEF AgentCmds, RuleCmds, Starts
<1> HIDE DEF cmd
<1>5. /\ \A K : cmd \notin K => (Has(q2, K) <=> Has(q, K))
      /\ \A K : Has(q, K) => Has(q2, K)
  <2>1. CASE q2 = q
    BY <2>1
  <2>2. CASE q2 = Append(q, cmd)
    BY <1>1, <1>4, <2>2, AppendedHas
  <2> QED
    BY <1>3, <2>1, <2>2
<1> HIDE DEF q, q2
<1>6. OnTheWay(h)'
  <2>1. hop'[h] = hop[h] /\ replay'[h] = <<>>
    BY <1>2
  <2>2. Has(q2, {"revoke"}) <=> Has(q, {"revoke"})
    BY <1>5 DEF cmd
  <2> QED
    BY <1>1, <1>2, <1>3, <2>1, <2>2 DEF OnTheWay, q, q2
<1>7. Sound(h)' => Sound(h) /\ hop[h].conn /\ q2 = Append(q, cmd)
  BY <1>2, <1>3 DEF Sound
<1>8. FilesFit(h)'
  <2>1. Has(q, {"creds"}) => Has(q2, {"creds"})
    BY <1>5
  <2>2. Has(q, RuleCmds) => Has(q2, RuleCmds)
    BY <1>5
  <2> QED
    BY <1>1, <1>2, <1>7, <2>1, <2>2 DEF FilesFit, BringsCreds, Creating, q, q2
<1>9. WillRun(h)'
  <2> SUFFICES ASSUME Sound(h)', ruleOn' PROVE WillRun(h)'
    BY DEF WillRun
  <2>0. cmd = "apply" /\ q \in Seq(AgentCmds) /\ q2 = Append(q, cmd)
    BY <1>1, <1>7 DEF cmd, q
  <2>1. LastIs(q2, RuleCmds, "apply")
    BY <1>4, <2>0, AppendedLast
  <2> QED
    BY <2>1 DEF WillRun, q2
<1>10. RunsFresh(h)'
  <2> SUFFICES ASSUME Sound(h)', ruleOn' PROVE RunsFresh(h)'
    BY DEF RunsFresh
  <2>1. GoodDisk(h)' = GoodDisk(h) /\ replay'[h] = <<>>
    BY <1>2 DEF GoodDisk
  <2>2. GoodDisk(h) \/ Has(q, {"creds"})
    BY <1>1, <1>2, <1>7 DEF FilesFit, GoodDisk, BringsCreds, q
  <2>3. cmd \in Starts
    BY <1>4 DEF cmd
  <2>4. FreshIn(q2, GoodDisk(h), GoodRun(h)')
    BY <1>1, <1>4, <1>7, <2>2, <2>3, AppendedFresh DEF q
  <2> QED
    BY <2>1, <2>4 DEF RunsFresh, q2
<1>11. KeysGo(h)'
  BY <1>2 DEF KeysGo
<1> QED
  BY <1>6, <1>8, <1>9, <1>10, <1>11 DEF HopInv

\* The hops of the deleted tunnel are told: whoever does not miss it has no
\* certificate behind it.
LEMMA RevokeKeeps ==
    ASSUME CredInv, NEW h \in Hops, NEW c \in Callers, Revoke(c)
    PROVE  HopInv(h)'
<1>1. /\ OnTheWay(h) /\ channel[h] \in Seq(AgentCmds) /\ (ruleOn => tunnel = "active")
      /\ \A k \in Callers : JobFitsTunnel(k) /\ job[k] \in JobRows
      /\ job \in [Callers -> JobRows]
  BY HopHas
<1>2. /\ UNCHANGED <<hop, replay, tunnel, stamp, ruleOn>> /\ tunnel = "deleted"
      /\ \A k \in Callers : job'[k].pc = "creds" => job[k].pc = "creds" /\ job'[k].hops = job[k].hops
      /\ channel'[h] = IF Takes(h) THEN Append(channel[h], "revoke") ELSE channel[h]
      /\ "kept" \notin mishap'[h] =>
            /\ Takes(h) /\ ~Contains(replay[h], "creds")
            /\ \A k \in Callers : job[k].pc = "creds" => h \notin job[k].hops
  BY <1>1, CredNumbers DEF Revoke, JobFitsTunnel
<1>3. "revoke" \in AgentCmds /\ "revoke" \in FileCmds
  BY DEF AgentCmds, FileCmds
<1>4. OnTheWay(h)'
  <2>1. hop'[h] = hop[h] /\ replay'[h] = replay[h]
    BY <1>2
  <2> QED
    BY <1>1, <1>2, <2>1 DEF OnTheWay, Takes
<1>5. FilesFit(h)' /\ WillRun(h)' /\ RunsFresh(h)'
  BY <1>2 DEF FilesFit, WillRun, RunsFresh, Sound
<1>6. KeysGo(h)'
  <2> SUFFICES ASSUME "kept" \notin mishap'[h] PROVE KeysGo(h)'
    BY DEF KeysGo
  <2>1. LastIs(channel'[h], FileCmds, "revoke")
    BY <1>1, <1>2, <1>3, AppendedLast
  <2>2. Contains(<<"creds", "apply">>, "creds") /\ Contains(<<"creds", "remove">>, "creds")
    BY DEF Contains
  <2>3. replay'[h] \notin {<<"creds", "apply">>, <<"creds", "remove">>}
    BY <1>2, <2>2
  <2> QED
    BY <1>2, <2>1, <2>3 DEF KeysGo
<1> QED
  BY <1>4, <1>5, <1>6 DEF HopInv

\* What a start leaves.
LEMMA StartedIs ==
    ASSUME NEW a \in HopRows, NEW kind \in {"apply", "restart"}, NEW left, left > 0 => left \in 0..MaxRetries
    PROVE  /\ Started(a, kind, left) \in HopRows
           /\ Started(a, kind, left).conn = a.conn /\ Started(a, kind, left).disk = a.disk
           /\ Started(a, kind, left).run = Load(a.disk)
           /\ Load(a.disk) = NoCert /\ left > 0 => Started(a, kind, left).retry.kind = kind
           /\ Load(a.disk) # NoCert => Started(a, kind, left).retry.kind = "none"
<1>1. Load(a.disk) \in Ages \cup {NoCert}
  BY DEF Load
<1> DEFINE rt == IF Load(a.disk) = NoCert /\ left > 0 THEN [kind |-> kind, left |-> left] ELSE NoRetry
<1>2. /\ rt \in [kind : {"none", "apply", "restart"}, left : 0..MaxRetries]
      /\ Load(a.disk) = NoCert /\ left > 0 => rt.kind = kind
      /\ Load(a.disk) # NoCert => rt.kind = "none"
  BY CredNumbers
<1>3. Started(a, kind, left) = [a EXCEPT !.run = Load(a.disk), !.saved = (a.saved \/ Load(a.disk) # NoCert), !.retry = rt]
  BY DEF Started, HopRows
<1> HIDE DEF rt
<1>4. (a.saved \/ Load(a.disk) # NoCert) \in BOOLEAN
  OBVIOUS
<1> QED
  BY <1>1, <1>2, <1>3, <1>4 DEF HopRows

\* What a command does to an agent: a before, b after it.
Effect(a, cmd, b) ==
    /\ b \in HopRows /\ b.conn = a.conn
    /\ cmd = "creds" => b.disk = 0
    /\ cmd = "revoke" => b.disk = NoCert
    /\ cmd \in {"creds", "revoke"} => b.run = a.run /\ b.retry = a.retry
    /\ cmd \in {"remove", "apply", "restart"} => b.disk = a.disk
    /\ cmd = "remove" => b.run = NoCert /\ b.retry.kind = "none"
    /\ cmd = "apply" => /\ b.run = Load(a.disk)
                        /\ Load(a.disk) = NoCert => b.retry.kind = "apply"
                        /\ Load(a.disk) # NoCert => b.retry.kind = "none"
    /\ cmd = "restart" => /\ b.run = IF a.run = NoCert THEN NoCert ELSE Load(a.disk)
                          /\ b.run # NoCert => b.retry.kind = "none"

LEMMA HandledIs ==
    ASSUME NEW a \in HopRows, NEW cmd \in AgentCmds
    PROVE  Effect(a, cmd, Handled(a, cmd))
<1> DEFINE b == Handled(a, cmd)
<1>1. CASE cmd = "creds"
  <2>1. b = [a EXCEPT !.disk = 0]
    BY <1>1 DEF Handled
  <2> QED
    BY <1>1, <2>1, CredNumbers DEF Effect, HopRows
<1>2. CASE cmd = "revoke"
  <2>1. b = [a EXCEPT !.disk = NoCert]
    BY <1>2 DEF Handled
  <2> QED
    BY <1>2, <2>1, CredNumbers DEF Effect, HopRows
<1>3. CASE cmd = "remove"
  <2>1. b = [a EXCEPT !.run = NoCert, !.saved = FALSE, !.retry = NoRetry]
    BY <1>3 DEF Handled
  <2> QED
    BY <1>3, <2>1, CredNumbers DEF Effect, HopRows
<1>4. CASE cmd = "apply"
  <2>1. b = Started(a, "apply", MaxRetries)
    BY <1>4 DEF Handled
  <2> HIDE DEF b
  <2>2. /\ b \in HopRows /\ b.conn = a.conn /\ b.disk = a.disk /\ b.run = Load(a.disk)
        /\ Load(a.disk) = NoCert => b.retry.kind = "apply"
        /\ Load(a.disk) # NoCert => b.retry.kind = "none"
    <3>1. "apply" \in {"apply", "restart"} /\ MaxRetries > 0 /\ MaxRetries \in 0..MaxRetries
      BY CredNumbers
    <3> QED
      BY <2>1, <3>1, StartedIs
  <2> QED
    BY <1>4, <2>2 DEF Effect, b
<1>5. CASE cmd = "restart"
  <2>1. CASE a.run = NoCert
    <3>1. b = [a EXCEPT !.retry = NoRetry, !.saved = FALSE]
      BY <1>5, <2>1 DEF Handled
    <3> QED
      BY <1>5, <2>1, <3>1, CredNumbers DEF Effect, HopRows
  <2>2. CASE a.run # NoCert
    <3>1. b = Started(a, "restart", MaxRetries)
      BY <1>5, <2>2 DEF Handled
    <3> HIDE DEF b
    <3>2. /\ b \in HopRows /\ b.conn = a.conn /\ b.disk = a.disk /\ b.run = Load(a.disk)
          /\ Load(a.disk) # NoCert => b.retry.kind = "none"
      <4>1. "restart" \in {"apply", "restart"} /\ MaxRetries > 0 /\ MaxRetries \in 0..MaxRetries
        BY CredNumbers
      <4> QED
        BY <3>1, <4>1, StartedIs
    <3> QED
      BY <1>5, <2>2, <3>2 DEF Effect, b
  <2> QED
    BY <2>1, <2>2
<1> QED
  BY <1>1, <1>2, <1>3, <1>4, <1>5 DEF AgentCmds

LEMMA FreshMore ==
    ASSUME NEW s, NEW g1, NEW g2, NEW n1, NEW n2, FreshIn(s, g1, n1), g1 => g2,
           n1 => n2 \/ Has(s, Starts)
    PROVE  FreshIn(s, g2, n2)
<1>1. CASE ~Has(s, Starts)
  BY <1>1 DEF FreshIn, Has
<1>2. CASE Has(s, Starts)
  <2>1. PICK k \in 1..Len(s) :
           /\ s[k] \in Starts /\ \A j \in (k + 1)..Len(s) : s[j] \notin Starts
           /\ g1 \/ \E j \in 1..(k - 1) : s[j] = "creds"
    BY <1>2 DEF FreshIn
  <2> QED
    BY <2>1 DEF FreshIn
<1> QED
  BY <1>1, <1>2

\* The agent handles the command at the head of its channel.
LEMMA ReceiveKeeps ==
    ASSUME CredInv, NEW h \in Hops, Receive(h)
    PROVE  HopInv(h)' /\ hop'[h] \in HopRows
<1> DEFINE a == hop[h]
           b == hop'[h]
           s == channel[h]
           t == channel'[h]
           cmd == Head(channel[h])
<1>1. /\ OnTheWay(h) /\ FilesFit(h) /\ WillRun(h) /\ RunsFresh(h) /\ KeysGo(h)
      /\ tunnel \in {"none", "active", "deleted"} /\ (ruleOn => tunnel = "active")
      /\ a \in HopRows /\ stamp \in Ages
      /\ s \in Seq(AgentCmds) /\ s # <<>> /\ mishap[h] \subseteq {"wrong", "kept"}
  BY HopHas DEF Receive
<1>2. /\ b = Handled(a, cmd) /\ t = Tail(s) /\ a.conn
      /\ UNCHANGED <<tunnel, stamp, ruleOn, job>> /\ replay'[h] = replay[h]
      /\ IF cmd = "restart" /\ a.retry.kind = "apply" THEN mishap'[h] = mishap[h] \cup {"wrong"}
         ELSE mishap'[h] = mishap[h]
  BY DEF Receive, CredInv, HopTypes
<1>3. cmd \in AgentCmds /\ cmd = Head(s)
  BY <1>1
<1>4. /\ b \in HopRows /\ b.conn = a.conn
      /\ cmd = "creds" => b.disk = 0
      /\ cmd = "revoke" => b.disk = NoCert
      /\ cmd \in {"creds", "revoke"} => b.run = a.run /\ b.retry = a.retry
      /\ cmd \in {"remove", "apply", "restart"} => b.disk = a.disk
      /\ cmd = "remove" => b.run = NoCert /\ b.retry.kind = "none"
      /\ cmd = "apply" => /\ b.run = Load(a.disk)
                          /\ Load(a.disk) = NoCert => b.retry.kind = "apply"
                          /\ Load(a.disk) # NoCert => b.retry.kind = "none"
      /\ cmd = "restart" => /\ b.run = IF a.run = NoCert THEN NoCert ELSE Load(a.disk)
                            /\ b.run # NoCert => b.retry.kind = "none"
  <2>1. Effect(a, cmd, Handled(a, cmd))
    BY <1>1, <1>3, HandledIs
  <2>2. b = Handled(a, cmd)
    BY <1>2
  <2> HIDE DEF a, b, s, t, cmd
  <2> QED
    BY <2>1, <2>2 DEF Effect
<1> HIDE DEF a, b, s, t, cmd
<1>5. /\ \A K : Has(s, K) <=> cmd \in K \/ Has(t, K)
      /\ \A K, x : LastIs(s, K, x) <=> LastIs(t, K, x) \/ (~Has(t, K) /\ cmd = x)
  BY <1>1, <1>2, <1>3, FirstHas, FirstLast
<1>6. /\ Has(s, {"creds"}) <=> cmd = "creds" \/ Has(t, {"creds"})
      /\ Has(s, {"revoke"}) <=> cmd = "revoke" \/ Has(t, {"revoke"})
      /\ Has(s, RuleCmds) <=> cmd \in {"apply", "remove"} \/ Has(t, RuleCmds)
      /\ Has(s, FileCmds) <=> cmd \in {"creds", "revoke"} \/ Has(t, FileCmds)
      /\ LastIs(s, RuleCmds, "apply") <=> LastIs(t, RuleCmds, "apply") \/ (~Has(t, RuleCmds) /\ cmd = "apply")
      /\ LastIs(s, FileCmds, "revoke") <=> LastIs(t, FileCmds, "revoke") \/ (~Has(t, FileCmds) /\ cmd = "revoke")
      /\ Has(s, {"creds", "apply", "restart"}) <=> cmd \in {"creds", "apply", "restart"} \/ Has(t, {"creds", "apply", "restart"})
  BY <1>5 DEF RuleCmds, FileCmds
<1>7. cmd \in {"creds", "apply", "restart", "remove", "revoke"}
  BY <1>3 DEF AgentCmds
<1>8. Load(a.disk) \in Ages \cup {NoCert} /\ (Load(a.disk) # NoCert <=> a.disk \in Ages)
      /\ (a.disk \in Ages => Load(a.disk) = a.disk)
  BY CredNumbers DEF Load
<1>9. OnTheWay(h)'
  <2>1. tunnel = "none" => cmd = "remove"
    BY <1>1, <1>6, <1>7 DEF OnTheWay, s
  <2>2. b.retry.kind # "none" => b.run = NoCert /\ b.conn
    BY <1>1, <1>2, <1>4, <1>7, <1>8 DEF OnTheWay, a
  <2>3. tunnel = "none" => b.disk = NoCert /\ b.run = NoCert
    BY <1>1, <1>4, <2>1 DEF OnTheWay, a
  <2>4. /\ tunnel # "deleted" => ~Has(t, {"revoke"})
        /\ tunnel = "none" => ~Has(t, {"creds", "apply", "restart"})
    BY <1>1, <1>6 DEF OnTheWay, s
  <2>5. b.conn
    BY <1>2, <1>4
  <2> QED
    BY <1>1, <1>2, <2>2, <2>3, <2>4, <2>5 DEF OnTheWay, b, t
<1>10. Sound(h)' => /\ Sound(h) /\ tunnel = "active" /\ cmd # "revoke"
                    /\ ~(cmd = "restart" /\ a.retry.kind = "apply")
  <2>1. Sound(h)' => Sound(h) /\ tunnel = "active" /\ ~(cmd = "restart" /\ a.retry.kind = "apply")
    BY <1>2, <1>4 DEF Sound, a, b
  <2>2. tunnel = "active" => cmd # "revoke"
    BY <1>1, <1>6 DEF OnTheWay, s
  <2> QED
    BY <2>1, <2>2
<1>11. FilesFit(h)'
  <2> SUFFICES ASSUME Sound(h)' PROVE FilesFit(h)'
    BY DEF FilesFit
  <2>1. BringsCreds(h)' <=> Has(t, {"creds"}) \/ replay[h] \in {<<"creds", "apply">>, <<"creds", "remove">>}
    BY <1>2 DEF BringsCreds, t
  <2>2. BringsCreds(h) <=> Has(s, {"creds"}) \/ replay[h] \in {<<"creds", "apply">>, <<"creds", "remove">>}
    BY DEF BringsCreds, s
  <2>3. /\ BringsCreds(h) \/ a.disk <= stamp \/ (Creating /\ a.disk \notin Ages)
        /\ \A k \in Callers : job[k].pc = "stamp" => BringsCreds(h) \/ a.disk = 0
        /\ a.disk \notin Ages /\ a.run # NoCert => replay[h] # <<>> \/ Has(s, RuleCmds)
    BY <1>1, <1>10 DEF FilesFit, a, s
  <2>4. BringsCreds(h)' \/ b.disk <= stamp \/ (Creating /\ b.disk \notin Ages)
    <3>1. CASE cmd = "creds"
      BY <1>1, <1>4, <3>1, CredNumbers
    <3>2. CASE cmd # "creds"
      BY <1>4, <1>6, <1>7, <1>10, <2>1, <2>2, <2>3, <3>2
    <3> QED
      BY <3>1, <3>2
  <2>5. ASSUME NEW k \in Callers, job[k].pc = "stamp" PROVE BringsCreds(h)' \/ b.disk = 0
    BY <1>4, <1>6, <1>7, <1>10, <2>1, <2>2, <2>3, <2>5
  <2>6. b.disk \notin Ages /\ b.run # NoCert => replay[h] # <<>> \/ Has(t, RuleCmds)
    BY <1>4, <1>6, <1>7, <1>8, <1>10, <2>3, CredNumbers
  <2>7. Creating' <=> Creating
    BY <1>2 DEF Creating
  <2> QED
    BY <1>2, <2>4, <2>5, <2>6, <2>7 DEF FilesFit, b, t
<1>12. WillRun(h)'
  <2> SUFFICES ASSUME Sound(h)', ruleOn, replay[h] = <<>>
               PROVE  \/ LastIs(t, RuleCmds, "apply")
                      \/ ~Has(t, RuleCmds) /\ (b.run # NoCert \/ b.retry.kind = "apply")
    BY <1>2 DEF WillRun, b, t
  <2>1. \/ LastIs(s, RuleCmds, "apply")
        \/ ~Has(s, RuleCmds) /\ (a.run # NoCert \/ a.retry.kind = "apply")
    BY <1>1, <1>10 DEF WillRun, a, s
  <2>2. a.disk \notin Ages /\ a.run # NoCert => Has(s, RuleCmds)
    BY <1>1, <1>10 DEF FilesFit, a, s
  <2> QED
    BY <1>4, <1>6, <1>7, <1>8, <1>10, <2>1, <2>2
<1>13. RunsFresh(h)'
  <2> SUFFICES ASSUME Sound(h)', ruleOn, \A k \in Callers : job[k].pc # "restart"
               PROVE  /\ replay[h] = <<>> => FreshIn(t, GoodDisk(h)', GoodRun(h)')
                      /\ replay[h] = <<"apply">> => GoodDisk(h)' \/ Has(t, {"creds"})
    BY <1>2 DEF RunsFresh, t
  <2> DEFINE gd == GoodDisk(h)
             gr == GoodRun(h)
             gd2 == b.disk <= stamp \/ b.disk \notin Ages
             gr2 == b.run <= stamp \/ b.run = NoCert
  <2>0. GoodDisk(h)' = gd2 /\ GoodRun(h)' = gr2
    BY <1>2 DEF GoodDisk, GoodRun, b
  <2>1. /\ replay[h] = <<>> => FreshIn(s, gd, gr)
        /\ replay[h] = <<"apply">> => gd \/ Has(s, {"creds"})
    BY <1>1, <1>10 DEF RunsFresh, s
  <2>2. (gd <=> a.disk <= stamp \/ a.disk \notin Ages) /\ (gr <=> a.run <= stamp \/ a.run = NoCert)
    BY DEF GoodDisk, GoodRun, a
  <2>3. /\ cmd = "creds" => gd2
        /\ cmd # "creds" => (gd <=> gd2)
        /\ cmd \in Starts /\ gd => gr2
        /\ cmd \notin Starts /\ gr => gr2
    <3>1. CASE cmd = "creds"
      BY <1>1, <1>4, <2>2, <3>1, CredNumbers DEF Starts
    <3>2. CASE cmd = "remove"
      BY <1>4, <2>2, <3>2 DEF Starts
    <3>3. CASE cmd \in {"apply", "restart"}
      BY <1>4, <1>8, <2>2, <3>3 DEF Starts
    <3> QED
      BY <1>7, <1>10, <3>1, <3>2, <3>3
  <2> HIDE DEF gd, gr, gd2, gr2
  <2>6. replay[h] = <<>> => FreshLeft(cmd, t, gd, gr)
    <3>1. FreshIn(s, gd, gr) => FreshLeft(Head(s), Tail(s), gd, gr)
      BY <1>1, FirstFresh
    <3> QED
      BY <1>2, <1>3, <2>1, <3>1
  <2>4. ASSUME replay[h] = <<>> PROVE FreshIn(t, gd2, gr2)
    <3>1. CASE cmd = "creds"
      <4>1. FreshIn(t, TRUE, gr)
        BY <2>4, <2>6, <3>1 DEF FreshLeft, Starts
      <4> QED
        BY <2>3, <3>1, <4>1, FreshMore DEF Starts
    <3>2. CASE cmd \in Starts
      <4>1. cmd # "creds"
        BY <3>2 DEF Starts
      <4>2. \/ ~Has(t, Starts) /\ gd
            \/ Has(t, Starts) /\ \A w \in BOOLEAN : FreshIn(t, gd, w)
        BY <2>4, <2>6, <3>2, <4>1 DEF FreshLeft
      <4>3. CASE ~Has(t, Starts) /\ gd
        BY <2>3, <3>2, <4>3 DEF FreshIn
      <4>4. CASE Has(t, Starts) /\ \A w \in BOOLEAN : FreshIn(t, gd, w)
        <5>1. FreshIn(t, gd, TRUE)
          BY <4>4
        <5> QED
          BY <2>3, <4>1, <4>4, <5>1 DEF FreshIn
      <4> QED
        BY <4>2, <4>3, <4>4
    <3>3. CASE cmd # "creds" /\ cmd \notin Starts
      <4>1. FreshIn(t, gd, gr)
        BY <2>4, <2>6, <3>3 DEF FreshLeft
      <4> QED
        BY <2>3, <3>3, <4>1, FreshMore
    <3> QED
      BY <3>1, <3>2, <3>3
  <2>5. replay[h] = <<"apply">> => gd2 \/ Has(t, {"creds"})
    BY <1>6, <2>1, <2>3
  <2> QED
    BY <2>0, <2>4, <2>5
<1>14. KeysGo(h)'
  <2> SUFFICES ASSUME tunnel = "deleted", "kept" \notin mishap[h], job["api"].pc # "revoke"
               PROVE  LastIs(t, FileCmds, "revoke") \/ (~Has(t, FileCmds) /\ b.disk = NoCert)
    BY <1>1, <1>2 DEF KeysGo, b, t
  <2>1. LastIs(s, FileCmds, "revoke") \/ (~Has(s, FileCmds) /\ a.disk = NoCert)
    BY <1>1 DEF KeysGo, a, s
  <2> QED
    BY <1>4, <1>6, <1>7, <2>1
<1> QED
  BY <1>4, <1>9, <1>11, <1>12, <1>13, <1>14 DEF HopInv, b

\* Storing the certificates fails.
LEMMA StoreFailsKeeps ==
    ASSUME CredInv, NEW h \in Hops, StoreFails(h)
    PROVE  HopInv(h)' /\ hop'[h] \in HopRows
<1> DEFINE s == channel[h]
           t == channel'[h]
<1>1. /\ OnTheWay(h) /\ KeysGo(h) /\ hop[h] \in HopRows /\ (ruleOn => tunnel = "active")
      /\ s \in Seq(AgentCmds) /\ s # <<>> /\ Head(s) = "creds"
  BY HopHas DEF StoreFails
<1>2. /\ t = Tail(s) /\ hop[h].conn /\ UNCHANGED <<tunnel, stamp, ruleOn, job>> /\ replay'[h] = replay[h]
      /\ mishap'[h] = mishap[h] \cup {"wrong"}
      /\ hop'[h] \in HopRows /\ hop'[h].conn /\ hop'[h].run = hop[h].run /\ hop'[h].retry = hop[h].retry
  <2>1. PICK d \in {hop[h].disk, Torn} : hop'[h] = [hop[h] EXCEPT !.disk = d]
    BY DEF StoreFails, CredInv, HopTypes
  <2>2. /\ hop'[h] \in HopRows /\ hop'[h].conn = hop[h].conn /\ hop'[h].run = hop[h].run
        /\ hop'[h].retry = hop[h].retry
    BY <1>1, <2>1 DEF HopRows
  <2> QED
    BY <2>2 DEF StoreFails, CredInv, HopTypes
<1> HIDE DEF s, t
<1>3. /\ Has(s, {"revoke"}) <=> Has(t, {"revoke"})
      /\ Has(s, {"creds", "apply", "restart"}) /\ Has(s, FileCmds)
      /\ LastIs(s, FileCmds, "revoke") <=> LastIs(t, FileCmds, "revoke")
  <2>1. \A K : Has(s, K) <=> "creds" \in K \/ Has(t, K)
    BY <1>1, <1>2, FirstHas
  <2>2. LastIs(s, FileCmds, "revoke") <=> LastIs(t, FileCmds, "revoke")
    BY <1>1, <1>2, FirstLast
  <2> QED
    BY <2>1, <2>2 DEF FileCmds
<1>4. OnTheWay(h)'
  BY <1>1, <1>2, <1>3 DEF OnTheWay, s, t
<1>5. ~Sound(h)'
  BY <1>2 DEF Sound
<1>6. KeysGo(h)'
  BY <1>1, <1>2, <1>3 DEF KeysGo, s, t
<1> QED
  BY <1>2, <1>4, <1>5, <1>6 DEF HopInv, FilesFit, WillRun, RunsFresh

\* A failed command is tried again: by then the files are there.
LEMMA RetryKeeps ==
    ASSUME CredInv, NEW h \in Hops, Retry(h)
    PROVE  HopInv(h)' /\ hop'[h] \in HopRows
<1> DEFINE a == hop[h]
           b == hop'[h]
<1>1. /\ OnTheWay(h) /\ FilesFit(h) /\ WillRun(h) /\ RunsFresh(h) /\ KeysGo(h)
      /\ a \in HopRows /\ stamp \in Ages
  BY HopHas
<1>2. /\ UNCHANGED <<tunnel, stamp, ruleOn, job>> /\ channel[h] = <<>> /\ replay[h] = <<>>
      /\ channel'[h] = <<>> /\ replay'[h] = <<>> /\ mishap'[h] = mishap[h]
      /\ a.retry.kind # "none" /\ \A k \in Callers : job[k].pc = "idle"
  BY DEF Retry
<1>3. b = IF a.retry.kind = "apply" THEN Started(a, "apply", a.retry.left - 1)
          ELSE [a EXCEPT !.retry = NoRetry, !.saved = FALSE]
  <2>1. hop \in [Hops -> HopRows]
    BY DEF CredInv, HopTypes
  <2> QED
    BY <1>1, <2>1 DEF Retry, HopRows
<1>4. a.run = NoCert /\ a.conn
  BY <1>1, <1>2 DEF OnTheWay
<1> HIDE DEF a, b
<1>5. /\ b \in HopRows /\ b.conn = a.conn /\ b.disk = a.disk
      /\ a.retry.kind = "apply" => b.run = Load(a.disk)
      /\ a.retry.kind # "apply" => b.run = NoCert
      /\ b.retry.kind # "none" => b.run = NoCert
  <2>1. CASE a.retry.kind = "apply"
    <3>1. a.retry.left \in 0..MaxRetries
      BY <1>1 DEF HopRows
    <3>2. a.retry.left - 1 > 0 => a.retry.left - 1 \in 0..MaxRetries
      BY <3>1, CredNumbers
    <3>3. "apply" \in {"apply", "restart"} /\ b = Started(a, "apply", a.retry.left - 1)
      BY <1>3, <2>1
    <3> QED
      BY <1>1, <2>1, <3>2, <3>3, StartedIs
  <2>2. CASE a.retry.kind # "apply"
    BY <1>1, <1>3, <1>4, <2>2, CredNumbers DEF HopRows
  <2> QED
    BY <2>1, <2>2
<1>6. OnTheWay(h)'
  <2>1. tunnel = "none" => a.disk = NoCert /\ b.disk = NoCert /\ b.run = NoCert
    BY <1>1, <1>5, CredNumbers DEF OnTheWay, Load, a
  <2>2. b.conn
    BY <1>4, <1>5
  <2> QED
    BY <1>2, <1>1, <1>5, <2>1, <2>2, EmptyCmds DEF OnTheWay, b
<1>7. Sound(h)' => Sound(h)
  BY <1>2, <1>5 DEF Sound, a, b
<1>8. Sound(h) => a.disk <= stamp /\ a.disk \in Ages
  <2>1. Sound(h) => a.disk <= stamp
    BY <1>1, <1>2, EmptyCmds DEF FilesFit, BringsCreds, Creating, Callers, a
  <2> QED
    BY <1>1, <2>1, CredNumbers DEF HopRows, NoCert, Torn
<1>9. FilesFit(h)'
  BY <1>2, <1>5, <1>7, <1>8 DEF FilesFit, a, b
<1>10. WillRun(h)'
  <2> SUFFICES ASSUME Sound(h)', ruleOn PROVE WillRun(h)'
    BY <1>2 DEF WillRun
  <2>1. a.retry.kind = "apply"
    BY <1>1, <1>2, <1>4, <1>7, EmptyCmds DEF WillRun, a
  <2>2. b.run # NoCert
    BY <1>5, <1>7, <1>8, <2>1, CredNumbers DEF Load
  <2> QED
    BY <1>2, <2>2, EmptyCmds DEF WillRun, b
<1>11. RunsFresh(h)'
  <2> SUFFICES ASSUME Sound(h)' PROVE RunsFresh(h)'
    BY DEF RunsFresh
  <2>1. GoodRun(h)'
    BY <1>2, <1>5, <1>7, <1>8 DEF GoodRun, Load, b
  <2>2. FreshIn(<<>>, GoodDisk(h)', GoodRun(h)')
    BY <2>1, EmptyCmds DEF FreshIn
  <2>3. <<>> # <<"apply">>
    OBVIOUS
  <2> QED
    BY <1>2, <2>2, <2>3 DEF RunsFresh
<1>12. KeysGo(h)'
  BY <1>1, <1>2, <1>5 DEF KeysGo, a, b
<1> QED
  BY <1>5, <1>6, <1>9, <1>10, <1>11, <1>12 DEF HopInv, b

\* The agent goes, with what was on its way.
LEMMA GoneKeeps ==
    ASSUME CredInv, NEW h \in Hops, Disconnect(h) \/ Crash(h)
    PROVE  HopInv(h)' /\ hop'[h] \in HopRows
<1>1. /\ OnTheWay(h) /\ KeysGo(h) /\ hop[h] \in HopRows /\ channel[h] \in Seq(AgentCmds)
  BY HopHas
<1>2. /\ UNCHANGED <<tunnel, stamp, ruleOn, job>> /\ channel'[h] = <<>> /\ replay'[h] = <<>>
      /\ mishap'[h] = IF Contains(channel[h], "revoke") THEN {"kept"} ELSE mishap[h] \cap {"kept"}
  BY DEF Disconnect, Crash, Lost, CredInv, HopTypes
<1>3. /\ hop'[h] \in HopRows /\ ~hop'[h].conn /\ hop'[h].retry.kind = "none"
      /\ ~Has(channel[h], {"creds"}) => hop'[h].disk = hop[h].disk
      /\ \/ hop'[h].run = hop[h].run
         \/ hop'[h].run = NoCert
         \/ hop'[h].run = Load(hop'[h].disk)
  <2>1. CASE Disconnect(h)
    <3>1. hop'[h] = [hop[h] EXCEPT !.conn = FALSE, !.retry = NoRetry]
      BY <2>1 DEF Disconnect, CredInv, HopTypes
    <3> QED
      BY <1>1, <3>1, CredNumbers DEF HopRows
  <2>2. CASE Crash(h)
    <3>1. PICK disk \in {hop[h].disk, Torn} :
             /\ hop'[h] = [hop[h] EXCEPT !.conn = FALSE, !.retry = NoRetry, !.disk = disk,
                                         !.run = IF hop[h].saved THEN Load(disk) ELSE NoCert]
             /\ disk # hop[h].disk => channel[h] # <<>> /\ Head(channel[h]) = "creds"
      BY <2>2 DEF Crash, CredInv, HopTypes
    <3>2. Load(disk) \in Ages \cup {NoCert}
      BY DEF Load
    <3>3. channel[h] # <<>> /\ Head(channel[h]) = "creds" => Has(channel[h], {"creds"})
      BY <1>1, FirstHas
    <3> QED
      BY <1>1, <3>1, <3>2, <3>3, CredNumbers DEF HopRows
  <2> QED
    BY <2>1, <2>2
<1>4. OnTheWay(h)'
  <2>1. tunnel = "none" => ~Has(channel[h], {"creds"})
    BY <1>1 DEF OnTheWay, Has
  <2>2. tunnel = "none" => hop'[h].disk = NoCert /\ hop'[h].run = NoCert
    BY <1>1, <1>3, <2>1, CredNumbers DEF OnTheWay, Load
  <2> QED
    BY <1>2, <1>3, <2>2, EmptyCmds DEF OnTheWay
<1>5. ~Sound(h)'
  BY <1>3 DEF Sound
<1>6. KeysGo(h)'
  <2> SUFFICES ASSUME tunnel = "deleted", "kept" \notin mishap'[h], job["api"].pc # "revoke" PROVE KeysGo(h)'
    BY <1>2 DEF KeysGo
  <2>1. ~Contains(channel[h], "revoke") /\ "kept" \notin mishap[h]
    BY <1>2
  <2>2. ~LastIs(channel[h], FileCmds, "revoke")
    BY <2>1 DEF LastIs, Contains
  <2>3. ~Has(channel[h], FileCmds) /\ hop[h].disk = NoCert
    BY <1>1, <2>1, <2>2 DEF KeysGo
  <2>4. ~Has(channel[h], {"creds"})
    BY <2>3 DEF Has, FileCmds
  <2>5. \A k \in Callers : job[k].pc = "creds" => h \notin job[k].hops
    BY <1>1, <2>1 DEF KeysGo
  <2> QED
    BY <1>2, <1>3, <2>3, <2>4, <2>5, EmptyCmds DEF KeysGo
<1> QED
  BY <1>3, <1>4, <1>5, <1>6 DEF HopInv, FilesFit, WillRun, RunsFresh

\* The agent comes back, and the replay for it is drawn up.
LEMMA ConnectKeeps ==
    ASSUME CredInv, NEW h \in Hops, Connect(h)
    PROVE  HopInv(h)' /\ hop'[h] \in HopRows
<1>1. /\ OnTheWay(h) /\ KeysGo(h) /\ hop[h] \in HopRows /\ channel[h] \in Seq(AgentCmds)
      /\ tunnel \in {"none", "active", "deleted"} /\ (ruleOn => tunnel = "active")
  BY HopHas
<1>2. /\ UNCHANGED <<tunnel, stamp, ruleOn, job>> /\ channel'[h] = <<>> /\ channel[h] = <<>>
      /\ mishap'[h] = mishap[h] /\ hop[h].retry.kind = "none"
  BY <1>1 DEF Connect, OnTheWay
<1>3. hop'[h] = [hop[h] EXCEPT !.conn = TRUE]
  BY DEF Connect, CredInv, HopTypes
<1>4. /\ hop'[h] \in HopRows /\ hop'[h].conn /\ hop'[h].retry = hop[h].retry
      /\ hop'[h].disk = hop[h].disk /\ hop'[h].run = hop[h].run
  BY <1>1, <1>3 DEF HopRows
<1>5. replay'[h] = (IF tunnel = "active" THEN <<"creds">> ELSE <<>>)
                   \o (IF ruleOn THEN <<"apply">> ELSE <<"remove">>)
  BY DEF Connect, CredInv, HopTypes
<1>6. /\ tunnel = "active" /\ ruleOn => replay'[h] = <<"creds", "apply">>
      /\ tunnel = "active" /\ ~ruleOn => replay'[h] = <<"creds", "remove">>
      /\ tunnel # "active" => replay'[h] = <<"remove">>
  <2>1. /\ <<"creds">> \o <<"apply">> = <<"creds", "apply">>
        /\ <<"creds">> \o <<"remove">> = <<"creds", "remove">>
        /\ <<>> \o <<"remove">> = <<"remove">>
    <3>1. ASSUME NEW x \in AgentCmds PROVE <<"creds">> \o <<x>> = <<"creds", x>>
      <4>1. <<"creds">> \in Seq(AgentCmds) /\ <<x>> \in Seq(AgentCmds)
        BY DEF AgentCmds
      <4> DEFINE s == <<"creds">> \o <<x>>
      <4>2. s \in Seq(AgentCmds) /\ Len(s) = 2 /\ s[1] = "creds" /\ s[2] = x
        BY <4>1
      <4> HIDE DEF s
      <4>3. s = <<"creds", x>>
        BY <4>2
      <4> QED
        BY <4>3 DEF s
    <3>2. <<>> \o <<"remove">> = <<"remove">>
      <4>1. <<>> \in Seq(AgentCmds) /\ <<"remove">> \in Seq(AgentCmds)
        BY DEF AgentCmds
      <4> DEFINE s == <<>> \o <<"remove">>
      <4>2. s \in Seq(AgentCmds) /\ Len(s) = 1 /\ s[1] = "remove"
        BY <4>1
      <4> HIDE DEF s
      <4>3. s = <<"remove">>
        BY <4>2
      <4> QED
        BY <4>3 DEF s
    <3> QED
      BY <3>1, <3>2 DEF AgentCmds
  <2> QED
    BY <1>1, <1>5, <2>1
<1>7. OnTheWay(h)'
  BY <1>1, <1>2, <1>4, <1>6, EmptyCmds DEF OnTheWay
<1>8. /\ <<"creds", "apply">> # <<>> /\ <<"creds", "apply">> # <<"apply">>
      /\ <<"creds", "remove">> # <<>> /\ <<"remove">> # <<>>
      /\ <<"remove">> \notin {<<"creds", "apply">>, <<"creds", "remove">>}
  OBVIOUS
<1>9. FilesFit(h)'
  BY <1>2, <1>6, <1>8 DEF FilesFit, Sound, BringsCreds
<1>10. WillRun(h)' /\ RunsFresh(h)'
  BY <1>2, <1>6, <1>8 DEF WillRun, RunsFresh, Sound
<1>11. KeysGo(h)'
  BY <1>1, <1>2, <1>4, <1>6, <1>8 DEF KeysGo
<1> QED
  BY <1>4, <1>7, <1>9, <1>10, <1>11 DEF HopInv

\* One command of the replay.
LEMMA ReplaySendKeeps ==
    ASSUME CredInv, NEW h \in Hops, ReplaySend(h)
    PROVE  HopInv(h)' /\ replay'[h] \in Seq(AgentCmds)
<1> DEFINE q == channel[h]
           q2 == channel'[h]
<1>1. /\ OnTheWay(h) /\ FilesFit(h) /\ WillRun(h) /\ RunsFresh(h) /\ KeysGo(h)
      /\ q \in Seq(AgentCmds) /\ (ruleOn => tunnel = "active")
      /\ tunnel \in {"none", "active", "deleted"}
  BY HopHas
<1>2. /\ UNCHANGED <<hop, tunnel, stamp, ruleOn, job, mishap>> /\ hop[h].conn
      /\ q2 = Append(q, Head(replay[h])) /\ replay'[h] = Tail(replay[h]) /\ replay[h] # <<>>
  BY DEF ReplaySend, Takes, CredInv, HopTypes
<1> HIDE DEF q, q2
<1>3. \/ ruleOn /\ tunnel = "active" /\ replay[h] = <<"creds", "apply">> /\ replay'[h] = <<"apply">> /\ q2 = Append(q, "creds")
      \/ ~ruleOn /\ tunnel # "none" /\ replay[h] = <<"creds", "remove">> /\ replay'[h] = <<"remove">> /\ q2 = Append(q, "creds")
      \/ ruleOn /\ tunnel = "active" /\ replay[h] = <<"apply">> /\ replay'[h] = <<>> /\ q2 = Append(q, "apply")
      \/ ~ruleOn /\ replay[h] = <<"remove">> /\ replay'[h] = <<>> /\ q2 = Append(q, "remove")
  <2>1. replay[h] \in {<<"apply">>, <<"creds", "apply">>, <<"remove">>, <<"creds", "remove">>}
        /\ (replay[h] \in {<<"creds", "apply">>, <<"creds", "remove">>} => tunnel # "none")
        /\ (ruleOn => replay[h] \in {<<"apply">>, <<"creds", "apply">>})
        /\ (~ruleOn => replay[h] \in {<<"remove">>, <<"creds", "remove">>})
    BY <1>1, <1>2 DEF OnTheWay
  <2>2. /\ Head(<<"creds", "apply">>) = "creds" /\ Tail(<<"creds", "apply">>) = <<"apply">>
        /\ Head(<<"creds", "remove">>) = "creds" /\ Tail(<<"creds", "remove">>) = <<"remove">>
        /\ Head(<<"apply">>) = "apply" /\ Tail(<<"apply">>) = <<>>
        /\ Head(<<"remove">>) = "remove" /\ Tail(<<"remove">>) = <<>>
    OBVIOUS
  <2> QED
    BY <1>1, <1>2, <2>1, <2>2
<1>4. /\ <<"creds", "apply">> # <<"apply">> /\ <<"creds", "apply">> # <<>>
      /\ <<"remove">> # <<"apply">> /\ <<"creds", "remove">> # <<>> /\ <<"apply">> # <<>> /\ <<"remove">> # <<>>
      /\ \A x \in {<<"creds", "apply">>, <<"creds", "remove">>} : x \notin {<<>>, <<"apply">>, <<"remove">>}
  OBVIOUS
<1>5. PICK c \in {"creds", "apply", "remove"} : q2 = Append(q, c) /\ (c = "creds" => tunnel # "none") /\ (c = "apply" => ruleOn)
  BY <1>3
<1>6. c \in AgentCmds /\ "apply" \in RuleCmds /\ "remove" \in RuleCmds /\ "creds" \notin RuleCmds
      /\ "apply" \in Starts /\ "remove" \notin FileCmds /\ "revoke" \in FileCmds
  BY <1>5 DEF AgentCmds, RuleCmds, Starts, FileCmds
<1>7. \A K : Has(q2, K) <=> Has(q, K) \/ c \in K
  BY <1>1, <1>5, <1>6, AppendedHas
<1>8. replay'[h] \in {<<>>, <<"apply">>, <<"remove">>}
  BY <1>3
<1>9. OnTheWay(h)'
  <2>1. (tunnel # "deleted" => ~Has(q2, {"revoke"})) /\ (tunnel = "none" => ~Has(q2, {"creds", "apply", "restart"}))
    BY <1>1, <1>5, <1>7 DEF OnTheWay, q
  <2>2. (ruleOn => replay'[h] \in {<<>>, <<"apply">>}) /\ (~ruleOn => replay'[h] \in {<<>>, <<"remove">>})
    BY <1>3
  <2> QED
    BY <1>1, <1>2, <2>1, <2>2 DEF OnTheWay, q2
<1>10. FilesFit(h)'
  <2>1. Sound(h)' <=> Sound(h)
    BY <1>2 DEF Sound
  <2>2. BringsCreds(h) => BringsCreds(h)'
    <3>1. Has(q, {"creds"}) => Has(q2, {"creds"})
      BY <1>7
    <3>2. replay[h] \in {<<"creds", "apply">>, <<"creds", "remove">>} => c = "creds" \/ Has(q2, {"creds"})
      <4>1. replay[h] \in {<<"creds", "apply">>, <<"creds", "remove">>} => q2 = Append(q, "creds")
        BY <1>3, <1>4
      <4>2. "creds" \in AgentCmds
        BY DEF AgentCmds
      <4>3. q2 = Append(q, "creds") => Has(q2, {"creds"})
        BY <1>1, <4>2, AppendedHas
      <4> QED
        BY <4>1, <4>3
    <3>3. c = "creds" => Has(q2, {"creds"})
      BY <1>7
    <3> QED
      BY <3>1, <3>2, <3>3 DEF BringsCreds, q, q2
  <2>3. Has(q, RuleCmds) => Has(q2, RuleCmds)
    BY <1>7
  <2>4. replay'[h] = <<>> => Has(q2, RuleCmds)
    <3>1. replay'[h] = <<>> => q2 = Append(q, "apply") \/ q2 = Append(q, "remove")
      BY <1>3, <1>4
    <3>2. "apply" \in AgentCmds /\ "remove" \in AgentCmds
      BY DEF AgentCmds
    <3>3. q2 = Append(q, "apply") => Has(q2, RuleCmds)
      BY <1>1, <1>6, <3>2, AppendedHas
    <3>4. q2 = Append(q, "remove") => Has(q2, RuleCmds)
      BY <1>1, <1>6, <3>2, AppendedHas
    <3> QED
      BY <3>1, <3>3, <3>4
  <2>5. Creating' <=> Creating
    BY <1>2 DEF Creating
  <2> QED
    BY <1>1, <1>2, <2>1, <2>2, <2>3, <2>4, <2>5 DEF FilesFit, q, q2
<1>11. WillRun(h)'
  <2> SUFFICES ASSUME ruleOn, replay'[h] = <<>> PROVE LastIs(q2, RuleCmds, "apply")
    BY <1>2 DEF WillRun, q2
  <2>1. q2 = Append(q, "apply") /\ "apply" \in AgentCmds
    BY <1>3, <1>4 DEF AgentCmds
  <2> QED
    BY <1>1, <1>6, <2>1, AppendedLast
<1>12. RunsFresh(h)'
  <2> SUFFICES ASSUME Sound(h), ruleOn, \A k \in Callers : job[k].pc # "restart" PROVE RunsFresh(h)'
    BY <1>2 DEF RunsFresh, Sound
  <2>1. GoodDisk(h)' = GoodDisk(h) /\ GoodRun(h)' = GoodRun(h)
    BY <1>2 DEF GoodDisk, GoodRun
  <2>2. "creds" \in AgentCmds /\ "apply" \in AgentCmds
    BY DEF AgentCmds
  <2>3. CASE replay[h] = <<"creds", "apply">>
    <3>1. replay'[h] = <<"apply">> /\ q2 = Append(q, "creds")
      BY <1>3, <1>4, <2>3
    <3>2. Has(q2, {"creds"})
      BY <1>1, <2>2, <3>1, AppendedHas
    <3> QED
      BY <1>4, <3>1, <3>2 DEF RunsFresh, q2
  <2>4. CASE replay[h] = <<"apply">>
    <3>1. replay'[h] = <<>> /\ q2 = Append(q, "apply")
      BY <1>3, <1>4, <2>4
    <3>2. GoodDisk(h) \/ Has(q, {"creds"})
      BY <1>1, <2>4 DEF RunsFresh, q
    <3>3. FreshIn(q2, GoodDisk(h), GoodRun(h))
      BY <1>1, <1>6, <2>2, <3>1, <3>2, AppendedFresh
    <3> QED
      BY <1>4, <2>1, <3>1, <3>3 DEF RunsFresh, q2
  <2> QED
    BY <1>3, <2>3, <2>4
<1>13. KeysGo(h)'
  <2> SUFFICES ASSUME tunnel = "deleted", "kept" \notin mishap[h], job["api"].pc # "revoke" PROVE KeysGo(h)'
    BY <1>2 DEF KeysGo
  <2>1. /\ replay[h] \notin {<<"creds", "apply">>, <<"creds", "remove">>}
        /\ \A k \in Callers : job[k].pc = "creds" => h \notin job[k].hops
        /\ LastIs(q, FileCmds, "revoke") \/ (~Has(q, FileCmds) /\ hop[h].disk = NoCert)
    BY <1>1 DEF KeysGo, q
  <2>2. q2 = Append(q, "remove") /\ replay'[h] = <<>> /\ "remove" \in AgentCmds
    BY <1>1, <1>3, <2>1 DEF AgentCmds
  <2>3. Has(q2, FileCmds) <=> Has(q, FileCmds)
    BY <1>1, <1>6, <2>2, AppendedHas
  <2>4. LastIs(q2, FileCmds, "revoke") <=> LastIs(q, FileCmds, "revoke")
    BY <1>1, <1>6, <2>2, AppendedLast
  <2> QED
    BY <1>2, <1>4, <2>1, <2>2, <2>3, <2>4 DEF KeysGo, q2
<1>14. <<>> \in Seq(AgentCmds) /\ <<"apply">> \in Seq(AgentCmds) /\ <<"remove">> \in Seq(AgentCmds)
  BY DEF AgentCmds
<1> QED
  BY <1>8, <1>9, <1>10, <1>11, <1>12, <1>13, <1>14 DEF HopInv

\* A day passes: the time noted and the certificates age together.
LEMMA TickKeeps ==
    ASSUME CredInv, NEW h \in Hops, Tick
    PROVE  HopInv(h)' /\ hop'[h] \in HopRows
<1> DEFINE a == hop[h]
           b == hop'[h]
<1>1. /\ OnTheWay(h) /\ FilesFit(h) /\ WillRun(h) /\ RunsFresh(h) /\ KeysGo(h)
      /\ a \in HopRows /\ stamp \in Ages
  BY HopHas
<1>2. /\ UNCHANGED <<tunnel, ruleOn, job, channel, replay, mishap>> /\ channel[h] = <<>> /\ replay[h] = <<>>
      /\ stamp' = Older(stamp) /\ \A k \in Callers : job[k].pc = "idle"
  BY DEF Tick, Quiet
<1>3. b = [a EXCEPT !.disk = Older(a.disk), !.run = Older(a.run)]
  BY <1>1 DEF Tick, HopRows
<1>4. /\ stamp \in 0..Validity /\ a.disk \in 0..(Validity + 2) /\ a.run \in 0..(Validity + 1)
      /\ a.conn \in BOOLEAN
  BY <1>1, CredNumbers DEF HopRows, NoCert, Torn
<1>5. /\ Older(a.disk) \in Ages \cup {NoCert, Torn} /\ (Older(a.disk) \in Ages <=> a.disk \in Ages)
      /\ (Older(a.disk) = NoCert <=> a.disk = NoCert)
      /\ Older(a.run) \in Ages \cup {NoCert} /\ (Older(a.run) = NoCert <=> a.run = NoCert)
      /\ (a.disk <= stamp => Older(a.disk) <= Older(stamp))
      /\ (a.run <= stamp => Older(a.run) <= Older(stamp))
  BY <1>1, <1>4, CredNumbers DEF HopRows, Older, NoCert, Torn
<1>6. /\ b \in HopRows /\ b.conn = a.conn /\ b.retry = a.retry /\ b.disk = Older(a.disk) /\ b.run = Older(a.run)
  BY <1>1, <1>3, <1>5 DEF HopRows
<1> HIDE DEF a, b
<1>7. OnTheWay(h)'
  BY <1>1, <1>2, <1>5, <1>6, EmptyCmds DEF OnTheWay, a, b
<1>8. Sound(h)' <=> Sound(h)
  BY <1>2, <1>6 DEF Sound, a, b
<1>9. Sound(h) => a.disk <= stamp
  BY <1>1, <1>2, EmptyCmds DEF FilesFit, BringsCreds, Creating, Callers, a
<1>10. Sound(h) => a.disk \in Ages
  BY <1>4, <1>1, <1>9, CredNumbers DEF HopRows, NoCert, Torn
<1>11. FilesFit(h)'
  BY <1>2, <1>5, <1>6, <1>8, <1>9, <1>10 DEF FilesFit, b
<1>12. WillRun(h)'
  BY <1>1, <1>2, <1>5, <1>6, <1>8 DEF WillRun, a, b
<1>13. RunsFresh(h)'
  <2> SUFFICES ASSUME Sound(h), ruleOn PROVE RunsFresh(h)'
    BY <1>2, <1>8 DEF RunsFresh
  <2>1. \A k \in Callers : job[k].pc # "restart"
    BY <1>2
  <2>2. GoodRun(h)
    BY <1>1, <1>2, <2>1, EmptyCmds DEF RunsFresh
  <2>3. GoodRun(h)'
    BY <1>2, <1>5, <1>6, <2>2 DEF GoodRun, a, b
  <2>4. FreshIn(<<>>, GoodDisk(h)', GoodRun(h)')
    BY <2>3, EmptyCmds DEF FreshIn
  <2>5. <<>> # <<"apply">>
    OBVIOUS
  <2> QED
    BY <1>2, <2>4, <2>5 DEF RunsFresh
<1>14. KeysGo(h)'
  BY <1>1, <1>2, <1>5, <1>6 DEF KeysGo, a, b
<1> QED
  BY <1>6, <1>7, <1>11, <1>12, <1>13, <1>14 DEF HopInv, b

\* A hop that a step leaves alone.
LEMMA HopStays ==
    ASSUME CredInv, NEW h \in Hops, UNCHANGED <<tunnel, stamp, ruleOn, job>>,
           hop'[h] = hop[h], channel'[h] = channel[h], replay'[h] = replay[h], mishap'[h] = mishap[h]
    PROVE  HopInv(h)'
<1>1. OnTheWay(h) /\ FilesFit(h) /\ WillRun(h) /\ RunsFresh(h) /\ KeysGo(h)
  BY HopHas
<1>2. OnTheWay(h)'
  BY <1>1 DEF OnTheWay
<1>3. FilesFit(h)'
  BY <1>1 DEF FilesFit, Sound, BringsCreds, Creating
<1>4. WillRun(h)'
  BY <1>1 DEF WillRun, Sound
<1>5. GoodDisk(h)' = GoodDisk(h) /\ GoodRun(h)' = GoodRun(h)
  BY DEF GoodDisk, GoodRun
<1>6. RunsFresh(h)'
  BY <1>1, <1>5 DEF RunsFresh, Sound
<1>7. KeysGo(h)'
  BY <1>1 DEF KeysGo
<1> QED
  BY <1>2, <1>3, <1>4, <1>6, <1>7 DEF HopInv

\* A step of the agent of hop g.
AgentStep(g) ==
    \/ Receive(g) \/ StoreFails(g) \/ Retry(g) \/ Disconnect(g) \/ Crash(g) \/ Connect(g) \/ ReplaySend(g)

LEMMA AgentStepKeeps ==
    ASSUME CredInv, NEW g \in Hops, AgentStep(g)
    PROVE  HopTypes' /\ \A h \in Hops : HopInv(h)'
<1>1. UNCHANGED <<tunnel, stamp, ruleOn, job>>
  BY DEF AgentStep, Receive, StoreFails, Retry, Disconnect, Crash, Connect, ReplaySend, Lost
<1>2. HopInv(g)' /\ hop'[g] \in HopRows
  <2>1. hop[g] \in HopRows
    BY HopHas
  <2> QED
    BY <2>1, ReceiveKeeps, StoreFailsKeeps, RetryKeeps, GoneKeeps, ConnectKeeps, ReplaySendKeeps
       DEF AgentStep, ReplaySend
<1>3. /\ hop \in [Hops -> HopRows] /\ mishap \in [Hops -> SUBSET {"wrong", "kept"}]
      /\ channel \in [Hops -> Seq(AgentCmds)] /\ replay \in [Hops -> Seq(AgentCmds)]
  BY DEF CredInv, HopTypes
<1>4. /\ hop' = [hop EXCEPT ![g] = hop'[g]]
      /\ mishap' = [mishap EXCEPT ![g] = mishap'[g]] /\ mishap'[g] \in SUBSET {"wrong", "kept"}
  <2>1. CASE Receive(g) \/ Retry(g) \/ Connect(g) \/ ReplaySend(g)
    BY <1>3, <2>1 DEF Receive, Retry, Connect, ReplaySend
  <2>2. CASE StoreFails(g)
    <3>1. \E d \in {hop[g].disk, Torn} : hop' = [hop EXCEPT ![g].disk = d]
      BY <2>2 DEF StoreFails
    <3>2. hop' = [hop EXCEPT ![g] = hop'[g]]
      BY <1>3, <3>1
    <3> QED
      BY <1>3, <2>2, <3>2 DEF StoreFails
  <2>3. CASE Disconnect(g) \/ Crash(g)
    <3>1. hop' = [hop EXCEPT ![g] = hop'[g]]
      BY <1>3, <2>3 DEF Disconnect, Crash
    <3>2. mishap' = [mishap EXCEPT ![g] = IF Contains(channel[g], "revoke") THEN {"kept"} ELSE mishap[g] \cap {"kept"}]
      BY <1>3, <2>3 DEF Disconnect, Crash, Lost
    <3> QED
      BY <1>3, <3>1, <3>2
  <2> QED
    BY <2>1, <2>2, <2>3 DEF AgentStep
<1>5. /\ channel' = [channel EXCEPT ![g] = channel'[g]]
      /\ replay' = [replay EXCEPT ![g] = replay'[g]]
  BY <1>3 DEF AgentStep, Receive, StoreFails, Retry, Disconnect, Crash, Connect, ReplaySend, Lost
<1>6. channel'[g] \in Seq(AgentCmds) /\ replay'[g] \in Seq(AgentCmds)
  <2>0. channel[g] \in Seq(AgentCmds) /\ replay[g] \in Seq(AgentCmds) /\ <<>> \in Seq(AgentCmds)
    BY <1>3
  <2>1. CASE Receive(g) \/ StoreFails(g)
    <3>1. channel[g] # <<>> /\ channel'[g] = Tail(channel[g]) /\ replay'[g] = replay[g]
      BY <1>3, <2>1 DEF Receive, StoreFails
    <3> QED
      BY <2>0, <3>1
  <2>2. CASE Retry(g)
    BY <2>0, <2>2 DEF Retry
  <2>3. CASE Disconnect(g) \/ Crash(g)
    BY <1>3, <2>0, <2>3 DEF Disconnect, Crash, Lost
  <2>4. CASE Connect(g)
    <3>1. channel'[g] = channel[g]
      BY <2>4 DEF Connect
    <3>2. replay'[g] = (IF tunnel = "active" THEN <<"creds">> ELSE <<>>)
                        \o (IF ruleOn THEN <<"apply">> ELSE <<"remove">>)
      BY <1>3, <2>4 DEF Connect
    <3> DEFINE x == IF tunnel = "active" THEN <<"creds">> ELSE <<>>
               y == IF ruleOn THEN <<"apply">> ELSE <<"remove">>
    <3>3. x \in Seq(AgentCmds) /\ y \in Seq(AgentCmds)
      <4>1. <<"creds">> \in Seq(AgentCmds) /\ <<"apply">> \in Seq(AgentCmds) /\ <<"remove">> \in Seq(AgentCmds)
        BY DEF AgentCmds
      <4> QED
        BY <2>0, <4>1
    <3> HIDE DEF x, y
    <3>4. x \o y \in Seq(AgentCmds)
      BY <3>3
    <3> QED
      BY <2>0, <3>1, <3>2, <3>4 DEF x, y
  <2>5. CASE ReplaySend(g)
    <3>1. channel'[g] = Append(channel[g], Head(replay[g])) /\ replay[g] # <<>> /\ replay'[g] = Tail(replay[g])
      BY <1>3, <2>5 DEF ReplaySend
    <3> QED
      BY <2>0, <3>1
  <2> QED
    BY <2>1, <2>2, <2>3, <2>4, <2>5 DEF AgentStep
<1> HIDE DEF AgentStep
<1>7. HopTypes'
  BY <1>2, <1>3, <1>4, <1>5, <1>6 DEF HopTypes
<1>8. ASSUME NEW h \in Hops PROVE HopInv(h)'
  <2>1. CASE h = g
    BY <1>2, <2>1
  <2>2. CASE h # g
    <3>1. /\ hop'[h] = hop[h] /\ channel'[h] = channel[h]
          /\ replay'[h] = replay[h] /\ mishap'[h] = mishap[h]
      BY <1>3, <1>4, <1>5, <2>2
    <3> QED
      BY <1>1, <3>1, HopStays
  <2> QED
    BY <2>1, <2>2
<1> QED
  BY <1>7, <1>8

\* A step of the panel, or of time.
LEMMA PanelStepTypes ==
    ASSUME CredInv, CredsNext, \A g \in Hops : ~AgentStep(g)
    PROVE  HopTypes'
<1>1. /\ hop \in [Hops -> HopRows] /\ mishap \in [Hops -> SUBSET {"wrong", "kept"}]
      /\ channel \in [Hops -> Seq(AgentCmds)] /\ replay \in [Hops -> Seq(AgentCmds)]
  BY DEF CredInv, HopTypes
<1>2. ASSUME NEW c \in Callers,
             CreateTunnel(c) \/ RestartTunnel(c) \/ DeleteTunnel(c) \/ ReadHops(c) \/ Stamp(c) \/ SweepTick
      PROVE  HopTypes'
  BY <1>1, <1>2 DEF HopTypes, CreateTunnel, RestartTunnel, DeleteTunnel, ReadHops, Stamp, SweepTick
<1>3. ASSUME NEW hops, NEW cmd \in AgentCmds, PushTo(hops, cmd), UNCHANGED <<hop, replay>> PROVE HopTypes'
  <2>1. PICK h \in Hops : TRUE
    BY CredNumbers
  <2>2. channel' \in [Hops -> Seq(AgentCmds)] /\ mishap' \in [Hops -> SUBSET {"wrong", "kept"}]
    BY <1>3, <2>1, PushedTo
  <2> QED
    BY <1>1, <1>3, <2>2 DEF HopTypes
<1>4. ASSUME NEW c \in Callers, PushCreds(c) PROVE HopTypes'
  BY <1>3, <1>4 DEF PushCreds, AgentCmds
<1>5. ASSUME NEW c \in Callers, PushRestart(c) PROVE HopTypes'
  BY <1>3, <1>5 DEF PushRestart, AgentCmds
<1>6. CASE CreateRule \/ DeleteTheRule
  BY <1>3, <1>6 DEF CreateRule, DeleteTheRule, AgentCmds
<1>7. \A x \in Hops, cmd \in AgentCmds : Append(channel[x], cmd) \in Seq(AgentCmds) /\ channel[x] \in Seq(AgentCmds)
  BY <1>1
<1>8. ASSUME NEW c \in Callers, IssueFails(c) PROVE HopTypes'
  <2>1. PICK some \in SUBSET job[c].hops :
          /\ channel' = [h \in Hops |-> IF h \in some /\ Takes(h) THEN Append(channel[h], "creds") ELSE channel[h]]
          /\ mishap' = [h \in Hops |-> IF (IF h \in some THEN Takes(h) ELSE job[c].op = "rotate") THEN mishap[h]
                                       ELSE Wrong(h)]
    BY <1>8 DEF IssueFails
  <2>2. channel' \in [Hops -> Seq(AgentCmds)]
    BY <1>7, <2>1 DEF AgentCmds
  <2>3. mishap' \in [Hops -> SUBSET {"wrong", "kept"}]
    <3>1. \A h \in Hops : Wrong(h) \in SUBSET {"wrong", "kept"}
      BY <1>1 DEF Wrong
    <3> QED
      BY <1>1, <2>1, <3>1
  <2> QED
    BY <1>1, <1>8, <2>2, <2>3 DEF HopTypes, IssueFails
<1>9. ASSUME NEW c \in Callers, Revoke(c) PROVE HopTypes'
  <2>1. channel' \in [Hops -> Seq(AgentCmds)]
    BY <1>7, <1>9 DEF Revoke, AgentCmds
  <2>2. mishap' \in [Hops -> SUBSET {"wrong", "kept"}]
    BY <1>1, <1>9 DEF Revoke
  <2> QED
    BY <1>1, <1>9, <2>1, <2>2 DEF HopTypes, Revoke
<1>10. CASE Tick
  <2>1. \A h \in Hops : hop'[h] \in HopRows
    BY <1>10, TickKeeps
  <2>2. hop' = [h \in Hops |-> hop'[h]]
    BY <1>10 DEF Tick
  <2> QED
    BY <1>1, <1>10, <2>1, <2>2 DEF HopTypes, Tick
<1>11. "api" \in Callers
  BY DEF Callers
<1> QED
  BY <1>2, <1>4, <1>5, <1>6, <1>8, <1>9, <1>10, <1>11 DEF CredsNext, AgentStep

LEMMA PanelStepKeeps ==
    ASSUME CredInv, CredsNext, \A g \in Hops : ~AgentStep(g), NEW h \in Hops
    PROVE  HopInv(h)'
<1>1. "api" \in Callers
  BY DEF Callers
<1> QED
  BY <1>1, JobStepKeeps, PushCredsKeeps, PushRestartKeeps, PushRuleKeeps, RevokeKeeps, TickKeeps
     DEF CredsNext, AgentStep

LEMMA CredsStep == CredInv /\ [CredsNext]_credVars => CredInv'
<1> SUFFICES ASSUME CredInv, [CredsNext]_credVars PROVE CredInv'
  OBVIOUS
<1>1. CASE CredsNext
  <2>1. PanelInv'
    BY <1>1, PanelKeeps
  <2>2. CASE \E g \in Hops : AgentStep(g)
    BY <2>1, <2>2, AgentStepKeeps DEF CredInv
  <2>3. CASE \A g \in Hops : ~AgentStep(g)
    BY <1>1, <2>1, <2>3, PanelStepKeeps, PanelStepTypes DEF CredInv
  <2> QED
    BY <2>2, <2>3
<1>2. CASE UNCHANGED credVars
  <2>1. \A h \in Hops : HopInv(h)'
    BY <1>2, HopStays DEF credVars
  <2>2. PanelInv' /\ HopTypes'
    BY <1>2 DEF credVars, CredInv, PanelInv, PanelTypes, JobFitsTunnel, StampFits, HopTypes
  <2> QED
    BY <2>1, <2>2 DEF CredInv
<1> QED
  BY <1>1, <1>2

LEMMA CredInvMeans == CredInv => FreshWhileConnected /\ KeysGone
<1> SUFFICES ASSUME CredInv, NEW h \in Hops, hop[h].conn, Quiet(h)
             PROVE  /\ ruleOn /\ "wrong" \notin mishap[h] => hop[h].run < Validity
                    /\ tunnel = "deleted" /\ "kept" \notin mishap[h] => hop[h].disk = NoCert
  BY DEF FreshWhileConnected, KeysGone
<1>1. /\ WillRun(h) /\ RunsFresh(h) /\ KeysGo(h) /\ StampFits /\ (ruleOn => tunnel = "active")
      /\ stamp \in Ages /\ hop[h] \in HopRows
  BY HopHas DEF CredInv, PanelInv
<1>2. /\ channel[h] = <<>> /\ replay[h] = <<>> /\ hop[h].retry.kind = "none"
      /\ \A k \in Callers : job[k].pc = "idle"
  BY CredNumbers DEF Quiet
<1>3. ASSUME ruleOn, "wrong" \notin mishap[h] PROVE hop[h].run < Validity
  <2>1. Sound(h) /\ stamp <= RotateAfter
    BY <1>1, <1>3 DEF Sound, StampFits
  <2>2. hop[h].run # NoCert
    BY <1>1, <1>2, <1>3, <2>1, EmptyCmds DEF WillRun
  <2>3. GoodRun(h)
    <3>1. FreshIn(<<>>, GoodDisk(h), GoodRun(h))
      BY <1>1, <1>2, <1>3, <2>1 DEF RunsFresh
    <3> QED
      BY <3>1, EmptyCmds
  <2> QED
    BY <1>1, <2>1, <2>2, <2>3, CredNumbers DEF GoodRun, HopRows
<1>4. ASSUME tunnel = "deleted", "kept" \notin mishap[h] PROVE hop[h].disk = NoCert
  <2>1. "api" \in Callers
    BY DEF Callers
  <2> QED
    BY <1>1, <1>2, <1>4, <2>1, EmptyCmds DEF KeysGo
<1> QED
  BY <1>3, <1>4

\* For any hops, capacity, life of a certificate and retries: a connected hop with
\* nothing on its way, for which nothing went wrong since it connected, serves the
\* rule with a certificate that has not expired.
THEOREM CertificatesStayFresh == CredsSpec => []FreshWhileConnected
<1>1. CredsSpec => []CredInv
  BY CredsInitInv, CredsStep, PTL DEF CredsSpec
<1> QED
  BY <1>1, CredInvMeans, PTL

\* And the keys of a deleted tunnel are gone from it, unless it missed the command
\* or a renewal or a replay overtook that.
THEOREM KeysAreGone == CredsSpec => []KeysGone
<1>1. CredsSpec => []CredInv
  BY CredsInitInv, CredsStep, PTL DEF CredsSpec
<1> QED
  BY <1>1, CredInvMeans, PTL

-----------------------------------------------------------------------------
(* The composition. *)

\* The administration implements each of its parts: what is proved of them
\* holds of the specification the runs check.
THEOREM AdministrationImplementsParts ==
    AdministrationSpec => AccountsSpec /\ SweepsSpec /\ AdmissionSpec /\ CredsSpec
<1>1. AdministrationInit => AccountsInit /\ SweepsInit /\ AdmissionInit /\ CredsInit
  BY DEF AdministrationInit
<1>2. [AdministrationNext]_administrationVars =>
          [AccountsNext]_acctVars /\ [SweepsNext]_sweepVars /\ [AdmissionNext]_admVars /\ [CredsNext]_credVars
  BY DEF AdministrationNext, administrationVars
<1> QED
  BY <1>1, <1>2, PTL DEF AdministrationSpec, AccountsSpec, SweepsSpec, AdmissionSpec, CredsSpec
=============================================================================
