------------------------------ MODULE Accounts ------------------------------
(***************************************************************************)
(* Accounts of the panel: create, update and delete of routes/users.rs,    *)
(* login and change_password of routes/auth.rs, the statements of          *)
(* models/user.rs they run, and ensure_admin_user at start-up.             *)
(*                                                                         *)
(* A handler reads a row, waits (for Argon2, for the database) and writes; *)
(* nothing locks the row in between.  A password is only told apart by who *)
(* chose it.  Tokens are not stored: a user keeps the last one issued,     *)
(* with the role and the must-change flag it had then.                     *)
(***************************************************************************)
EXTENDS Naturals, FiniteSets

CONSTANTS
    Users,      \* user ids, in use or not
    Boot,       \* the one whose name PANEL_BOOTSTRAP_ADMIN_USERNAME is
    Requests    \* requests that may overlap

ASSUME AccountAssumption == Boot \in Users /\ IsFiniteSet(Users)

VARIABLES
    acct,    \* acct[u]: the row: none, active or deleted; its role; mcp
             \* (must_change_password); temp: an administrator set the password
    token,   \* token[u]: the claims u holds; temp: of the password used
    req,     \* a request in flight: what it is, who sent it, what it read;
             \* raced: another request has written since
    panel    \* "up", or "refused" when ensure_admin_user failed

acctVars == <<acct, token, req, panel>>

Roles == {"admin", "user"}
NoRow == [st |-> "none", role |-> "user", mcp |-> FALSE, temp |-> FALSE]
NoToken == [held |-> FALSE, role |-> "user", mcp |-> FALSE, temp |-> FALSE]
NoRequest == [pc |-> "idle", user |-> Boot, role |-> "user", reset |-> FALSE,
              mcp |-> FALSE, temp |-> FALSE, raced |-> FALSE]

AcctTypeOK ==
    /\ acct \in [Users -> [st : {"none", "active", "deleted"}, role : Roles,
                           mcp : BOOLEAN, temp : BOOLEAN]]
    /\ \A u \in Users : acct[u].st # "none" => acct[u].mcp = acct[u].temp
    /\ token \in [Users -> [held : BOOLEAN, role : Roles, mcp : BOOLEAN, temp : BOOLEAN]]
    /\ req \in [Requests -> [pc : {"idle", "login", "change", "update", "delete"},
                             user : Users, role : Roles \cup {"keep"}, reset : BOOLEAN,
                             mcp : BOOLEAN, temp : BOOLEAN, raced : BOOLEAN]]
    /\ panel \in {"up", "refused"}

Active(u) == acct[u].st = "active"
IsAdmin(u) == Active(u) /\ acct[u].role = "admin"
AdminRows == {u \in Users : IsAdmin(u)}

\* A first start on an empty database.
AccountsInit ==
    /\ acct = [u \in Users |-> IF u = Boot THEN [NoRow EXCEPT !.st = "active", !.role = "admin"]
                                          ELSE NoRow]
    /\ token = [u \in Users |-> NoToken]
    /\ req = [q \in Requests |-> NoRequest]
    /\ panel = "up"

\* AuthUser::require_admin: decided by the token's claims, not by the row.
MayAdminister(u) == token[u].held /\ token[u].role = "admin" /\ ~token[u].mcp

Idle(q) == panel = "up" /\ req[q].pc = "idle"
Finish(q) == req' = [req EXCEPT ![q] = NoRequest]

\* The request q has written: what the others have read may be out of date.
Commit(q) ==
    req' = [p \in Requests |-> IF p = q THEN NoRequest
                               ELSE [req[p] EXCEPT !.raced = req[p].pc \in {"update", "delete"}]]

-----------------------------------------------------------------------------
\* login reads the row and verifies the password against it.
LoginRead(q, u) ==
    /\ Idle(q) /\ Active(u)
    /\ req' = [req EXCEPT ![q] = [NoRequest EXCEPT !.pc = "login", !.user = u,
                  !.role = acct[u].role, !.mcp = acct[u].mcp, !.temp = acct[u].temp]]
    /\ UNCHANGED <<acct, token, panel>>

\* The token is made of the row read before the verification; or the account
\* has expired.
LoginIssue(q) ==
    /\ req[q].pc = "login"
    /\ \/ token' = [token EXCEPT ![req[q].user] =
                      [held |-> TRUE, role |-> req[q].role, mcp |-> req[q].mcp,
                       temp |-> req[q].temp]]
       \/ UNCHANGED token
    /\ Finish(q)
    /\ UNCHANGED <<acct, panel>>

\* change_password takes a must-change token too.  The old password is
\* verified against the row read here.
ChangeRead(q, u) ==
    /\ Idle(q) /\ token[u].held /\ Active(u)
    /\ req' = [req EXCEPT ![q] = [NoRequest EXCEPT !.pc = "change", !.user = u]]
    /\ UNCHANGED <<acct, token, panel>>

\* change_password_self: whatever the row's password has become since.
ChangeWrite(q) ==
    LET u == req[q].user IN
    /\ req[q].pc = "change"
    /\ acct' = IF Active(u) THEN [acct EXCEPT ![u].mcp = FALSE, ![u].temp = FALSE] ELSE acct
    /\ Commit(q)
    /\ UNCHANGED <<token, panel>>

-----------------------------------------------------------------------------
\* create: an INSERT; the password is a temporary one.
CreateUser(q, by, u, role) ==
    /\ Idle(q) /\ MayAdminister(by)
    /\ acct[u].st = "none"
    /\ acct' = [acct EXCEPT ![u] = [st |-> "active", role |-> role, mcp |-> TRUE, temp |-> TRUE]]
    /\ Commit(q)
    /\ UNCHANGED <<token, panel>>

\* Mutation: the count does not exclude the user in question.
OtherAdminsAndSelf(u) == AdminRows # {}

\* count_admins_excluding(u) > 0
OtherAdmins(u) == AdminRows \ {u} # {}

\* update up to its UPDATE: nobody demotes himself or the last administrator.
\* An update of neither role nor password touches nothing kept here.
UpdateCheck(q, by, u, role, reset) ==
    LET demotes == acct[u].role = "admin" /\ role = "user" IN
    /\ Idle(q) /\ MayAdminister(by) /\ Active(u)
    /\ role # "keep" \/ reset
    /\ demotes => by # u /\ OtherAdmins(u)
    /\ req' = [req EXCEPT ![q] = [NoRequest EXCEPT !.pc = "update", !.user = u, !.role = role, !.reset = reset]]
    /\ UNCHANGED <<acct, token, panel>>

\* Mutation: a password reset leaves must_change_password alone.
UpdateKeepsFlag(q) ==
    LET u == req[q].user IN
    /\ req[q].pc = "update"
    /\ acct' = IF Active(u)
               THEN [acct EXCEPT ![u].role = IF req[q].role = "keep" THEN @ ELSE req[q].role,
                                 ![u].temp = req[q].reset \/ @]
               ELSE acct
    /\ Commit(q)
    /\ UNCHANGED <<token, panel>>

\* User::update, after the new password was hashed.  A reset password is a
\* temporary one, in the same statement.
UpdateWrite(q) ==
    LET u == req[q].user IN
    /\ req[q].pc = "update"
    /\ acct' = IF Active(u)
               THEN [acct EXCEPT ![u].role = IF req[q].role = "keep" THEN @ ELSE req[q].role,
                                 ![u].mcp = req[q].reset \/ @, ![u].temp = req[q].reset \/ @]
               ELSE acct
    /\ Commit(q)
    /\ UNCHANGED <<token, panel>>

\* delete up to its UPDATE: nobody deletes himself or the last administrator.
DeleteCheck(q, by, u) ==
    /\ Idle(q) /\ MayAdminister(by) /\ Active(u)
    /\ by # u
    /\ acct[u].role = "admin" => OtherAdmins(u)
    /\ req' = [req EXCEPT ![q] = [NoRequest EXCEPT !.pc = "delete", !.user = u]]
    /\ UNCHANGED <<acct, token, panel>>

DeleteWrite(q) ==
    LET u == req[q].user IN
    /\ req[q].pc = "delete"
    /\ acct' = IF Active(u) THEN [acct EXCEPT ![u] = [NoRow EXCEPT !.st = "deleted"]] ELSE acct
    /\ Commit(q)
    /\ UNCHANGED <<token, panel>>

-----------------------------------------------------------------------------
\* The panel starts again.  Without an administrator ensure_admin_user
\* inserts the bootstrap one; the name of an active user is taken, and the
\* start fails.
StartPanel ==
    LET noAdmin == AdminRows = {} IN
    /\ acct' = IF noAdmin /\ ~Active(Boot)
               THEN [acct EXCEPT ![Boot] = [NoRow EXCEPT !.st = "active", !.role = "admin"]]
               ELSE acct
    /\ panel' = IF noAdmin /\ Active(Boot) THEN "refused" ELSE "up"
    /\ req' = [q \in Requests |-> NoRequest]
    /\ UNCHANGED token

AccountsNext ==
    \/ \E q \in Requests, u \in Users : LoginRead(q, u) \/ ChangeRead(q, u)
    \/ \E q \in Requests, by \in Users, u \in Users :
           \/ DeleteCheck(q, by, u)
           \/ \E role \in Roles : CreateUser(q, by, u, role)
           \/ \E role \in Roles \cup {"keep"}, reset \in BOOLEAN : UpdateCheck(q, by, u, role, reset)
    \/ \E q \in Requests :
           LoginIssue(q) \/ ChangeWrite(q) \/ UpdateWrite(q) \/ DeleteWrite(q)
    \/ StartPanel

AccountsSpec == AccountsInit /\ [][AccountsNext]_acctVars

-----------------------------------------------------------------------------
\* The last administrator is lost only to requests that overlap: one counted
\* the other's victim, or read a role the other changed.  Requests that come
\* one after the other never do it.
LastAdminOnlyByRace ==
    [][AdminRows # {} /\ AdminRows' = {} => \E q \in Requests : req[q].raced]_acctVars

\* users.rs:428, user.rs:203: at least one administrator is left.  Not an
\* invariant: two administrators who demote or delete each other at the same
\* time both count the other one.
AdminRemains == AdminRows # {}

\* A token that opens the whole API was obtained with a password its owner
\* chose, not with one an administrator handed out, however logins, resets
\* and changes overlap.
TempOnlyChanges == \A u \in Users : token[u].held /\ token[u].temp => token[u].mcp
=============================================================================
