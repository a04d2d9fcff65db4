------------------------------ MODULE Accounts ------------------------------
(***************************************************************************)
(* Accounts (app/api/v1/endpoints/users.py, app/services/jwtService.py):   *)
(* registration, change of the username and of the e-mail address, each a  *)
(* row of checks followed by a commit, while tenants are suspended.  The   *)
(* checks of concurrent requests pass one another; the unique constraints  *)
(* of app/models/user.py decide at the commit.                             *)
(*                                                                         *)
(* A request to register names the account it creates.                     *)
(***************************************************************************)
EXTENDS FiniteSets

CONSTANTS
    AccountRequests,
    Slugs,      \* tenants
    Emails,
    Usernames

ASSUME AccountsAssumption ==
    /\ Slugs # {} /\ Emails # {} /\ Usernames # {}
    /\ "none" \notin Emails

VARIABLES
    active,    \* tenants that are active
    users,     \* rows of the users table, by the request that registered
    http       \* what each request knows

accountVars == <<active, users, http>>

NoUser == [email |-> "none", username |-> "none", tenant |-> "none"]

Columns == [email: Emails, username: Usernames, tenant: Slugs]

(* saved: 200; used: the name is taken, 400 (500 for an e-mail address);   *)
(* refused: 400, 401 or 403.  The others are 500: down, a look before the  *)
(* commit failed; unknown, the commit did; error, the answer did after it, *)
(* or a change met a constraint.                                           *)
AccountAnswers == {"saved", "used", "refused", "down", "unknown", "error"}

(* self is the account a change is for, wanted the columns asked for, late *)
(* is history: the tenant was suspended before the request came.           *)
AccountTurns ==
    [op: {"register", "update", "email"},
     at: {"start", "tenant", "name", "commit", "written"} \cup AccountAnswers,
     self: AccountRequests, wanted: Columns, late: BOOLEAN]

NotBegun(q) ==
    [op |-> "register", at |-> "start", self |-> q, late |-> FALSE,
     wanted |-> [email |-> CHOOSE e \in Emails : TRUE, username |-> CHOOSE u \in Usernames : TRUE,
                 tenant |-> CHOOSE t \in Slugs : TRUE]]

AccountsTypeOK ==
    /\ active \subseteq Slugs
    /\ users \in [AccountRequests -> Columns \cup {NoUser}]
    /\ http \in [AccountRequests -> AccountTurns]

AccountsInit ==
    /\ active = Slugs
    /\ users = [a \in AccountRequests |-> NoUser]
    /\ http = [q \in AccountRequests |-> NotBegun(q)]

Exists(a) == users[a] # NoUser
TakenEmail(q, e) == \E a \in AccountRequests \ {q} : users[a].email = e
TakenUsername(q, t, u) ==
    \E a \in AccountRequests \ {q} : users[a].tenant = t /\ users[a].username = u

(* An answered request keeps nothing but its answer.                       *)
Turned(turn, q) ==
    IF turn.at \in AccountAnswers
    THEN [NotBegun(q) EXCEPT !.op = turn.op, !.at = turn.at, !.late = turn.late] ELSE turn

Reaches(q, at) == http' = [http EXCEPT ![q] = Turned([@ EXCEPT !.at = at], q)]

(* The email is looked up first, before the tenant.                        *)
CheckRegister(q) ==
    /\ http[q].at = "start"
    /\ \E wanted \in Columns :
        http' = [http EXCEPT ![q] = Turned(
            [op |-> "register", self |-> q, wanted |-> wanted, late |-> wanted.tenant \notin active,
             at |-> IF TakenEmail(q, wanted.email) THEN "used" ELSE "tenant"], q)]
    /\ UNCHANGED <<active, users>>

CheckTenant(q) ==
    /\ http[q].at = "tenant"
    /\ Reaches(q, IF http[q].wanted.tenant \in active THEN "name" ELSE "refused")
    /\ UNCHANGED <<active, users>>

(* A change: getCurrentUser finds the caller by the token and an active    *)
(* tenant, and ensure_self lets only the own account through.              *)
Authorize(q) ==
    /\ http[q].at = "start"
    /\ \E op \in {"update", "email"}, self \in AccountRequests, wanted \in Columns :
        /\ Exists(self) /\ wanted.tenant = users[self].tenant
        /\ IF op = "update" THEN wanted.email = users[self].email
                            ELSE wanted.username = users[self].username
        /\ http' = [http EXCEPT ![q] = Turned(
               [op |-> op, self |-> self, wanted |-> wanted, late |-> wanted.tenant \notin active,
                at |-> IF wanted.tenant \in active THEN "name" ELSE "refused"], q)]
    /\ UNCHANGED <<active, users>>

(* The last look before the commit, at others of the address or the name.  *)
CheckName(q) ==
    LET self == http[q].self
        wanted == http[q].wanted
        taken == IF http[q].op = "email" THEN TakenEmail(self, wanted.email)
                 ELSE TakenUsername(self, wanted.tenant, wanted.username) IN
    /\ http[q].at = "name"
    /\ Reaches(q, IF taken THEN "used" ELSE "commit")
    /\ UNCHANGED <<active, users>>

(* The row as the request would leave it.                                  *)
NewRow(q) ==
    CASE http[q].op = "register" -> http[q].wanted
      [] http[q].op = "update" -> [users[http[q].self] EXCEPT !.username = http[q].wanted.username]
      [] http[q].op = "email" -> [users[http[q].self] EXCEPT !.email = http[q].wanted.email]

Account(q) == IF http[q].op = "register" THEN q ELSE http[q].self

(* unique=True on email, uq_users_tenant_id_username.                      *)
Conflicts(q) ==
    \/ TakenEmail(Account(q), NewRow(q).email)
    \/ TakenUsername(Account(q), NewRow(q).tenant, NewRow(q).username)

(* Bug: the IntegrityError of a registration is not caught.                *)
CommitRaises(q) ==
    /\ http[q].at = "commit" /\ Conflicts(q)
    /\ Reaches(q, "error")
    /\ UNCHANGED <<active, users>>

(* A constraint decides a race: register answers as if its check had found *)
(* the other row, the changes let the exception through.                   *)
CommitConflicts(q) ==
    /\ http[q].at = "commit" /\ Conflicts(q)
    /\ Reaches(q, IF http[q].op = "register" THEN "used" ELSE "error")
    /\ UNCHANGED <<active, users>>

Commit(q) ==
    /\ http[q].at = "commit" /\ ~Conflicts(q)
    /\ users' = [users EXCEPT ![Account(q)] = NewRow(q)]
    /\ Reaches(q, "written")
    /\ UNCHANGED active

(* The commit raises something else, before or after it took effect: the   *)
(* connection is lost.  No endpoint catches it.                            *)
CommitUnknown(q) ==
    /\ http[q].at = "commit"
    /\ \/ UNCHANGED users
       \/ ~Conflicts(q) /\ users' = [users EXCEPT ![Account(q)] = NewRow(q)]
    /\ Reaches(q, "unknown")
    /\ UNCHANGED active

(* The row is read again for the answer, which may fail: the commit has    *)
(* expired the object.                                                     *)
AnswerWritten(q) ==
    /\ http[q].at = "written"
    /\ Reaches(q, "saved") \/ Reaches(q, "error")
    /\ UNCHANGED <<active, users>>

(* The database fails at a look before the commit.                         *)
StatementFails(q) ==
    /\ http[q].at \in {"start", "tenant", "name"}
    /\ Reaches(q, "down")
    /\ UNCHANGED <<active, users>>

Suspend ==
    /\ \E t \in active : active' = active \ {t}
    /\ UNCHANGED <<users, http>>

AccountsNext ==
    \/ Suspend
    \/ \E q \in AccountRequests :
        \/ CheckRegister(q) \/ CheckTenant(q) \/ Authorize(q) \/ CheckName(q)
        \/ CommitConflicts(q) \/ Commit(q) \/ CommitUnknown(q) \/ AnswerWritten(q) \/ StatementFails(q)

AccountsSpec == AccountsInit /\ [][AccountsNext]_accountVars

(* An e-mail address names one account, a username one account of its      *)
(* tenant, although every check may pass for two requests at once.         *)
NamesUnique ==
    \A a, b \in AccountRequests : a # b /\ Exists(a) /\ Exists(b) =>
        /\ users[a].email # users[b].email
        /\ users[a].tenant = users[b].tenant => users[a].username # users[b].username

(* What a registration is told is true.  Of two for one name the loser is  *)
(* told that the name is taken, whether its check or the constraint found  *)
(* the other.  Of the internal errors, a look that failed means that there *)
(* is no account, and an answer that could not be read after the commit    *)
(* that there is one.  A commit that raised may have done either.          *)
RegistrationIsTold ==
    \A q \in AccountRequests : http[q].op = "register" =>
        /\ http[q].at \in {"used", "refused", "down"} => ~Exists(q)
        /\ http[q].at \in {"saved", "error"} => Exists(q)

(* What a suspended tenant's request asks for is never done, also when its *)
(* token is older than the suspension.                                     *)
SuspensionHolds ==
    \A q \in AccountRequests : http[q].late => http[q].at \notin {"commit", "written", "saved", "error", "unknown"}

(* What the account endpoints keep of names, of what they answered and of  *)
(* suspensions, when their requests race.                                  *)
AccountsAreRight ==
    AccountsTypeOK /\ NamesUnique /\ RegistrationIsTold /\ SuspensionHolds
==============================================================================
