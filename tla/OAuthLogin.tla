----------------------------- MODULE OAuthLogin -----------------------------
(***************************************************************************)
(* Login with Google and the use of the tokens it issues.  A callback      *)
(* creates the organisation of the email's domain if there is none,        *)
(* creates or updates the user, and issues a token for the user's          *)
(* organisation; get_current_user compares that organisation with the      *)
(* user's present one.                                                     *)
(*                                                                         *)
(* Callbacks run as transactions at READ COMMITTED; between two statements *)
(* others may run.  An organisation is named by its slug, the domain, and  *)
(* a user by google_id: both are unique and never deleted.  SQLAlchemy     *)
(* writes only the columns whose value differs from the one it loaded.     *)
(***************************************************************************)
CONSTANTS
    Logins,     \* calls of GET /auth/callback
    Requests,   \* later calls that carry a token
    Accounts,   \* Google accounts (google_id)
    None,       \* no user, no token, no call
    AccountOf,  \* the account of each login
    EmailOf,    \* the email Google reports in each login
    DomainOf    \* the domain of each email

Columns == {"email", "org", "role"}

\* The rows of the table users.
UserRows == [email : DOMAIN DomainOf, org : {DomainOf[e] : e \in DOMAIN DomainOf},
             role : {"admin", "member"}]

ASSUME LoginAssumption ==
    /\ AccountOf \in [Logins -> Accounts]
    /\ EmailOf \in [Logins -> DOMAIN DomainOf]
    /\ None \notin UserRows \cup [login : Logins, row : UserRows]

VARIABLES
    pc,        \* where each login is
    orgs,      \* committed organisations
    users,     \* committed users: a row or None for each account
    founders,  \* logins with created_organisation set, not rolled back
    seen,      \* the user row each login loaded
    token,     \* the token each login issued
    expired,   \* logins whose token is more than 24 hours old
    acting,    \* the user get_current_user resolved for each request
    answer     \* what get_current_user made of each request

loginVars == <<pc, founders, seen, token>>
dbVars == <<orgs, users>>
requestVars == <<expired, acting, answer>>
vars == <<loginVars, dbVars, requestVars>>

Domain(l) == DomainOf[EmailOf[l]]

LoginInit ==
    /\ pc = [l \in Logins |-> "callback"]
    /\ orgs = {}
    /\ users = [a \in Accounts |-> None]
    /\ founders = {}
    /\ seen = [l \in Logins |-> None]
    /\ token = [l \in Logins |-> None]
    /\ expired = {}
    /\ acting = [r \in Requests |-> None]
    /\ answer = [r \in Requests |-> "none"]

-----------------------------------------------------------------------------
\* Logins whose organisation is inserted and not committed.
OpenFounders == {l \in founders : pc[l] \in {"user", "write", "commit"}}

(***************************************************************************)
(* An exception: rollback and 401.  Past the commit there is nothing to    *)
(* roll back.                                                              *)
(***************************************************************************)
Deny(l) ==
    /\ founders' = founders \ ({l} \cap OpenFounders)
    /\ pc' = [pc EXCEPT ![l] = "denied"]
    /\ UNCHANGED <<seen, token, dbVars, requestVars>>

\* No code, an error of Google's or of the database, an incomplete profile.
Fails(l) ==
    /\ pc[l] \in {"callback", "insertOrg", "user", "write", "commit", "refresh"}
    /\ Deny(l)

SelectOrganisation(l) ==
    /\ pc[l] = "callback"
    /\ pc' = [pc EXCEPT ![l] = IF Domain(l) \in orgs THEN "user" ELSE "insertOrg"]
    /\ UNCHANGED <<founders, seen, token, dbVars, requestVars>>

(***************************************************************************)
(* flush: the unique slug makes the insert wait for an open transaction    *)
(* that has inserted it.                                                   *)
(***************************************************************************)
SlugFree(l) == \A x \in OpenFounders : Domain(x) # Domain(l)

InsertOrganisation(l) ==
    /\ pc[l] = "insertOrg" /\ SlugFree(l)
    /\ Domain(l) \notin orgs
    /\ founders' = founders \cup {l}
    /\ pc' = [pc EXCEPT ![l] = "user"]
    /\ UNCHANGED <<seen, token, dbVars, requestVars>>

\* Mutant of OrganisationExists: go on with the organisation that was found,
\* and with created_organisation set.
AdoptOrganisation(l) ==
    /\ pc[l] = "insertOrg" /\ SlugFree(l)
    /\ Domain(l) \in orgs
    /\ founders' = founders \cup {l}
    /\ pc' = [pc EXCEPT ![l] = "user"]
    /\ UNCHANGED <<seen, token, dbVars, requestVars>>

\* Mutant of OrganisationExists: insert again until it succeeds.
RetryInsert(l) ==
    /\ pc[l] = "insertOrg" /\ SlugFree(l)
    /\ Domain(l) \in orgs
    /\ UNCHANGED vars

OrganisationExists(l) ==
    /\ pc[l] = "insertOrg" /\ SlugFree(l)
    /\ Domain(l) \in orgs
    /\ Deny(l)

SelectUser(l) ==
    /\ pc[l] = "user"
    /\ seen' = [seen EXCEPT ![l] = users[AccountOf[l]]]
    /\ pc' = [pc EXCEPT ![l] = "write"]
    /\ UNCHANGED <<founders, token, dbVars, requestVars>>

-----------------------------------------------------------------------------
\* resolved_role; an admin who logs in again stays one.
Role(l) ==
    IF l \in founders \/ (seen[l] # None /\ seen[l].role = "admin")
    THEN "admin" ELSE "member"

\* The user as the session holds it at the commit.
Row(l) == [email |-> EmailOf[l], org |-> Domain(l), role |-> Role(l)]

\* Mutant of Changes: every column is written.
AllColumns(l) == Columns

\* The columns that the INSERT or the UPDATE of l sets.
Changes(l) == {c \in Columns : seen[l] = None \/ Row(l)[c] # seen[l][c]}

\* Another login's open write to the same user, or of the same email.
WaitsForWriter(l) ==
    \E x \in Logins \ {l} :
        /\ pc[x] = "commit" /\ Changes(x) # {} /\ Changes(l) # {}
        /\ \/ AccountOf[x] = AccountOf[l]
           \/ /\ "email" \in Changes(l) \cap Changes(x)
              /\ \/ EmailOf[x] = EmailOf[l]
                 \/ /\ users[AccountOf[x]] # None
                    /\ users[AccountOf[x]].email = EmailOf[l]

\* The unique columns google_id and email.
Taken(l) ==
    \/ seen[l] = None /\ users[AccountOf[l]] # None
    \/ /\ "email" \in Changes(l)
       /\ \E a \in Accounts \ {AccountOf[l]} :
             users[a] # None /\ users[a].email = EmailOf[l]

\* db.commit flushes the user's INSERT or UPDATE, if there is one.
WriteUser(l) ==
    /\ pc[l] = "write" /\ ~WaitsForWriter(l)
    /\ ~Taken(l)
    /\ pc' = [pc EXCEPT ![l] = "commit"]
    /\ UNCHANGED <<founders, seen, token, dbVars, requestVars>>

UserConflict(l) ==
    /\ pc[l] = "write" /\ ~WaitsForWriter(l)
    /\ Taken(l)
    /\ Deny(l)

\* Mutant of Commit: the organisation was committed when it was inserted.
CommitUserOnly(l) ==
    \/ /\ pc[l] = "user" /\ l \in founders /\ Domain(l) \notin orgs
       /\ orgs' = orgs \cup {Domain(l)}
       /\ UNCHANGED <<users, loginVars, requestVars>>
    \/ /\ pc[l] = "commit"
       /\ users' = [users EXCEPT ![AccountOf[l]] = Row(l)]
       /\ pc' = [pc EXCEPT ![l] = "refresh"]
       /\ UNCHANGED <<orgs, founders, seen, token, requestVars>>

Commit(l) ==
    /\ pc[l] = "commit"
    /\ orgs' = IF l \in founders THEN orgs \cup {Domain(l)} ELSE orgs
    /\ users' = [users EXCEPT ![AccountOf[l]] =
                    IF seen[l] = None THEN Row(l)
                    ELSE [c \in Columns |-> IF c \in Changes(l) THEN Row(l)[c] ELSE @[c]]]
    /\ pc' = [pc EXCEPT ![l] = "refresh"]
    /\ UNCHANGED <<founders, seen, token, requestVars>>

\* Mutant of IssueToken: the token is made from the user as it was loaded.
TokenOfLoadedUser(l) ==
    /\ pc[l] = "refresh"
    /\ token' = [token EXCEPT ![l] = seen[l]]
    /\ pc' = [pc EXCEPT ![l] = "welcome"]
    /\ UNCHANGED <<founders, seen, dbVars, requestVars>>

\* db.refresh(user) reads the row again; create_access_token.
IssueToken(l) ==
    /\ pc[l] = "refresh"
    /\ token' = [token EXCEPT ![l] = users[AccountOf[l]]]
    /\ pc' = [pc EXCEPT ![l] = "welcome"]
    /\ UNCHANGED <<founders, seen, dbVars, requestVars>>

-----------------------------------------------------------------------------
\* ACCESS_TOKEN_EXPIRE_HOURS pass.
ExpireToken(l) ==
    /\ token[l] # None /\ l \notin expired
    /\ expired' = expired \cup {l}
    /\ UNCHANGED <<loginVars, dbVars, acting, answer>>

\* get_current_user answers request r, which carries the token of login l.
Answer(r, what) ==
    /\ answer' = [answer EXCEPT ![r] = what]
    /\ UNCHANGED <<loginVars, dbVars, expired>>

RejectExpired(r, l) ==
    /\ answer[r] = "none" /\ token[l] # None
    /\ l \in expired
    /\ Answer(r, "unauthorized")
    /\ UNCHANGED acting

TenantMismatch(r, l) ==
    /\ answer[r] = "none" /\ token[l] # None /\ l \notin expired
    /\ users[AccountOf[l]].org # token[l].org
    /\ Answer(r, "forbidden")
    /\ UNCHANGED acting

\* Mutant of Admit: the token's organisation is not compared.
AdmitAnyTenant(r, l) ==
    /\ answer[r] = "none" /\ token[l] # None /\ l \notin expired
    /\ acting' = [acting EXCEPT ![r] = [login |-> l, row |-> users[AccountOf[l]]]]
    /\ Answer(r, "admitted")

\* The role is the user's present one, whatever the token says.
Admit(r, l) ==
    /\ answer[r] = "none" /\ token[l] # None /\ l \notin expired
    /\ users[AccountOf[l]].org = token[l].org
    /\ acting' = [acting EXCEPT ![r] = [login |-> l, row |-> users[AccountOf[l]]]]
    /\ Answer(r, "admitted")

-----------------------------------------------------------------------------
LoginStep(l) ==
    \/ SelectOrganisation(l) \/ InsertOrganisation(l) \/ OrganisationExists(l)
    \/ SelectUser(l) \/ WriteUser(l) \/ UserConflict(l) \/ Commit(l) \/ IssueToken(l)

LoginNext ==
    \/ \E l \in Logins : LoginStep(l) \/ Fails(l) \/ ExpireToken(l)
    \/ \E r \in Requests, l \in Logins :
          RejectExpired(r, l) \/ TenantMismatch(r, l) \/ Admit(r, l)

LoginSpec == LoginInit /\ [][LoginNext]_vars

\* The event loop and PostgreSQL's lock queues; calls to Google time out.
LoginFairSpec == LoginSpec /\ \A l \in Logins : WF_vars(LoginStep(l))
=============================================================================
