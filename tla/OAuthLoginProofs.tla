-------------------------- MODULE OAuthLoginProofs --------------------------
(***************************************************************************)
(* Theorems about OAuthLogin, for any logins, accounts, emails and         *)
(* domains.                                                                *)
(*                                                                         *)
(* The argument.  The unique slug lets one transaction at a time found an  *)
(* organisation, and none once it is committed (OrganisationInv).  What a  *)
(* login loaded of a user may be stale when it commits, but only in ways   *)
(* that do no harm (SeenInv): a user never disappears, an admin stays one, *)
(* and a login that saw no user still finds none, because the unique       *)
(* google_id makes the second writer of an account wait and then fail      *)
(* (WriterInv).                                                            *)
(***************************************************************************)
EXTENDS OAuthLoginProperties, TLAPS

\* The places where the transaction is open and its organisation is known.
Open == {"user", "write", "commit"}

(***************************************************************************)
(* A founder's organisation is committed by its own commit and by no       *)
(* other; whoever is past the choice of an organisation and did not found  *)
(* it found it committed.                                                  *)
(***************************************************************************)
OrganisationInv ==
    /\ \A l \in Logins :
          /\ pc[l] \in {"callback", "insertOrg"} => l \notin founders
          /\ pc[l] \in Open => (l \in founders <=> Domain(l) \notin orgs)
          /\ pc[l] \in {"refresh", "welcome"} => Domain(l) \in orgs
          /\ l \in founders /\ pc[l] \notin Open => Domain(l) \in orgs
    /\ \A l, x \in founders : Domain(l) = Domain(x) => l = x

\* The admin's account founded a committed organisation.
Founded(a) == \E l \in founders : AccountOf[l] = a /\ Domain(l) \in orgs

\* Google has reported an email of the organisation for the account.
Reported(a, o) == \E x \in Logins : AccountOf[x] = a /\ Domain(x) = o

\* What holds of a user's row, now or as it was loaded.
SoundRow(a, row) ==
    /\ row.org \in orgs
    /\ Reported(a, row.org)
    /\ row.role = "admin" => Founded(a)

UserInv == \A a \in Accounts : users[a] # None => SoundRow(a, users[a])

SeenInv ==
    \A l \in Logins : seen[l] # None =>
        /\ SoundRow(AccountOf[l], seen[l])
        /\ users[AccountOf[l]] # None
        /\ seen[l].role = "admin" => users[AccountOf[l]].role = "admin"

\* Two open writes never concern the same user.
WriterInv ==
    /\ \A l, x \in Logins :
          (/\ l # x /\ AccountOf[l] = AccountOf[x]
           /\ pc[l] = "commit" /\ pc[x] = "commit") => Changes(l) = {} \/ Changes(x) = {}
    /\ \A l \in Logins :
          /\ pc[l] = "commit" /\ seen[l] = None => users[AccountOf[l]] = None
          /\ pc[l] \in {"refresh", "welcome"} => users[AccountOf[l]] # None

TokenInv ==
    /\ \A l \in Logins : token[l] # None => Reported(AccountOf[l], token[l].org)
    /\ \A r \in Requests : acting[r] # None =>
          /\ token[acting[r].login] # None
          /\ acting[r].row.org = token[acting[r].login].org

LoginInv ==
    /\ LoginTypeOK /\ OrganisationInv /\ UserInv /\ SeenInv /\ WriterInv /\ TokenInv

-----------------------------------------------------------------------------
\* The values the constants of the module can take.
LEMMA LoginTypes ==
  ASSUME NEW l \in Logins
  PROVE  /\ AccountOf[l] \in Accounts
         /\ EmailOf[l] \in DOMAIN DomainOf
         /\ Domain(l) \in {DomainOf[e] : e \in DOMAIN DomainOf}
         /\ None \notin UserRows
BY LoginAssumption DEF Domain

(***************************************************************************)
(* The row that a login would write, and the columns it does write.        *)
(***************************************************************************)
LEMMA RowFacts ==
  ASSUME NEW l \in Logins
  PROVE  /\ Row(l) \in UserRows /\ Row(l) # None
         /\ Row(l).email = EmailOf[l] /\ Row(l).org = Domain(l) /\ Row(l).role = Role(l)
<1>1. Role(l) \in {"admin", "member"}
  BY DEF Role
<1>2. Row(l) \in UserRows
  BY <1>1, LoginTypes DEF Row, UserRows
<1> QED BY <1>2, LoginTypes DEF Row

Written(l, row) == [c \in Columns |-> IF c \in Changes(l) THEN Row(l)[c] ELSE row[c]]

\* The row a commit leaves, column by column.
LEMMA WrittenFacts ==
  ASSUME NEW l \in Logins, NEW row \in UserRows
  PROVE  /\ Written(l, row) \in UserRows /\ Written(l, row) # None
         /\ Written(l, row).org = IF "org" \in Changes(l) THEN Domain(l) ELSE row.org
         /\ Written(l, row).role = IF "role" \in Changes(l) THEN Role(l) ELSE row.role
<1> DEFINE w == Written(l, row)
<1>1. /\ w["email"] = IF "email" \in Changes(l) THEN Row(l).email ELSE row.email
      /\ w["org"] = IF "org" \in Changes(l) THEN Row(l).org ELSE row.org
      /\ w["role"] = IF "role" \in Changes(l) THEN Row(l).role ELSE row.role
  BY DEF Written, Columns
<1>2. w = [email |-> w["email"], org |-> w["org"], role |-> w["role"]]
  BY DEF Written, Columns
<1>3. w["email"] \in DOMAIN DomainOf
  BY <1>1, RowFacts DEF UserRows
<1>4. w["org"] \in {DomainOf[e] : e \in DOMAIN DomainOf}
  BY <1>1, RowFacts DEF UserRows
<1>5. w["role"] \in {"admin", "member"}
  BY <1>1, RowFacts DEF UserRows
<1>6. w \in UserRows
  BY <1>2, <1>3, <1>4, <1>5 DEF UserRows
<1> QED BY <1>1, <1>6, RowFacts, LoginTypes

-----------------------------------------------------------------------------
\* At the start there is no organisation, user or token.
LEMMA LoginInvInit == LoginInit => LoginInv
<1> SUFFICES ASSUME LoginInit  PROVE LoginInv
  OBVIOUS
<1>1. LoginTypeOK
  BY DEF LoginInit, LoginTypeOK
<1>2. OrganisationInv /\ UserInv /\ SeenInv /\ WriterInv /\ TokenInv
  BY DEF LoginInit, OrganisationInv, UserInv, SeenInv, WriterInv, TokenInv, Open
<1> QED BY <1>1, <1>2 DEF LoginInv

(***************************************************************************)
(* What a login writes depends on what it loaded and on whether it founded *)
(* its organisation, and on nothing else.                                  *)
(***************************************************************************)
LEMMA ChangesStay ==
  ASSUME NEW x \in Logins, seen'[x] = seen[x], x \in founders' <=> x \in founders
  PROVE  Changes(x)' = Changes(x) /\ Role(x)' = Role(x)
BY DEF Changes, Row, Role

(***************************************************************************)
(* A row that was sound stays sound while no closed founder and no         *)
(* organisation is lost.                                                   *)
(***************************************************************************)
LEMMA FoundedStays ==
  ASSUME OrganisationInv, founders \subseteq Logins, orgs \subseteq orgs',
         founders \ OpenFounders \subseteq founders',
         NEW a \in Accounts, Founded(a)
  PROVE  Founded(a)'
<1>1. PICK l \in founders : AccountOf[l] = a /\ Domain(l) \in orgs
  BY DEF Founded
<1>2. l \notin OpenFounders
  BY <1>1 DEF OpenFounders, OrganisationInv, Open
<1> QED BY <1>1, <1>2 DEF Founded, Domain

(***************************************************************************)
(* The steps of a login that change neither the database nor a token.      *)
(***************************************************************************)
LEMMA QuietLoginStep ==
  ASSUME LoginInv, UNCHANGED <<users, orgs, token, expired, acting, answer>>,
         founders \ OpenFounders \subseteq founders',
         NEW l \in Logins,
         \A x \in Logins \ {l} : pc'[x] = pc[x] /\ seen'[x] = seen[x],
         seen'[l] \in {seen[l], users[AccountOf[l]]},
         pc'[l] = "commit" => pc[l] = "write" /\ ~WaitsForWriter(l) /\ ~Taken(l),
         pc'[l] \notin {"refresh", "welcome"}, pc[l] # "welcome",
         pc'[l] = "commit" => UNCHANGED <<seen, founders>>,
         \A x \in Logins \ {l} : x \in founders' <=> x \in founders,
         LoginTypeOK', OrganisationInv'
  PROVE  LoginInv'
<1> USE LoginTypes DEF LoginInv, LoginTypeOK
<1>1. \A a \in Accounts : Founded(a) => Founded(a)'
  BY FoundedStays
<1>2. UserInv'
  BY <1>1 DEF UserInv, SoundRow, Reported, Domain
<1>3. SeenInv'
  <2>1. ASSUME NEW x \in Logins, seen'[x] = seen[x], seen[x] # None
        PROVE  /\ SoundRow(AccountOf[x], seen[x])'
               /\ users'[AccountOf[x]] # None
               /\ seen'[x].role = "admin" => users'[AccountOf[x]].role = "admin"
    BY <1>1, <2>1 DEF SeenInv, SoundRow, Reported, Domain
  <2>2. ASSUME seen'[l] = users[AccountOf[l]], seen'[l] # None
        PROVE  /\ SoundRow(AccountOf[l], seen[l])'
               /\ users'[AccountOf[l]] # None
               /\ seen'[l].role = "admin" => users'[AccountOf[l]].role = "admin"
    BY <1>1, <2>2 DEF UserInv, SoundRow, Reported, Domain
  <2> QED BY <2>1, <2>2 DEF SeenInv
<1>4. WriterInv'
  <2>1. \A x \in Logins : pc'[x] = "commit" => Changes(x)' = Changes(x) /\ seen'[x] = seen[x]
    BY ChangesStay
  <2>2. ASSUME NEW x \in Logins \ {l}, AccountOf[l] = AccountOf[x],
               pc'[l] = "commit", pc'[x] = "commit"
        PROVE  Changes(l) = {} \/ Changes(x) = {}
    BY <2>2 DEF WaitsForWriter
  <2>3. ASSUME NEW y \in Logins, NEW x \in Logins, y # x, AccountOf[y] = AccountOf[x],
               pc'[y] = "commit", pc'[x] = "commit"
        PROVE  Changes(y)' = {} \/ Changes(x)' = {}
    BY <2>1, <2>2, <2>3 DEF WriterInv
  <2>4. ASSUME NEW x \in Logins, pc'[x] = "commit", seen'[x] = None
        PROVE  users'[AccountOf[x]] = None
    BY <2>1, <2>4 DEF WriterInv, Taken
  <2>5. ASSUME NEW x \in Logins, pc'[x] \in {"refresh", "welcome"}
        PROVE  users'[AccountOf[x]] # None
    BY <2>5 DEF WriterInv
  <2> QED BY <2>3, <2>4, <2>5 DEF WriterInv
<1>5. TokenInv'
  BY DEF TokenInv, Reported, Domain
<1> QED BY <1>2, <1>3, <1>4, <1>5

\* Denying a login, which rolls its transaction back, preserves the invariant.
LEMMA DenyStep ==
  ASSUME LoginInv, NEW l \in Logins, Deny(l),
         pc[l] \in {"callback", "insertOrg", "user", "write", "commit", "refresh"}
  PROVE  LoginInv'
<1> USE LoginTypes DEF LoginInv, LoginTypeOK
<1>1. /\ founders' = founders \ ({l} \cap OpenFounders)
      /\ pc' = [pc EXCEPT ![l] = "denied"]
      /\ UNCHANGED <<seen, token, users, orgs, expired, acting, answer>>
  BY DEF Deny, dbVars, requestVars
<1>2. LoginTypeOK'
  BY <1>1
<1>3. OrganisationInv'
  BY <1>1 DEF OrganisationInv, OpenFounders, Open, Domain
<1> QED BY <1>1, <1>2, <1>3, QuietLoginStep

(***************************************************************************)
(* A commit.  What the login loaded may be stale; the columns it writes    *)
(* are still right, and every admin stays one.                             *)
(***************************************************************************)
LEMMA CommitWrites ==
  ASSUME LoginInv, NEW l \in Logins, Commit(l), NEW a, a = AccountOf[l]
  PROVE  /\ users'[a] \in UserRows /\ users'[a] # None
         /\ \A b \in Accounts \ {a} : users'[b] = users[b]
         /\ users' \in [Accounts -> UserRows \cup {None}]
         /\ users'[a].org = Domain(l) \/ (users[a] # None /\ users'[a].org = users[a].org)
         /\ users'[a].role = "admin" =>
               \/ l \in founders
               \/ seen[l] # None /\ seen[l].role = "admin"
               \/ users[a] # None /\ users[a].role = "admin"
         /\ users[a] # None /\ users[a].role = "admin" => users'[a].role = "admin"
         /\ l \in founders => users'[a].org = Domain(l) /\ users'[a].role = "admin"
<1> USE LoginTypes DEF LoginInv, LoginTypeOK
<1>1. pc[l] = "commit" /\ a \in Accounts
  BY DEF Commit
<1>2. l \in founders => Domain(l) \notin orgs
  BY <1>1 DEF OrganisationInv, Open
<1>3. CASE seen[l] = None
  <2>1. users' = [users EXCEPT ![a] = Row(l)]
    BY <1>3 DEF Commit
  <2>2. users[a] = None
    BY <1>1, <1>3 DEF WriterInv
  <2>3. Role(l) = "admin" <=> l \in founders
    BY <1>3 DEF Role
  <2> QED BY <1>1, <2>1, <2>2, <2>3, RowFacts
<1>4. CASE seen[l] # None
  <2>1. PICK row \in UserRows : row = users[a] /\ row # None
    BY <1>1, <1>4 DEF SeenInv
  <2>2. users' = [users EXCEPT ![a] = Written(l, row)]
    BY <1>1, <1>4, <2>1 DEF Commit, Written
  <2>3. "role" \in Changes(l) <=> Role(l) # seen[l].role
    BY <1>4, RowFacts DEF Changes, Columns
  <2>4. "org" \in Changes(l) <=> Domain(l) # seen[l].org
    BY <1>4, RowFacts DEF Changes, Columns
  <2>5. seen[l].role \in {"admin", "member"}
    BY <1>4 DEF UserRows
  <2>6. seen[l].role = "admin" => row.role = "admin"
    BY <1>4, <2>1 DEF SeenInv
  <2>7. seen[l].org \in orgs
    BY <1>4 DEF SeenInv, SoundRow
  <2>8. Role(l) = "admin" <=> l \in founders \/ seen[l].role = "admin"
    BY <1>4 DEF Role
  <2>9. /\ Written(l, row) \in UserRows /\ Written(l, row) # None
        /\ Written(l, row).org = IF "org" \in Changes(l) THEN Domain(l) ELSE row.org
        /\ Written(l, row).role = IF "role" \in Changes(l) THEN Role(l) ELSE row.role
    BY WrittenFacts
  <2>10. Role(l) \in {"admin", "member"}
    BY DEF Role
  <2>11. row.role = "admin" => Written(l, row).role = "admin"
    BY <2>3, <2>5, <2>8, <2>9, <2>10
  <2>12. l \in founders => Written(l, row).org = Domain(l) /\ Written(l, row).role = "admin"
    BY <1>2, <2>3, <2>4, <2>6, <2>7, <2>8, <2>9
  <2>13. users'[a] = Written(l, row)
    BY <1>1, <2>2
  <2> QED BY <1>1, <1>4, <2>1, <2>2, <2>8, <2>9, <2>11, <2>12, <2>13
<1> QED BY <1>3, <1>4

\* A commit preserves the invariant.
LEMMA CommitStep ==
  ASSUME LoginInv, NEW l \in Logins, Commit(l)
  PROVE  LoginInv'
<1> USE LoginTypes DEF LoginInv, LoginTypeOK
<1>1. PICK a \in Accounts : a = AccountOf[l]
  OBVIOUS
<1>2. /\ pc[l] = "commit" /\ pc' = [pc EXCEPT ![l] = "refresh"]
      /\ orgs' = IF l \in founders THEN orgs \cup {Domain(l)} ELSE orgs
      /\ UNCHANGED <<founders, seen, token, expired, acting, answer>>
  BY DEF Commit, requestVars
<1>3. /\ users'[a] \in UserRows /\ users'[a] # None
      /\ \A b \in Accounts \ {a} : users'[b] = users[b]
      /\ users' \in [Accounts -> UserRows \cup {None}]
      /\ users'[a].org = Domain(l) \/ (users[a] # None /\ users'[a].org = users[a].org)
      /\ users'[a].role = "admin" =>
            \/ l \in founders
            \/ seen[l] # None /\ seen[l].role = "admin"
            \/ users[a] # None /\ users[a].role = "admin"
      /\ users[a] # None /\ users[a].role = "admin" => users'[a].role = "admin"
  BY <1>1, CommitWrites
<1>4. Domain(l) \in orgs' /\ orgs \subseteq orgs'
  BY <1>2 DEF OrganisationInv, Open
<1>5. \A b \in Accounts : Founded(b) => Founded(b)'
  BY <1>2, <1>4, FoundedStays
<1>6. LoginTypeOK'
  BY <1>2, <1>3
<1>7. OrganisationInv'
  BY <1>2, <1>4 DEF OrganisationInv, Open, Domain
<1>8. UserInv'
  <2>1. users'[a].org \in orgs' /\ Reported(a, users'[a].org)
    BY <1>1, <1>3, <1>4 DEF UserInv, SoundRow, Reported
  <2>2. users'[a].role = "admin" => Founded(a)'
    <3>1. l \in founders => Founded(a)'
      BY <1>1, <1>2, <1>4 DEF Founded, Domain
    <3> QED BY <1>1, <1>3, <1>5, <3>1 DEF UserInv, SeenInv, SoundRow
  <2>3. ASSUME NEW b \in Accounts \ {a}, users'[b] # None
        PROVE  SoundRow(b, users[b])'
    BY <1>3, <1>4, <1>5, <2>3 DEF UserInv, SoundRow, Reported, Domain
  <2> QED BY <2>1, <2>2, <2>3 DEF UserInv, SoundRow, Reported, Domain
<1>9. SeenInv'
  BY <1>2, <1>3, <1>4, <1>5 DEF SeenInv, SoundRow, Reported, Domain
<1>10. WriterInv'
  <2>1. \A x \in Logins : Changes(x)' = Changes(x)
    BY <1>2, ChangesStay
  <2>2. ASSUME NEW x \in Logins \ {l}, AccountOf[x] = a, pc[x] = "commit", seen[x] = None
        PROVE  FALSE
    <3>1. Changes(x) # {}
      BY <2>2 DEF Changes, Columns
    <3>2. Changes(l) = {}
      BY <1>1, <1>2, <2>2, <3>1 DEF WriterInv
    <3>3. seen[l] # None
      BY <3>2 DEF Changes, Columns
    <3>4. users[a] # None
      BY <1>1, <3>3 DEF SeenInv
    <3> QED BY <2>2, <3>4 DEF WriterInv
  <2> QED BY <1>1, <1>2, <1>3, <2>1, <2>2 DEF WriterInv
<1>11. TokenInv'
  BY <1>2 DEF TokenInv, Reported, Domain
<1> QED BY <1>6, <1>7, <1>8, <1>9, <1>10, <1>11

(***************************************************************************)
(* get_current_user only reads what the logins keep.                       *)
(***************************************************************************)
LEMMA RequestsReadOnly ==
  ASSUME LoginInv, UNCHANGED <<pc, founders, seen, token, users, orgs>>,
         LoginTypeOK', TokenInv'
  PROVE  LoginInv'
<1> USE DEF LoginInv
<1>1. OrganisationInv'
  BY DEF OrganisationInv, Domain
<1>2. \A a \in Accounts : Founded(a)' <=> Founded(a)
  BY DEF Founded, Domain
<1>3. UserInv' /\ SeenInv'
  BY LoginTypes, <1>2 DEF UserInv, SeenInv, SoundRow, Reported, Domain
<1>4. WriterInv'
  <2>1. \A x \in Logins : Changes(x)' = Changes(x)
    BY ChangesStay
  <2> QED BY <2>1 DEF WriterInv
<1> QED BY <1>1, <1>3, <1>4

\* Every step preserves the invariant.
LEMMA LoginInvStep ==
  ASSUME LoginInv, [LoginNext]_vars
  PROVE  LoginInv'
<1> USE LoginTypes DEF LoginInv, LoginTypeOK, loginVars, dbVars, requestVars
<1>1. ASSUME NEW l \in Logins, SelectOrganisation(l)  PROVE LoginInv'
  <2>1. LoginTypeOK' /\ OrganisationInv'
    BY <1>1 DEF SelectOrganisation, OrganisationInv, Open, Domain
  <2> QED BY <1>1, <2>1, QuietLoginStep DEF SelectOrganisation
<1>2. ASSUME NEW l \in Logins, InsertOrganisation(l)  PROVE LoginInv'
  <2>1. LoginTypeOK'
    BY <1>2 DEF InsertOrganisation
  <2>2. \A x \in founders : Domain(x) # Domain(l)
    BY <1>2 DEF InsertOrganisation, SlugFree, OpenFounders, OrganisationInv, Open
  <2>3. OrganisationInv'
    BY <1>2, <2>2 DEF InsertOrganisation, OrganisationInv, Open, Domain
  <2> QED BY <1>2, <2>1, <2>3, QuietLoginStep DEF InsertOrganisation
<1>3. ASSUME NEW l \in Logins, SelectUser(l)  PROVE LoginInv'
  <2>1. LoginTypeOK' /\ OrganisationInv'
    BY <1>3 DEF SelectUser, OrganisationInv, Open, Domain
  <2> QED BY <1>3, <2>1, QuietLoginStep DEF SelectUser
<1>4. ASSUME NEW l \in Logins, WriteUser(l)  PROVE LoginInv'
  <2>1. LoginTypeOK' /\ OrganisationInv'
    BY <1>4 DEF WriteUser, OrganisationInv, Open, Domain
  <2> QED BY <1>4, <2>1, QuietLoginStep DEF WriteUser
<1>5. ASSUME NEW l \in Logins, OrganisationExists(l) \/ UserConflict(l) \/ Fails(l)
      PROVE  LoginInv'
  BY <1>5, DenyStep DEF OrganisationExists, UserConflict, Fails
<1>6. ASSUME NEW l \in Logins, IssueToken(l)  PROVE LoginInv'
  <2>1. /\ pc[l] = "refresh" /\ pc' = [pc EXCEPT ![l] = "welcome"]
        /\ token' = [token EXCEPT ![l] = users[AccountOf[l]]]
        /\ UNCHANGED <<founders, seen, users, orgs, expired, acting, answer>>
    BY <1>6 DEF IssueToken
  <2>2. users[AccountOf[l]] # None
    BY <2>1 DEF WriterInv
  <2>3. LoginTypeOK'
    BY <2>1, <2>2
  <2>4. OrganisationInv'
    BY <2>1 DEF OrganisationInv, Open, Domain
  <2>5. UserInv' /\ SeenInv'
    BY <2>1 DEF UserInv, SeenInv, SoundRow, Reported, Founded, Domain
  <2>6. WriterInv'
    BY <2>1, ChangesStay DEF WriterInv
  <2>7. TokenInv'
    BY <2>1, <2>2 DEF TokenInv, UserInv, SoundRow, Reported, Domain
  <2> QED BY <2>3, <2>4, <2>5, <2>6, <2>7
<1>7. ASSUME NEW l \in Logins, ExpireToken(l)  PROVE LoginInv'
  <2>1. LoginTypeOK' /\ TokenInv'
    BY <1>7 DEF ExpireToken, TokenInv, Reported, Domain
  <2> QED BY <1>7, <2>1, RequestsReadOnly DEF ExpireToken
<1>8. ASSUME NEW r \in Requests, NEW l \in Logins, RejectExpired(r, l) \/ TenantMismatch(r, l)
      PROVE  LoginInv'
  <2>1. LoginTypeOK' /\ TokenInv'
    BY <1>8 DEF RejectExpired, TenantMismatch, Answer, TokenInv, Reported, Domain
  <2> QED BY <1>8, <2>1, RequestsReadOnly DEF RejectExpired, TenantMismatch, Answer
<1>9. ASSUME NEW r \in Requests, NEW l \in Logins, Admit(r, l)  PROVE LoginInv'
  <2>1. /\ users[AccountOf[l]] # None /\ token[l] # None
        /\ users[AccountOf[l]].org = token[l].org
    BY <1>9 DEF Admit, WriterInv
  <2>2. PICK act : act = [login |-> l, row |-> users[AccountOf[l]]]
    OBVIOUS
  <2>3. /\ acting' = [acting EXCEPT ![r] = act]
        /\ answer' = [answer EXCEPT ![r] = "admitted"]
        /\ UNCHANGED <<pc, founders, seen, token, users, orgs, expired>>
    BY <1>9, <2>2 DEF Admit, Answer
  <2>4. /\ act \in [login : Logins, row : UserRows]
        /\ act.login = l /\ act.row.org = token[l].org
    BY <2>1, <2>2
  <2>5. LoginTypeOK'
    BY <2>3, <2>4
  <2>6. TokenInv'
    BY <2>1, <2>3, <2>4 DEF TokenInv, Reported, Domain
  <2> QED BY <2>3, <2>5, <2>6, RequestsReadOnly
<1>10. CASE UNCHANGED vars
  <2>1. LoginTypeOK' /\ TokenInv'
    BY <1>10 DEF vars, TokenInv, Reported, Domain
  <2> QED BY <1>10, <2>1, RequestsReadOnly DEF vars
<1> QED
  BY <1>1, <1>2, <1>3, <1>4, <1>5, <1>6, <1>7, <1>8, <1>9, <1>10, CommitStep
  DEF LoginNext, LoginStep

\* The invariant holds of every behaviour.
LEMMA LoginInvHolds == LoginSpec => []LoginInv
<1>1. LoginInv /\ [LoginNext]_vars => LoginInv'
  BY LoginInvStep
<1> QED BY <1>1, LoginInvInit, PTL DEF LoginSpec

-----------------------------------------------------------------------------
(***************************************************************************)
(* The variables keep their types, and a login has a token exactly when it *)
(* was welcomed.                                                           *)
(***************************************************************************)
THEOREM LoginTypesHold == LoginSpec => []LoginTypeOK
<1>1. LoginInv => LoginTypeOK
  BY DEF LoginInv
<1> QED BY <1>1, LoginInvHolds, PTL

(***************************************************************************)
(* Whoever raced for the first login of a domain, one login founded its    *)
(* organisation, and every admin's account is one that founded             *)
(* (oauth.py:112-123).                                                     *)
(***************************************************************************)
THEOREM OneFounderPerOrganisation == LoginSpec => []OneFounderEach
<1>1. LoginInv => OneFounderEach
  BY DEF LoginInv, OrganisationInv, UserInv, SoundRow, Founded, OneFounderEach
<1> QED BY <1>1, LoginInvHolds, PTL

(***************************************************************************)
(* A request acts for the organisation its token names, of which Google    *)
(* has reported an email for the account (dependencies.py:52-57).          *)
(***************************************************************************)
THEOREM RequestsActInTheirTenant == LoginSpec => []ActsInTokenTenant
<1>1. LoginInv => ActsInTokenTenant
  <2> SUFFICES ASSUME LoginInv, NEW r \in Requests, acting[r] # None
               PROVE  /\ acting[r].row.org = token[acting[r].login].org
                      /\ Reported(AccountOf[acting[r].login], token[acting[r].login].org)
    BY DEF ActsInTokenTenant, Reported
  <2>1. acting[r].login \in Logins
    BY DEF LoginInv, LoginTypeOK
  <2> QED BY <2>1 DEF LoginInv, TokenInv
<1> QED BY <1>1, LoginInvHolds, PTL

(***************************************************************************)
(* Only a commit changes the tables.                                       *)
(***************************************************************************)
LEMMA OnlyCommitsWrite ==
  ASSUME [LoginNext]_vars
  PROVE  UNCHANGED dbVars \/ \E l \in Logins : Commit(l)
<1>1. ASSUME NEW l \in Logins, LoginStep(l) \/ Fails(l) \/ ExpireToken(l), ~Commit(l)
      PROVE  UNCHANGED dbVars
  BY <1>1 DEF LoginStep, SelectOrganisation, InsertOrganisation, OrganisationExists,
     SelectUser, WriteUser, UserConflict, IssueToken, Fails, ExpireToken, Deny
<1>2. ASSUME NEW r \in Requests, NEW l \in Logins,
             RejectExpired(r, l) \/ TenantMismatch(r, l) \/ Admit(r, l)
      PROVE  UNCHANGED dbVars
  BY <1>2 DEF RejectExpired, TenantMismatch, Admit, Answer
<1>3. CASE UNCHANGED vars
  BY <1>3 DEF vars
<1> QED BY <1>1, <1>2, <1>3 DEF LoginNext

\* The body of OrganisationBornWithAdmin.
BornWithAdmin ==
    \A o \in orgs' \ orgs :
        \E a \in Accounts : users'[a] # None /\ users'[a].org = o /\ users'[a].role = "admin"

(***************************************************************************)
(* The commit that creates an organisation makes an admin of it            *)
(* (oauth.py:115-141), also when the founder's row existed already and was *)
(* written by another login since it was loaded.                           *)
(***************************************************************************)
THEOREM OrganisationsHaveAdmins == LoginSpec => OrganisationBornWithAdmin
<1>1. ASSUME LoginInv, [LoginNext]_vars
      PROVE  BornWithAdmin
  <2>1. CASE UNCHANGED dbVars
    BY <2>1 DEF BornWithAdmin, dbVars
  <2>2. ASSUME NEW l \in Logins, Commit(l)  PROVE BornWithAdmin
    <3>1. PICK a \in Accounts : a = AccountOf[l]
      BY LoginTypes
    <3>2. /\ users'[a] # None
          /\ l \in founders => users'[a].org = Domain(l) /\ users'[a].role = "admin"
      BY <1>1, <2>2, <3>1, CommitWrites
    <3>3. orgs' = IF l \in founders THEN orgs \cup {Domain(l)} ELSE orgs
      BY <2>2 DEF Commit
    <3> QED BY <3>2, <3>3 DEF BornWithAdmin
  <2> QED BY <1>1, <2>1, <2>2, OnlyCommitsWrite
<1>2. LoginInv /\ [LoginNext]_vars => [\A o \in orgs' \ orgs :
          \E a \in Accounts : /\ users'[a] # None
                              /\ users'[a].org = o
                              /\ users'[a].role = "admin"]_vars
  BY <1>1 DEF BornWithAdmin
<1> QED BY <1>2, LoginInvHolds, PTL DEF LoginSpec, OrganisationBornWithAdmin

\* The body of AdminsStayAdmins.
AdminsStay ==
    \A a \in Accounts : users[a] # None =>
        /\ users'[a] # None
        /\ users[a].role = "admin" => users'[a].role = "admin"

(***************************************************************************)
(* No login takes the role of an admin away or removes a user, although it *)
(* may have loaded the user before another login changed it                *)
(* (oauth.py:137).                                                         *)
(***************************************************************************)
THEOREM NoAdminIsDemoted == LoginSpec => AdminsStayAdmins
<1>1. ASSUME LoginInv, [LoginNext]_vars
      PROVE  AdminsStay
  <2>1. CASE UNCHANGED dbVars
    BY <2>1 DEF AdminsStay, dbVars
  <2>2. ASSUME NEW l \in Logins, Commit(l)  PROVE AdminsStay
    <3>1. PICK a \in Accounts : a = AccountOf[l]
      BY LoginTypes
    <3>2. /\ users'[a] # None
          /\ \A b \in Accounts \ {a} : users'[b] = users[b]
          /\ users[a] # None /\ users[a].role = "admin" => users'[a].role = "admin"
      BY <1>1, <2>2, <3>1, CommitWrites
    <3> QED BY <3>2 DEF AdminsStay
  <2> QED BY <1>1, <2>1, <2>2, OnlyCommitsWrite
<1>2. LoginInv /\ [LoginNext]_vars => [AdminsStay]_vars
  BY <1>1
<1> QED BY <1>2, LoginInvHolds, PTL DEF LoginSpec, AdminsStayAdmins, AdminsStay
=============================================================================
