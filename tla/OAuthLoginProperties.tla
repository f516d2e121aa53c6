------------------------ MODULE OAuthLoginProperties ------------------------
(***************************************************************************)
(* What must hold of OAuthLogin.                                           *)
(***************************************************************************)
EXTENDS OAuthLogin

\* Types of the variables; a welcomed login, and no other, has a token.
LoginTypeOK ==
    /\ pc \in [Logins -> {"callback", "insertOrg", "user", "write", "commit",
                          "refresh", "welcome", "denied"}]
    /\ orgs \subseteq {DomainOf[e] : e \in DOMAIN DomainOf}
    /\ users \in [Accounts -> UserRows \cup {None}]
    /\ founders \subseteq Logins
    /\ seen \in [Logins -> UserRows \cup {None}]
    /\ token \in [Logins -> UserRows \cup {None}]
    /\ \A l \in Logins : token[l] # None <=> pc[l] = "welcome"
    /\ expired \subseteq Logins
    /\ acting \in [Requests -> [login : Logins, row : UserRows] \cup {None}]
    /\ answer \in [Requests -> {"none", "unauthorized", "forbidden", "admitted"}]

(***************************************************************************)
(* An organisation is created together with an admin, who can grant it     *)
(* credits: the commit that creates it makes the user who logs in an admin *)
(* of it (oauth.py:115-141), whatever fails around it, and even if the     *)
(* user's row was loaded before another login changed it.  It need not     *)
(* keep that admin: a later login in another domain moves the user away    *)
(* (oauth.py:136).                                                         *)
(***************************************************************************)
OrganisationBornWithAdmin ==
    [][\A o \in orgs' \ orgs :
          \E a \in Accounts : /\ users'[a] # None
                              /\ users'[a].org = o
                              /\ users'[a].role = "admin"]_vars

(***************************************************************************)
(* "Never silently downgrade existing admins on re-login" (oauth.py:137),  *)
(* also when the login read the user before a concurrent one made it an    *)
(* admin; and a user never disappears.                                     *)
(***************************************************************************)
AdminsStayAdmins ==
    [][\A a \in Accounts : users[a] # None =>
          /\ users'[a] # None
          /\ users[a].role = "admin" => users'[a].role = "admin"]_vars

(***************************************************************************)
(* Only the first login of a domain makes an admin: no two logins founded  *)
(* the same organisation, however they raced (oauth.py:112-123), and each  *)
(* admin's account founded one.                                            *)
(***************************************************************************)
OneFounderEach ==
    /\ \A l, x \in founders : Domain(l) = Domain(x) => l = x
    /\ \A a \in Accounts : users[a] # None /\ users[a].role = "admin" =>
          \E l \in founders : AccountOf[l] = a /\ Domain(l) \in orgs

(***************************************************************************)
(* A request acts for the organisation its token names, and Google has     *)
(* reported an email of that organisation for the account in some login: a *)
(* token from before the user moved gives no access to the new             *)
(* organisation (dependencies.py:52-57).  Whether Google has verified the  *)
(* email is not looked at (oauth.py:103-107).                              *)
(***************************************************************************)
ActsInTokenTenant ==
    \A r \in Requests : acting[r] # None =>
        LET l == acting[r].login
        IN  /\ acting[r].row.org = token[l].org
            /\ \E x \in Logins : AccountOf[x] = AccountOf[l] /\ Domain(x) = token[l].org

(***************************************************************************)
(* Every callback is answered: nobody waits for ever for a unique value.   *)
(***************************************************************************)
EveryLoginEnds == <>(\A l \in Logins : pc[l] \in {"welcome", "denied"})
=============================================================================
