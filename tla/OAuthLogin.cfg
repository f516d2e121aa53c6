\* Account b and account a race for the first login of domain A; account a
\* logs in again with an email of domain B.
CONSTANTS
    l1 = l1
    l2 = l2
    l3 = l3
    l4 = l4
    a = a
    b = b
    domA = domA
    domB = domB
    mailA = mailA
    mailB = mailB
    mailC = mailC
    r1 = r1
    None = None
    Logins = {l1, l2, l3, l4}
    Requests = {r1}
    Accounts = {a, b}
    AccountOf <- MCAccountOf
    EmailOf <- MCEmailOf
    DomainOf <- MCDomainOf
SPECIFICATION LoginFairSpec
INVARIANTS
    LoginTypeOK
    OneFounderEach
    ActsInTokenTenant
PROPERTIES
    OrganisationBornWithAdmin
    AdminsStayAdmins
    EveryLoginEnds
CHECK_DEADLOCK FALSE
