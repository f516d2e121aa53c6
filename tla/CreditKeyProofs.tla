-------------------------- MODULE CreditKeyProofs --------------------------
(***************************************************************************)
(* Theorems about the idempotency keys, the locks and the abstract ledger  *)
(* of CreditService, for every value of its constants.  Those on keys and  *)
(* locks need no assumption about the ledger at the start.                 *)
(*                                                                         *)
(* The argument for the keys.  A row's key is what it was given until a    *)
(* transaction that found it expired commits (KeyAsGiven, NulledIsOwn).    *)
(* Once a transaction has inserted its debit, the unique index keeps the   *)
(* key for it: the only committed rows that still show the key are the     *)
(* ones it is clearing itself, and no other open transaction has inserted  *)
(* the key (KeyReserved).  Its commit therefore replaces the holder of the *)
(* key and never adds a second one (OneHolderPerKey).                      *)
(***************************************************************************)
EXTENDS CreditServiceProofs

\* A row shows the key it was given from its commit until it has expired.
KeyAsGiven ==
    \A r \in Rows :
        /\ keyOf[r] \in {KeyOf[r], None}
        /\ r \notin committed => keyOf[r] = None
        /\ r \in committed /\ keyOf[r] # KeyOf[r] => r \in expired

\* What a lookup found is a committed row of the same organisation and key.
FoundIsOwn ==
    \A q \in Requests :
        /\ pc[q] = "lookup" => HasKey(q)
        /\ pc[q] \in {"clearKey", "reused"} =>
              /\ HasKey(q)
              /\ found[q] \in committed
              /\ OrgOf[found[q]] = OrgOf[q]
              /\ KeyOf[found[q]] = KeyOf[q]
        /\ pc[q] = "clearKey" => found[q] \in expired

\* A transaction takes a key only from expired rows that hold its own.
NulledIsOwn ==
    \A q \in Requests : \A r \in nulled[q] :
        /\ r \in expired
        /\ OrgOf[r] = OrgOf[q]
        /\ KeyOf[r] = KeyOf[q]
        /\ HasKey(q)

\* A debit is inserted from its INSERT to the end of its transaction.
PendingUncommitted ==
    \A q \in Requests :
        /\ pc[q] = "deducted" => q \in pending
        /\ q \in pending => pc[q] \in {"deducted", "lost"} /\ q \notin committed
        /\ q \in committed => pc[q] = "charged"

(***************************************************************************)
(* The unique index on (organisation_id, idempotency_key): while a debit   *)
(* is inserted and not committed, nobody else has or gets its key.         *)
(***************************************************************************)
KeyReserved ==
    \A q \in pending : HasKey(q) =>
        /\ WithKey(q) \subseteq nulled[q]
        /\ \A x \in pending : SameKey(q, x) => x = q

OneHolderPerKey ==
    \A r, s \in committed :
        (OrgOf[r] = OrgOf[s] /\ keyOf[r] = keyOf[s] /\ keyOf[r] # None) => r = s

\* Strengthening of the properties of keys that steps preserve.
KeyInv ==
    /\ TypeInv
    /\ KeyAsGiven
    /\ FoundIsOwn
    /\ NulledIsOwn
    /\ PendingUncommitted
    /\ KeyReserved
    /\ OneHolderPerKey

-----------------------------------------------------------------------------
(***************************************************************************)
(* Only the commit of a debit, a grant and the passing of 24 hours change  *)
(* a committed row.                                                        *)
(***************************************************************************)
LEMMA LedgerSteps ==
  ASSUME [Next]_vars
  PROVE  \/ UNCHANGED dbVars
         \/ \E q \in Requests : CommitDebit(q)
         \/ \E g \in Grants : GrantCredits(g)
         \/ \E r \in Rows : Expire(r)
<1>1. ASSUME NEW q \in Requests, DeductStep(q)  PROVE UNCHANGED dbVars
  BY <1>1 DEF DeductStep, AcquireOrgLock, LookupMiss, LookupFresh, LookupExpired,
     ClearKey, StartForUpdate, LockRow, SufficientBalance, InsufficientBalance,
     InsertDebit, InsertConflict, Rollback
<1>2. ASSUME NEW q \in Requests,
             CloseUncommitted(q) \/ DatabaseStep(q) \/ StatementFails(q)
      PROVE  UNCHANGED dbVars
  BY <1>2 DEF CloseUncommitted, DatabaseStep, DeadlockAbort, StatementFails, Abort, Reap,
     Rollback
<1>3. ASSUME NEW p \in Procs, Crash(p)  PROVE UNCHANGED dbVars
  BY <1>3 DEF Crash
<1>4. CASE UNCHANGED vars
  BY <1>4 DEF vars
<1> QED BY <1>1, <1>2, <1>3, <1>4 DEF Next, Step

-----------------------------------------------------------------------------
\* The opening ledger repeats no key and nothing is in progress.
LEMMA KeyInvInit == Init => KeyInv
<1> SUFFICES ASSUME Init  PROVE KeyInv
  OBVIOUS
<1>1. TypeInv
  BY TypeInvInit
<1>2. KeyAsGiven /\ FoundIsOwn
  BY DEF Init, KeyAsGiven, FoundIsOwn
<1>3. NulledIsOwn /\ PendingUncommitted /\ KeyReserved
  BY RowsAssumption DEF Init, NulledIsOwn, PendingUncommitted, KeyReserved
<1>4. OneHolderPerKey
  BY SeedAssumption, ConstantTypes DEF Init, OneHolderPerKey
<1> QED BY <1>1, <1>2, <1>3, <1>4 DEF KeyInv

(***************************************************************************)
(* Every step keeps what KeyInv says of a transaction.                     *)
(***************************************************************************)
TransactionInv == FoundIsOwn /\ NulledIsOwn /\ PendingUncommitted /\ KeyReserved

\* What a transaction has found, cleared and inserted, step by step.
LEMMA TransactionInvStep ==
  ASSUME KeyInv, [Next]_vars
  PROVE  TransactionInv'
<1> USE ConstantTypes
    DEF KeyInv, TypeInv, TypeOK, RowToClearKnown, TransactionInv, FoundIsOwn, NulledIsOwn,
        PendingUncommitted, KeyReserved, WithKey, OrgRows, HasKey, SameKey,
        InDeduct, dbVars, txVars
<1>1. ASSUME NEW q \in Requests, AcquireOrgLock(q)  PROVE TransactionInv'
  BY <1>1 DEF AcquireOrgLock
<1>2. ASSUME NEW q \in Requests, LookupMiss(q)  PROVE TransactionInv'
  BY <1>2 DEF LookupMiss
<1>3. ASSUME NEW q \in Requests, LookupFresh(q)  PROVE TransactionInv'
  BY <1>3 DEF LookupFresh, KeyAsGiven
<1>4. ASSUME NEW q \in Requests, LookupExpired(q)  PROVE TransactionInv'
  BY <1>4 DEF LookupExpired, KeyAsGiven
<1>5. ASSUME NEW q \in Requests, ClearKey(q)  PROVE TransactionInv'
  BY <1>5 DEF ClearKey
<1>6. ASSUME NEW q \in Requests, StartForUpdate(q)  PROVE TransactionInv'
  BY <1>6 DEF StartForUpdate
<1>7. ASSUME NEW q \in Requests, LockRow(q)  PROVE TransactionInv'
  BY <1>7 DEF LockRow
<1>8. ASSUME NEW q \in Requests, SufficientBalance(q)  PROVE TransactionInv'
  BY <1>8 DEF SufficientBalance
<1>9. ASSUME NEW q \in Requests, InsufficientBalance(q)  PROVE TransactionInv'
  BY <1>9 DEF InsufficientBalance, Rollback, ReleaseRows
<1>10. ASSUME NEW q \in Requests, InsertDebit(q)  PROVE TransactionInv'
  BY <1>10 DEF InsertDebit, InsertWaitsFor, KeyTaken
<1>11. ASSUME NEW q \in Requests, InsertConflict(q)  PROVE TransactionInv'
  BY <1>11 DEF InsertConflict, Rollback, ReleaseRows
<1>12. ASSUME NEW q \in Requests, CommitDebit(q)  PROVE TransactionInv'
  BY <1>12 DEF CommitDebit, ReleaseRows
<1>13. ASSUME NEW q \in Requests, CloseUncommitted(q)  PROVE TransactionInv'
  BY <1>13 DEF CloseUncommitted, Rollback, ReleaseRows
<1>14. ASSUME NEW q \in Requests, StatementFails(q)  PROVE TransactionInv'
  BY <1>14 DEF StatementFails, Abort, Rollback, ReleaseRows
<1>15. ASSUME NEW q \in Requests, Reap(q)  PROVE TransactionInv'
  BY <1>15 DEF Reap, Rollback, ReleaseRows
<1>16. ASSUME NEW g \in Grants, GrantCredits(g)  PROVE TransactionInv'
  BY <1>16, RowsAssumption DEF GrantCredits, KeyAsGiven
<1>17. ASSUME NEW r \in Rows, Expire(r)  PROVE TransactionInv'
  BY <1>17 DEF Expire
<1>18. ASSUME NEW p \in Procs, Crash(p)  PROVE TransactionInv'
  BY <1>18 DEF Crash, InFlight
<1>19. CASE UNCHANGED vars
  BY <1>19 DEF vars
<1> QED
  BY <1>1, <1>2, <1>3, <1>4, <1>5, <1>6, <1>7, <1>8, <1>9, <1>10, <1>11,
     <1>12, <1>13, <1>14, <1>15, <1>16, <1>17, <1>18, <1>19, VictimsFail
  DEF Next, Step, DeductStep, DatabaseStep

(***************************************************************************)
(* The commit of a debit moves a key: no other committed row shows it any  *)
(* more, and the rows it was taken from had expired.                       *)
(***************************************************************************)
LEMMA CommitMovesKey ==
  ASSUME KeyInv, NEW q \in Requests, CommitDebit(q)
  PROVE  /\ q \in Rows /\ q \notin committed
         /\ committed' = committed \cup {q}
         /\ expired' = expired
         /\ keyOf'[q] = KeyOf[q]
         /\ \A r \in committed :
               \/ r \notin nulled[q] /\ keyOf'[r] = keyOf[r]
               \/ r \in nulled[q] /\ r \in expired /\ keyOf'[r] = None
         /\ HasKey(q) => \A r \in WithKey(q) : keyOf'[r] = None
<1>1. q \in Rows /\ q \notin committed /\ q \in pending
  BY ConstantTypes DEF KeyInv, PendingUncommitted, CommitDebit
<1>2. /\ committed' = committed \cup {q}
      /\ expired' = expired
      /\ keyOf' = [r \in Rows |-> IF r = q THEN KeyOf[q]
                                  ELSE IF r \in nulled[q] THEN None ELSE keyOf[r]]
  BY DEF CommitDebit
<1>3. committed \subseteq Rows /\ \A r \in nulled[q] : r \in expired
  BY DEF KeyInv, TypeInv, TypeOK, NulledIsOwn
<1>4. HasKey(q) => WithKey(q) \subseteq nulled[q] /\ WithKey(q) \subseteq committed
  BY <1>1 DEF KeyInv, KeyReserved, WithKey, OrgRows
<1> QED BY <1>1, <1>2, <1>3, <1>4

\* Every step preserves the invariant of the keys.
LEMMA KeyInvStep == KeyInv /\ [Next]_vars => KeyInv'
<1> SUFFICES ASSUME KeyInv, [Next]_vars  PROVE KeyInv'
  OBVIOUS
<1>1. TypeInv' /\ TransactionInv'
  BY TypeInvStep, TransactionInvStep DEF KeyInv
<1>2. KeyAsGiven' /\ OneHolderPerKey'
  <2>1. CASE UNCHANGED dbVars
    BY <2>1 DEF KeyInv, KeyAsGiven, OneHolderPerKey, dbVars
  <2>2. ASSUME NEW q \in Requests, CommitDebit(q)
        PROVE  KeyAsGiven' /\ OneHolderPerKey'
    <3>1. KeyAsGiven'
      BY <2>2 DEF CommitDebit, KeyInv, KeyAsGiven, NulledIsOwn
    <3>2. ASSUME NEW r \in committed, OrgOf[r] = OrgOf[q], keyOf'[q] # None
          PROVE  keyOf'[r] # keyOf'[q]
      BY <2>2, <3>2, CommitMovesKey DEF WithKey, OrgRows, HasKey
    <3>3. ASSUME NEW r \in committed, NEW t \in committed, OrgOf[r] = OrgOf[t],
                 keyOf'[r] = keyOf'[t], keyOf'[r] # None
          PROVE  r = t
      BY <2>2, <3>3, CommitMovesKey DEF KeyInv, OneHolderPerKey
    <3>4. committed' = committed \cup {q}
      BY <2>2 DEF CommitDebit
    <3> QED BY <3>1, <3>2, <3>3, <3>4 DEF OneHolderPerKey
  <2>3. ASSUME NEW g \in Grants, GrantCredits(g)
        PROVE  KeyAsGiven' /\ OneHolderPerKey'
    BY <2>3, ParametersAssumption, ConstantTypes
    DEF GrantCredits, KeyInv, KeyAsGiven, OneHolderPerKey
  <2>4. ASSUME NEW r \in Rows, Expire(r)
        PROVE  KeyAsGiven' /\ OneHolderPerKey'
    BY <2>4 DEF Expire, KeyInv, KeyAsGiven, OneHolderPerKey
  <2> QED BY <2>1, <2>2, <2>3, <2>4, LedgerSteps
<1> QED BY <1>1, <1>2 DEF KeyInv, TransactionInv

-----------------------------------------------------------------------------
(***************************************************************************)
(* Among any number of racing and repeated calls, two committed debits of  *)
(* an organisation that carried one Idempotency-Key are never both within  *)
(* its TTL (credit_service.py:53-73 and the unique index).                 *)
(***************************************************************************)
THEOREM KeyPaysOnce == Spec => []OneDebitPerKey
<1>1. Spec => []KeyInv
  BY KeyInvInit, KeyInvStep, PTL DEF Spec
<1>2. KeyInv => OneDebitPerKey
  <2> SUFFICES ASSUME KeyInv, NEW q \in committed, NEW r \in committed,
                      q # r, OrgOf[q] = OrgOf[r], KeyOf[q] # None, KeyOf[q] = KeyOf[r]
               PROVE  q \in expired \/ r \in expired
    BY DEF OneDebitPerKey
  <2>1. keyOf[q] # keyOf[r] \/ keyOf[q] = None
    BY DEF KeyInv, OneHolderPerKey
  <2>2. q \in Rows /\ r \in Rows
    BY DEF KeyInv, TypeInv, TypeOK
  <2> QED BY <2>1, <2>2 DEF KeyInv, KeyAsGiven
<1> QED BY <1>1, <1>2, PTL

(***************************************************************************)
(* A call that is answered as a repetition repeats a committed call of its *)
(* own organisation with its own key (credit_service.py:53-66).            *)
(***************************************************************************)
THEOREM ReuseIsOwn == Spec => []ReuseRepeatsOwnCall
<1>1. Spec => []KeyInv
  BY KeyInvInit, KeyInvStep, PTL DEF Spec
<1>2. KeyInv => ReuseRepeatsOwnCall
  BY DEF KeyInv, FoundIsOwn, ReuseRepeatsOwnCall
<1> QED BY <1>1, <1>2, PTL

(***************************************************************************)
(* Rows are never removed, and a key leaves a row only by the commit of    *)
(* the debit that takes it over, after the row has expired                 *)
(* (credit_service.py:67-73).                                              *)
(***************************************************************************)
THEOREM KeysOnlyChangeHands == Spec => KeyChangesHands
<1> DEFINE Moves ==
      /\ committed \subseteq committed'
      /\ \A r \in committed :
            keyOf'[r] # keyOf[r] =>
                /\ r \in expired
                /\ \E q \in committed' \ committed :
                       OrgOf[q] = OrgOf[r] /\ keyOf'[q] = keyOf[r]
<1>1. ASSUME KeyInv, [Next]_vars  PROVE Moves
  <2>1. CASE UNCHANGED dbVars
    BY <2>1 DEF dbVars
  <2>2. ASSUME NEW q \in Requests, CommitDebit(q)  PROVE Moves
    <3>1. ASSUME NEW r \in committed, keyOf'[r] # keyOf[r]
          PROVE  /\ r \in expired
                 /\ OrgOf[q] = OrgOf[r] /\ keyOf'[q] = keyOf[r]
      <4>1. r \in nulled[q] /\ r \in expired /\ keyOf'[r] = None
        BY <1>1, <2>2, <3>1, CommitMovesKey
      <4>2. r \in Rows /\ keyOf[r] = KeyOf[r]
        BY <1>1, <3>1, <4>1 DEF KeyInv, TypeInv, TypeOK, KeyAsGiven
      <4> QED BY <1>1, <2>2, <4>1, <4>2, CommitMovesKey DEF KeyInv, NulledIsOwn
    <3>2. q \in committed' \ committed /\ committed \subseteq committed'
      BY <1>1, <2>2, CommitMovesKey
    <3> QED BY <3>1, <3>2
  <2>3. ASSUME NEW g \in Grants, GrantCredits(g)  PROVE Moves
    BY <2>3 DEF GrantCredits
  <2>4. ASSUME NEW r \in Rows, Expire(r)  PROVE Moves
    BY <2>4 DEF Expire
  <2> QED BY <1>1, <2>1, <2>2, <2>3, <2>4, LedgerSteps
<1>2. KeyInv /\ [Next]_vars => [Moves]_vars
  BY <1>1
<1>3. Spec => []KeyInv
  BY KeyInvInit, KeyInvStep, PTL DEF Spec
<1> QED BY <1>2, <1>3, PTL DEF Spec, KeyChangesHands

-----------------------------------------------------------------------------
(***************************************************************************)
(* Who waits for whom.  A request is inside deduct_credits only while it   *)
(* holds its process's asyncio lock of its organisation, and whatever a    *)
(* transaction locks or waits for belongs to its organisation.             *)
(***************************************************************************)
OrgLockHeld ==
    \A q \in Requests : pc[q] \in InDeduct => orgLock[ProcOf[q]][OrgOf[q]] = q

LocksInOwnOrg ==
    /\ \A r \in Rows : rowLock[r] # None => OrgOf[rowLock[r]] = OrgOf[r]
    /\ \A q \in Requests : \A r \in toLock[q] : OrgOf[r] = OrgOf[q]

WaitInv == OrgLockHeld /\ LocksInOwnOrg

\* At the start nobody waits.
LEMMA WaitInvInit == Init => WaitInv
BY ConstantTypes DEF Init, WaitInv, OrgLockHeld, LocksInOwnOrg, InDeduct

\* Every step preserves the invariant of the waits.
LEMMA WaitInvStep ==
  ASSUME KeyInv, WaitInv, [Next]_vars
  PROVE  WaitInv'
<1> USE ConstantTypes
    DEF KeyInv, TypeInv, TypeOK, RowToClearKnown, WaitInv, OrgLockHeld, LocksInOwnOrg,
        ReleaseOrgLock, InDeduct, dbVars, txVars
<1>1. ASSUME NEW q \in Requests, AcquireOrgLock(q)  PROVE WaitInv'
  BY <1>1 DEF AcquireOrgLock
<1>2. ASSUME NEW q \in Requests, LookupMiss(q)  PROVE WaitInv'
  BY <1>2 DEF LookupMiss
<1>3. ASSUME NEW q \in Requests, LookupFresh(q)  PROVE WaitInv'
  BY <1>3 DEF LookupFresh
<1>4. ASSUME NEW q \in Requests, LookupExpired(q)  PROVE WaitInv'
  BY <1>4 DEF LookupExpired
<1>5. ASSUME NEW q \in Requests, ClearKey(q)  PROVE WaitInv'
  BY <1>5 DEF ClearKey, FoundIsOwn
<1>6. ASSUME NEW q \in Requests, StartForUpdate(q)  PROVE WaitInv'
  BY <1>6 DEF StartForUpdate, OrgRows
<1>7. ASSUME NEW q \in Requests, LockRow(q)  PROVE WaitInv'
  BY <1>7 DEF LockRow
<1>8. ASSUME NEW q \in Requests, SufficientBalance(q)  PROVE WaitInv'
  BY <1>8 DEF SufficientBalance
<1>9. ASSUME NEW q \in Requests, InsufficientBalance(q)  PROVE WaitInv'
  BY <1>9 DEF InsufficientBalance, Rollback, ReleaseRows
<1>10. ASSUME NEW q \in Requests, InsertDebit(q)  PROVE WaitInv'
  BY <1>10 DEF InsertDebit
<1>11. ASSUME NEW q \in Requests, InsertConflict(q)  PROVE WaitInv'
  BY <1>11 DEF InsertConflict, Rollback, ReleaseRows
<1>12. ASSUME NEW q \in Requests, CommitDebit(q)  PROVE WaitInv'
  BY <1>12 DEF CommitDebit, ReleaseRows
<1>13. ASSUME NEW q \in Requests, CloseUncommitted(q)  PROVE WaitInv'
  BY <1>13 DEF CloseUncommitted, Rollback, ReleaseRows
<1>14. ASSUME NEW q \in Requests, StatementFails(q)  PROVE WaitInv'
  BY <1>14 DEF StatementFails, Abort, Rollback, ReleaseRows
<1>15. ASSUME NEW q \in Requests, Reap(q)  PROVE WaitInv'
  BY <1>15 DEF Reap, Rollback, ReleaseRows
<1>16. ASSUME NEW g \in Grants, GrantCredits(g)  PROVE WaitInv'
  BY <1>16 DEF GrantCredits
<1>17. ASSUME NEW r \in Rows, Expire(r)  PROVE WaitInv'
  BY <1>17 DEF Expire
<1>18. ASSUME NEW p \in Procs, Crash(p)  PROVE WaitInv'
  BY <1>18 DEF Crash, InFlight
<1>19. CASE UNCHANGED vars
  BY <1>19 DEF vars
<1> QED
  BY <1>1, <1>2, <1>3, <1>4, <1>5, <1>6, <1>7, <1>8, <1>9, <1>10, <1>11,
     <1>12, <1>13, <1>14, <1>15, <1>16, <1>17, <1>18, <1>19, VictimsFail
  DEF Next, Step, DeductStep, DatabaseStep

(***************************************************************************)
(* Whoever waits is inside deduct_credits, and waits for another           *)
(* transaction of its own organisation.                                    *)
(***************************************************************************)
LEMMA WaitsInOwnOrg ==
  ASSUME KeyInv, WaitInv, NEW x \in Requests, NEW y \in BlockedOn(x)
  PROVE  pc[x] \in InDeduct /\ OrgOf[y] = OrgOf[x] /\ y # x
<1> USE DEF KeyInv, TypeInv, TypeOK
<1>1. CASE pc[x] = "clearKey"
  BY <1>1 DEF BlockedOn, InDeduct, WaitInv, LocksInOwnOrg, FoundIsOwn
<1>2. CASE pc[x] = "locking"
  BY <1>2 DEF BlockedOn, InDeduct, WaitInv, LocksInOwnOrg
<1>3. CASE pc[x] = "insert"
  <2>1. y \in Requests \ {x} /\ (SameKey(x, y) \/ WithKey(x) \cap nulled[y] # {})
    BY <1>3 DEF BlockedOn, InsertWaitsFor
  <2> QED BY <1>3, <2>1 DEF InDeduct, SameKey, WithKey, OrgRows, NulledIsOwn
<1> QED BY <1>1, <1>2, <1>3 DEF BlockedOn

(***************************************************************************)
(* The asyncio lock of an organisation keeps the requests of one process   *)
(* from blocking each other in PostgreSQL: whatever the number of          *)
(* transactions in a cycle of waits, it spans two processes                *)
(* (credit_service.py:48).                                                 *)
(***************************************************************************)
THEOREM NoDeadlockWithinProcess == Spec => []DeadlockSpansProcesses
<1>1. Spec => []KeyInv
  BY KeyInvInit, KeyInvStep, PTL DEF Spec
<1>2. KeyInv /\ WaitInv /\ [Next]_vars => WaitInv'
  BY WaitInvStep
<1>3. KeyInv /\ WaitInv => DeadlockSpansProcesses
  <2> SUFFICES ASSUME KeyInv, WaitInv, NEW D \in SUBSET Requests, IsWaitCycle(D),
                      \A q, r \in D : ProcOf[q] = ProcOf[r]
               PROVE  FALSE
    BY DEF DeadlockSpansProcesses
  <2>1. PICK x \in D : TRUE
    BY DEF IsWaitCycle
  <2>2. PICK y \in D : y \in BlockedOn(x)
    BY DEF IsWaitCycle
  <2>3. PICK z \in D : z \in BlockedOn(y)
    BY DEF IsWaitCycle
  <2>4. /\ pc[x] \in InDeduct /\ pc[y] \in InDeduct
        /\ OrgOf[x] = OrgOf[y] /\ x # y
    BY <2>2, <2>3, WaitsInOwnOrg
  <2> QED BY <2>4 DEF WaitInv, OrgLockHeld
<1> QED BY <1>1, <1>2, <1>3, WaitInvInit, PTL DEF Spec

-----------------------------------------------------------------------------
(***************************************************************************)
(* The committed rows implement CreditLedger.  Of the steps of a request   *)
(* only the commit is visible, as one Charge; BalanceInv says that the     *)
(* balance suffices for it, KeyInv that its key is not in force.           *)
(***************************************************************************)
LedgerBalance == [o \in Orgs |-> Balance(o)]

KeysInForce == {<<OrgOf[r], keyOf[r]>> : r \in {x \in committed \ expired : keyOf[x] # None}}

\* The initial states map to the initial states of the abstract ledger.
LEMMA LedgerInitMaps == Init => Ledger!LedgerInit
<1> SUFFICES ASSUME Init  PROVE Ledger!LedgerInit
  OBVIOUS
<1>1. \A o \in Orgs : Balance(o) = SumAmount(SeedOf(o), Amount)
  BY DEF Init, Balance, OrgRows, SeedOf
<1>2. KeysInForce \subseteq Orgs \X Keys
  BY ConstantTypes, ParametersAssumption DEF Init, KeysInForce
<1> QED BY <1>1, <1>2 DEF Ledger!LedgerInit, KeysInForce

(***************************************************************************)
(* A commit charges the organisation and puts the request's key in force.  *)
(***************************************************************************)
LEMMA CommitMapsToCharge ==
  ASSUME BalanceInv, KeyInv, NEW q \in Requests, CommitDebit(q)
  PROVE  Ledger!Charge(OrgOf[q], Cost(q), KeyOf[q])
<1> DEFINE o == OrgOf[q]
           k == KeyOf[q]
<1>1. /\ q \in Rows /\ o \in Orgs /\ Amount[q] = -Cost(q) /\ Cost(q) \in Nat
      /\ TypeOK /\ q \in Paying
  BY ConstantTypes DEF BalanceInv, TypeInv, CommitDebit, Paying
<1>2. \A p : Balance(p) \in Int
  BY <1>1, BalanceType
<1>3. \A p : Balance(p)' = Balance(p) + (IF o = p THEN -Cost(q) ELSE 0)
  BY <1>1, CommitMovesKey, BalanceAfterCommit
<1>4. LedgerBalance[o] >= Cost(q)
  BY <1>1 DEF BalanceInv, CheckedBalanceStillSuffices, LedgerBalance
<1>5. LedgerBalance' = [LedgerBalance EXCEPT ![o] = @ - Cost(q)]
  BY <1>1, <1>2, <1>3 DEF LedgerBalance
<1>6. <<o, k>> \notin KeysInForce
  <2> SUFFICES ASSUME NEW r \in committed \ expired, keyOf[r] # None,
                      OrgOf[r] = o, keyOf[r] = k
               PROVE  FALSE
    BY DEF KeysInForce
  <2>1. HasKey(q) /\ r \in WithKey(q)
    BY DEF HasKey, WithKey, OrgRows
  <2> QED BY <2>1, CommitMovesKey
<1>7. KeysInForce' = IF k = None THEN KeysInForce ELSE KeysInForce \cup {<<o, k>>}
  <2>1. \A r \in committed \ expired : keyOf'[r] = keyOf[r]
    BY CommitMovesKey
  <2>2. /\ committed' \ expired' = (committed \ expired) \cup {q}
        /\ keyOf'[q] = k
    BY <1>1, CommitMovesKey DEF TypeOK
  <2> QED BY <2>1, <2>2 DEF KeysInForce
<1> QED BY <1>4, <1>5, <1>6, <1>7 DEF Ledger!Charge, LedgerBalance, KeysInForce

(***************************************************************************)
(* A grant is a Grant of its amount.                                       *)
(***************************************************************************)
LEMMA GrantMapsToGrant ==
  ASSUME BalanceInv, KeyInv, NEW g \in Grants, GrantCredits(g)
  PROVE  Ledger!Grant(OrgOf[g], Credit[g])
<1>1. /\ g \in Rows /\ OrgOf[g] \in Orgs /\ Amount[g] = Credit[g] /\ TypeOK
  BY ConstantTypes, ParametersAssumption, RowsAssumption DEF BalanceInv, TypeInv, Amount
<1>2. \A p : Balance(p) \in Int
  BY <1>1, BalanceType
<1>3. \A p : Balance(p)' = Balance(p) + (IF OrgOf[g] = p THEN Credit[g] ELSE 0)
  BY <1>1, BalanceAfterCommit DEF GrantCredits
<1>4. LedgerBalance' = [LedgerBalance EXCEPT ![OrgOf[g]] = @ + Credit[g]]
  BY <1>1, <1>2, <1>3 DEF LedgerBalance
<1>5. keyOf[g] = None
  BY <1>1 DEF KeyInv, KeyAsGiven, GrantCredits
<1>6. KeysInForce' = KeysInForce
  BY <1>5 DEF GrantCredits, KeysInForce
<1> QED BY <1>4, <1>6 DEF Ledger!Grant, LedgerBalance, KeysInForce

(***************************************************************************)
(* The end of a row's TTL lapses its key: no other row holds it.           *)
(***************************************************************************)
LEMMA ExpireMapsToLapse ==
  ASSUME KeyInv, NEW r \in Rows, Expire(r), NEW k, k = keyOf[r]
  PROVE  k \in Keys /\ Ledger!Lapse(OrgOf[r], k)
<1>1. /\ r \in committed /\ r \notin expired /\ k # None
      /\ UNCHANGED <<committed, keyOf>> /\ expired' = expired \cup {r}
      /\ k \in Keys
  BY DEF Expire, KeyInv, TypeInv, TypeOK
<1>2. <<OrgOf[r], k>> \in KeysInForce
  BY <1>1 DEF KeysInForce
<1>3. \A s \in committed : OrgOf[s] = OrgOf[r] /\ keyOf[s] = k => s = r
  BY <1>1 DEF KeyInv, OneHolderPerKey
<1>4. KeysInForce' = KeysInForce \ {<<OrgOf[r], k>>}
  BY <1>1, <1>3 DEF KeysInForce
<1>5. LedgerBalance' = LedgerBalance
  BY <1>1, BalanceUnchanged DEF LedgerBalance
<1> QED BY <1>1, <1>2, <1>4, <1>5 DEF Ledger!Lapse, LedgerBalance, KeysInForce

\* Every step maps to a step of the abstract ledger or to a stutter.
LEMMA LedgerStepMaps ==
  ASSUME BalanceInv, KeyInv, [Next]_vars
  PROVE  [Ledger!LedgerNext]_(Ledger!ledgerVars)
<1>1. CASE UNCHANGED dbVars
  <2>1. LedgerBalance' = LedgerBalance /\ KeysInForce' = KeysInForce
    BY <1>1, BalanceUnchanged DEF LedgerBalance, KeysInForce, dbVars
  <2> QED BY <2>1 DEF Ledger!ledgerVars, LedgerBalance, KeysInForce
<1>2. ASSUME NEW q \in Requests, CommitDebit(q)  PROVE Ledger!LedgerNext
  <2>1. /\ OrgOf[q] \in Orgs
        /\ Cost(q) \in {AnalysisCost, SummariseCost}
        /\ KeyOf[q] \in Keys \cup {None}
    BY ConstantTypes DEF Cost
  <2> QED BY <1>2, <2>1, CommitMapsToCharge DEF Ledger!LedgerNext
<1>3. ASSUME NEW g \in Grants, GrantCredits(g)  PROVE Ledger!LedgerNext
  <2>1. OrgOf[g] \in Orgs /\ Credit[g] \in {Credit[h] : h \in Grants}
    BY ConstantTypes, ParametersAssumption
  <2> QED BY <1>3, <2>1, GrantMapsToGrant DEF Ledger!LedgerNext
<1>4. ASSUME NEW r \in Rows, Expire(r)  PROVE Ledger!LedgerNext
  <2>1. OrgOf[r] \in Orgs
    BY ParametersAssumption
  <2>2. PICK k : k = keyOf[r]
    OBVIOUS
  <2>3. k \in Keys /\ Ledger!Lapse(OrgOf[r], k)
    BY <1>4, <2>2, ExpireMapsToLapse
  <2> QED BY <2>1, <2>3 DEF Ledger!LedgerNext
<1> QED BY <1>1, <1>2, <1>3, <1>4, LedgerSteps

(***************************************************************************)
(* Where every organisation has a row before its first paid call, the      *)
(* credit service with its statements, locks, rollbacks and crashes        *)
(* implements the atomic ledger: grants, charges that the balance covers   *)
(* and whose key is not in force, and lapses of keys.                      *)
(***************************************************************************)
THEOREM LedgerRefinement ==
  ASSUME LedgerSeeded
  PROVE  Spec => ImplementsLedger
<1>1. Init => BalanceInv /\ KeyInv /\ Ledger!LedgerInit
  BY BalanceInvInit, KeyInvInit, LedgerInitMaps
<1>2. BalanceInv /\ KeyInv /\ [Next]_vars => BalanceInv' /\ KeyInv'
  BY BalanceInvStep, KeyInvStep
<1>3. BalanceInv /\ KeyInv /\ [Next]_vars => [Ledger!LedgerNext]_(Ledger!ledgerVars)
  BY LedgerStepMaps
<1> QED BY <1>1, <1>2, <1>3, PTL DEF Spec, ImplementsLedger, Ledger!LedgerSpec
=============================================================================
