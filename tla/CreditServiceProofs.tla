------------------------ MODULE CreditServiceProofs ------------------------
(***************************************************************************)
(* Theorems about CreditService, for any number of organisations, server   *)
(* processes, requests, grants, rows and keys, and any prices.             *)
(*                                                                         *)
(* The argument for the balance.  If an organisation has a committed row   *)
(* when its first paid call starts, that row is in the snapshot of every   *)
(* SELECT ... FOR UPDATE, so a request that has passed it holds the row's  *)
(* lock until its transaction ends (SeedRowHeld).  Two requests of the     *)
(* organisation can therefore not both be between the balance check and    *)
(* the end of the transaction; in between the committed sum can only grow, *)
(* by grants, and the check's verdict stays true                           *)
(* (CheckedBalanceStillSuffices) until the debit is committed, which then  *)
(* leaves the balance at zero or above (NonNegativeBalance).               *)
(***************************************************************************)
EXTENDS CreditServiceProperties, LedgerSumProofs

\* A request that is about to clear a key knows the row.
RowToClearKnown == \A q \in Requests : pc[q] = "clearKey" => found[q] \in Rows

TypeInv == TypeOK /\ RowToClearKnown

-----------------------------------------------------------------------------
(***************************************************************************)
(* The constants of the ledger have their types.                           *)
(***************************************************************************)
LEMMA ConstantTypes ==
  /\ SeedRows \subseteq Rows /\ Grants \subseteq Rows /\ Requests \subseteq Rows
  /\ None \notin Rows
  /\ Amount \in [Rows -> Int]
  /\ \A q \in Requests : /\ Cost(q) \in Nat \ {0}
                         /\ Amount[q] = -Cost(q)
                         /\ OrgOf[q] \in Orgs
                         /\ ProcOf[q] \in Procs
                         /\ KeyOf[q] \in Keys \cup {None}
  /\ \A g \in Grants : Amount[g] \in Int /\ Amount[g] > 0
<1>1. \A q \in Requests : Cost(q) \in Nat \ {0}
  BY AmountsAssumption DEF Cost
<1>2. SeedRows \subseteq Rows /\ Grants \subseteq Rows /\ Requests \subseteq Rows
  BY DEF Rows
<1>3. \A r \in Rows : Amount[r] = IF r \in Requests THEN -Cost(r) ELSE Credit[r]
  BY DEF Amount
<1>4. \A r \in Rows : r \notin Requests => Credit[r] \in Int
  BY AmountsAssumption DEF Rows
<1>5. \A r \in Rows : Amount[r] \in Int
  BY <1>1, <1>3, <1>4
<1>6. Amount \in [Rows -> Int]
  BY <1>5 DEF Amount
<1>7. \A g \in Grants : g \notin Requests
  BY RowsAssumption
<1>8. \A g \in Grants : Amount[g] \in Int /\ Amount[g] > 0
  BY <1>2, <1>3, <1>5, <1>7, AmountsAssumption
<1>9. None \notin Rows
  BY RowsAssumption
<1>10. \A q \in Requests : /\ OrgOf[q] \in Orgs
                           /\ ProcOf[q] \in Procs
                           /\ KeyOf[q] \in Keys \cup {None}
  BY <1>2, ParametersAssumption
<1> QED BY <1>1, <1>2, <1>3, <1>6, <1>8, <1>9, <1>10

(***************************************************************************)
(* The end of a transaction keeps the types of the lock table.             *)
(***************************************************************************)
LEMMA ReleaseRowsTypes ==
  ASSUME TypeOK, NEW q \in Requests, ReleaseRows(q)
  PROVE  /\ rowLock' \in [Rows -> Requests \cup {None}]
         /\ toLock' \in [Requests -> SUBSET Rows]
         /\ nulled' \in [Requests -> SUBSET Rows]
         /\ pending' \subseteq Requests
BY DEF TypeOK, ReleaseRows

\* Releasing the asyncio lock keeps the type of orgLock.
LEMMA ReleaseOrgLockTypes ==
  ASSUME TypeOK, NEW q \in Requests, ReleaseOrgLock(q)
  PROVE  orgLock' \in [Procs -> [Orgs -> Requests \cup {None}]]
BY DEF TypeOK, ReleaseOrgLock

(***************************************************************************)
(* A deadlock's victim is inside deduct_credits, and for it the detector's *)
(* error is a statement that fails.                                        *)
(***************************************************************************)
LEMMA VictimsFail ==
  ASSUME NEW q \in Requests, DeadlockAbort(q)
  PROVE  StatementFails(q)
<1>1. pc[q] \in {"clearKey", "locking", "insert"}
  BY DEF DeadlockAbort, InWaitCycle, IsWaitCycle, BlockedOn
<1> QED BY <1>1 DEF DeadlockAbort, StatementFails, InDeduct

(***************************************************************************)
(* Every step keeps the types.                                             *)
(***************************************************************************)
LEMMA TypeInvInit == Init => TypeInv
BY ConstantTypes, ParametersAssumption
   DEF Init, TypeInv, TypeOK, RowToClearKnown, Rows

\* Every step preserves the types.
LEMMA TypeInvStep == TypeInv /\ [Next]_vars => TypeInv'
<1> SUFFICES ASSUME TypeInv, [Next]_vars  PROVE TypeInv'
  OBVIOUS
<1> USE DEF TypeInv, TypeOK, RowToClearKnown, InDeduct, Ended, dbVars, txVars
<1>1. ASSUME NEW q \in Requests, AcquireOrgLock(q)  PROVE TypeInv'
  BY <1>1 DEF AcquireOrgLock
<1>2. ASSUME NEW q \in Requests, LookupMiss(q)  PROVE TypeInv'
  BY <1>2 DEF LookupMiss
<1>3. ASSUME NEW q \in Requests, LookupFresh(q)  PROVE TypeInv'
  BY <1>3, ReleaseOrgLockTypes DEF LookupFresh, WithKey, OrgRows
<1>4. ASSUME NEW q \in Requests, LookupExpired(q)  PROVE TypeInv'
  BY <1>4 DEF LookupExpired, WithKey, OrgRows
<1>5. ASSUME NEW q \in Requests, ClearKey(q)  PROVE TypeInv'
  BY <1>5 DEF ClearKey
<1>6. ASSUME NEW q \in Requests, StartForUpdate(q)  PROVE TypeInv'
  BY <1>6 DEF StartForUpdate, OrgRows
<1>7. ASSUME NEW q \in Requests, LockRow(q)  PROVE TypeInv'
  BY <1>7 DEF LockRow
<1>8. ASSUME NEW q \in Requests, SufficientBalance(q)  PROVE TypeInv'
  BY <1>8 DEF SufficientBalance
<1>9. ASSUME NEW q \in Requests, InsufficientBalance(q)  PROVE TypeInv'
  BY <1>9, ReleaseOrgLockTypes, ReleaseRowsTypes DEF InsufficientBalance, Rollback
<1>10. ASSUME NEW q \in Requests, InsertDebit(q)  PROVE TypeInv'
  BY <1>10, ReleaseOrgLockTypes DEF InsertDebit
<1>11. ASSUME NEW q \in Requests, InsertConflict(q)  PROVE TypeInv'
  BY <1>11, ReleaseOrgLockTypes, ReleaseRowsTypes DEF InsertConflict, Rollback
<1>12. ASSUME NEW q \in Requests, CommitDebit(q)  PROVE TypeInv'
  BY <1>12, ReleaseRowsTypes, ConstantTypes DEF CommitDebit
<1>13. ASSUME NEW q \in Requests, CloseUncommitted(q)  PROVE TypeInv'
  BY <1>13, ReleaseRowsTypes DEF CloseUncommitted, Rollback
<1>14. ASSUME NEW q \in Requests, StatementFails(q)  PROVE TypeInv'
  BY <1>14, ReleaseOrgLockTypes, ReleaseRowsTypes DEF StatementFails, Abort, Rollback
<1>15. ASSUME NEW q \in Requests, Reap(q)  PROVE TypeInv'
  BY <1>15, ReleaseRowsTypes DEF Reap, Rollback
<1>16. ASSUME NEW g \in Grants, GrantCredits(g)  PROVE TypeInv'
  BY <1>16, ConstantTypes DEF GrantCredits
<1>17. ASSUME NEW r \in Rows, Expire(r)  PROVE TypeInv'
  BY <1>17 DEF Expire
<1>18. ASSUME NEW p \in Procs, Crash(p)  PROVE TypeInv'
  BY <1>18 DEF Crash, InFlight
<1>19. CASE UNCHANGED vars
  BY <1>19 DEF vars
<1> QED
  BY <1>1, <1>2, <1>3, <1>4, <1>5, <1>6, <1>7, <1>8, <1>9, <1>10, <1>11,
     <1>12, <1>13, <1>14, <1>15, <1>16, <1>17, <1>18, <1>19, VictimsFail
  DEF Next, Step, DeductStep, DatabaseStep

(***************************************************************************)
(* The variables keep their types in every behaviour of CreditService.     *)
(***************************************************************************)
THEOREM TypeCorrect == Spec => []TypeOK
<1>1. Spec => []TypeInv
  BY TypeInvInit, TypeInvStep, PTL DEF Spec
<1>2. TypeInv => TypeOK
  BY DEF TypeInv
<1> QED BY <1>1, <1>2, PTL

-----------------------------------------------------------------------------
(***************************************************************************)
(* The seed rows are committed, and stay so.                               *)
(***************************************************************************)
SeedsCommitted == SeedRows \subseteq committed

\* A debit that is not yet committed is not among the committed rows.
DebitsCommittedOnce == \A q \in Requests : q \in committed => pc[q] = "charged"

(***************************************************************************)
(* A request that runs SELECT ... FOR UPDATE has each seed row of its      *)
(* organisation still to lock or holds its lock; one that has passed it    *)
(* holds them all.                                                         *)
(***************************************************************************)
SeedRowHeld ==
    \A q \in Requests : \A s \in SeedOf(OrgOf[q]) :
        /\ pc[q] = "locking" => s \in toLock[q] \/ rowLock[s] = q
        /\ q \in Paying => rowLock[s] = q

\* Strengthening of the two invariants on the balance that steps preserve.
BalanceInv ==
    /\ TypeInv
    /\ SeedsCommitted
    /\ DebitsCommittedOnce
    /\ SeedRowHeld
    /\ CheckedBalanceStillSuffices
    /\ NonNegativeBalance

(***************************************************************************)
(* Balances are integers, and depend only on the committed rows.           *)
(***************************************************************************)
LEMMA BalanceType ==
  ASSUME TypeOK, NEW o
  PROVE  /\ OrgRows(o) \subseteq Rows
         /\ IsFiniteSet(OrgRows(o))
         /\ Balance(o) \in Int
<1>1. OrgRows(o) \subseteq Rows
  BY DEF TypeOK, OrgRows
<1>2. IsFiniteSet(OrgRows(o))
  BY <1>1, FS_Subset, RowsAssumption
<1>3. SumAmount(OrgRows(o), Amount) \in Int
  BY <1>1, <1>2, ConstantTypes, SumAmountType
<1> QED BY <1>1, <1>2, <1>3 DEF Balance

\* The balance depends on the committed rows alone.
LEMMA BalanceUnchanged ==
  ASSUME UNCHANGED committed, NEW o
  PROVE  Balance(o)' = Balance(o)
BY DEF Balance, OrgRows

(***************************************************************************)
(* Committing a row adds its amount to the balance of its organisation and *)
(* leaves the others alone.                                                *)
(***************************************************************************)
LEMMA BalanceAfterCommit ==
  ASSUME TypeOK, NEW x \in Rows, x \notin committed,
         committed' = committed \cup {x}, NEW o
  PROVE  Balance(o)' = Balance(o) + (IF OrgOf[x] = o THEN Amount[x] ELSE 0)
<1>1. Balance(o) \in Int /\ OrgRows(o) \subseteq Rows /\ IsFiniteSet(OrgRows(o))
  BY BalanceType
<1>2. CASE OrgOf[x] = o
  <2>1. OrgRows(o)' = OrgRows(o) \cup {x} /\ x \notin OrgRows(o)
    BY <1>2 DEF OrgRows
  <2>2. SumAmount(OrgRows(o) \cup {x}, Amount) = SumAmount(OrgRows(o), Amount) + Amount[x]
    BY <1>1, <2>1, ConstantTypes, SumAmountAddRow
  <2> QED BY <1>2, <2>1, <2>2 DEF Balance
<1>3. CASE OrgOf[x] # o
  <2>1. OrgRows(o)' = OrgRows(o)
    BY <1>3 DEF OrgRows
  <2> QED BY <1>1, <1>3, <2>1 DEF Balance
<1> QED BY <1>2, <1>3

(***************************************************************************)
(* Where every organisation has a seed row, two requests of one            *)
(* organisation are never both past the balance check.                     *)
(***************************************************************************)
LEMMA OnePayerAtATime ==
  ASSUME LedgerSeeded, TypeOK, SeedRowHeld,
         NEW q \in Paying, NEW r \in Paying, OrgOf[q] = OrgOf[r]
  PROVE  q = r
<1>1. q \in Requests /\ r \in Requests /\ OrgOf[q] \in Orgs
  BY ConstantTypes DEF Paying
<1>2. PICK s : s \in SeedOf(OrgOf[q])
  BY <1>1 DEF LedgerSeeded
<1> QED BY <1>1, <1>2 DEF SeedRowHeld

(***************************************************************************)
(* A step in which no request becomes Paying and no row is committed keeps *)
(* the two invariants on the balance.                                      *)
(***************************************************************************)
LEMMA QuietStep ==
  ASSUME TypeOK, CheckedBalanceStillSuffices, NonNegativeBalance,
         UNCHANGED committed, Paying' \subseteq Paying
  PROVE  CheckedBalanceStillSuffices' /\ NonNegativeBalance'
<1>1. \A o : Balance(o)' = Balance(o)
  BY BalanceUnchanged
<1> QED BY <1>1 DEF CheckedBalanceStillSuffices, NonNegativeBalance

\* The opening ledger is not overdrawn and nobody is past the check.
LEMMA BalanceInvInit ==
  ASSUME Init
  PROVE  BalanceInv
<1>1. TypeInv
  BY TypeInvInit
<1>2. \A q \in Requests : pc[q] = "idle" /\ q \notin committed
  BY RowsAssumption DEF Init
<1>3. SeedsCommitted /\ DebitsCommittedOnce
  BY <1>2 DEF Init, SeedsCommitted, DebitsCommittedOnce
<1>4. SeedRowHeld /\ CheckedBalanceStillSuffices
  BY <1>2 DEF SeedRowHeld, CheckedBalanceStillSuffices, Paying
<1>5. \A o \in Orgs : OrgRows(o) = SeedOf(o)
  BY DEF Init, OrgRows, SeedOf
<1>6. NonNegativeBalance
  BY <1>5, SeedAssumption DEF NonNegativeBalance, Balance
<1> QED BY <1>1, <1>3, <1>4, <1>6 DEF BalanceInv

(***************************************************************************)
(* Seed rows stay held: the locks a request holds are its own until its    *)
(* transaction ends.                                                       *)
(***************************************************************************)
LEMMA SeedRowHeldStep ==
  ASSUME TypeInv, TypeInv', SeedsCommitted, SeedRowHeld, [Next]_vars
  PROVE  SeedRowHeld'
<1> USE ConstantTypes
        DEF SeedRowHeld, SeedOf, Paying, TypeInv, TypeOK, dbVars, txVars
<1>1. ASSUME NEW q \in Requests, AcquireOrgLock(q)  PROVE SeedRowHeld'
  BY <1>1 DEF AcquireOrgLock
<1>2. ASSUME NEW q \in Requests, LookupMiss(q)  PROVE SeedRowHeld'
  BY <1>2 DEF LookupMiss
<1>3. ASSUME NEW q \in Requests, LookupFresh(q)  PROVE SeedRowHeld'
  BY <1>3 DEF LookupFresh
<1>4. ASSUME NEW q \in Requests, LookupExpired(q)  PROVE SeedRowHeld'
  BY <1>4 DEF LookupExpired
<1>5. ASSUME NEW q \in Requests, ClearKey(q)  PROVE SeedRowHeld'
  BY <1>5 DEF ClearKey
<1>6. ASSUME NEW q \in Requests, StartForUpdate(q)  PROVE SeedRowHeld'
  BY <1>6 DEF StartForUpdate, OrgRows, SeedsCommitted
<1>7. ASSUME NEW q \in Requests, LockRow(q)  PROVE SeedRowHeld'
  BY <1>7 DEF LockRow
<1>8. ASSUME NEW q \in Requests, SufficientBalance(q)  PROVE SeedRowHeld'
  BY <1>8 DEF SufficientBalance
<1>9. ASSUME NEW q \in Requests, InsufficientBalance(q)  PROVE SeedRowHeld'
  BY <1>9 DEF InsufficientBalance, Rollback, ReleaseRows
<1>10. ASSUME NEW q \in Requests, InsertDebit(q)  PROVE SeedRowHeld'
  BY <1>10 DEF InsertDebit
<1>11. ASSUME NEW q \in Requests, InsertConflict(q)  PROVE SeedRowHeld'
  BY <1>11 DEF InsertConflict, Rollback, ReleaseRows
<1>12. ASSUME NEW q \in Requests, CommitDebit(q)  PROVE SeedRowHeld'
  BY <1>12 DEF CommitDebit, ReleaseRows
<1>13. ASSUME NEW q \in Requests, CloseUncommitted(q)  PROVE SeedRowHeld'
  BY <1>13 DEF CloseUncommitted, Rollback, ReleaseRows
<1>14. ASSUME NEW q \in Requests, StatementFails(q)  PROVE SeedRowHeld'
  BY <1>14 DEF StatementFails, Abort, Rollback, ReleaseRows
<1>15. ASSUME NEW q \in Requests, Reap(q)  PROVE SeedRowHeld'
  BY <1>15 DEF Reap, Rollback, ReleaseRows
<1>16. ASSUME NEW g \in Grants, GrantCredits(g)  PROVE SeedRowHeld'
  BY <1>16 DEF GrantCredits
<1>17. ASSUME NEW r \in Rows, Expire(r)  PROVE SeedRowHeld'
  BY <1>17 DEF Expire
<1>18. ASSUME NEW p \in Procs, Crash(p)  PROVE SeedRowHeld'
  BY <1>18 DEF Crash, InFlight
<1>19. CASE UNCHANGED vars
  BY <1>19 DEF vars
<1> QED
  BY <1>1, <1>2, <1>3, <1>4, <1>5, <1>6, <1>7, <1>8, <1>9, <1>10, <1>11,
     <1>12, <1>13, <1>14, <1>15, <1>16, <1>17, <1>18, <1>19, VictimsFail
  DEF Next, Step, DeductStep, DatabaseStep

(***************************************************************************)
(* Rows enter the ledger by a grant or by the commit of a debit, and only  *)
(* the balance check lets a request become Paying.                         *)
(***************************************************************************)
LEMMA OtherStepsAreQuiet ==
  ASSUME TypeInv, [Next]_vars,
         \A q \in Requests : ~SufficientBalance(q) /\ ~CommitDebit(q),
         \A g \in Grants : ~GrantCredits(g)
  PROVE  /\ UNCHANGED committed
         /\ Paying' \subseteq Paying
         /\ \A q \in Requests : pc[q] = "charged" => pc'[q] = "charged"
<1> USE DEF Paying, TypeInv, TypeOK, InDeduct, dbVars, txVars
<1>1. CASE \E q \in Requests : Step(q) \/ StatementFails(q)
  <2> PICK q \in Requests : Step(q) \/ StatementFails(q)
    BY <1>1
  <2>1. CASE AcquireOrgLock(q)
    BY <2>1 DEF AcquireOrgLock
  <2>2. CASE LookupMiss(q) \/ LookupFresh(q) \/ LookupExpired(q)
    BY <2>2 DEF LookupMiss, LookupFresh, LookupExpired
  <2>3. CASE ClearKey(q) \/ StartForUpdate(q) \/ LockRow(q)
    BY <2>3 DEF ClearKey, StartForUpdate, LockRow
  <2>4. CASE InsufficientBalance(q)
    BY <2>4 DEF InsufficientBalance, Rollback
  <2>5. CASE InsertDebit(q) \/ InsertConflict(q)
    BY <2>5 DEF InsertDebit, InsertConflict, Rollback
  <2>6. CASE CloseUncommitted(q) \/ Reap(q)
    BY <2>6 DEF CloseUncommitted, Reap, Rollback
  <2>7. CASE StatementFails(q)
    BY <2>7 DEF StatementFails, Abort, Rollback
  <2> QED BY <2>1, <2>2, <2>3, <2>4, <2>5, <2>6, <2>7, VictimsFail
       DEF Step, DeductStep, DatabaseStep
<1>2. ASSUME NEW r \in Rows, Expire(r)
      PROVE  /\ UNCHANGED committed
             /\ Paying' \subseteq Paying
             /\ \A q \in Requests : pc[q] = "charged" => pc'[q] = "charged"
  BY <1>2 DEF Expire
<1>3. ASSUME NEW p \in Procs, Crash(p)
      PROVE  /\ UNCHANGED committed
             /\ Paying' \subseteq Paying
             /\ \A q \in Requests : pc[q] = "charged" => pc'[q] = "charged"
  BY <1>3 DEF Crash, InFlight
<1>4. CASE UNCHANGED vars
  BY <1>4 DEF vars
<1> QED BY <1>1, <1>2, <1>3, <1>4 DEF Next

\* Every step preserves the invariant of the balance.
LEMMA BalanceInvStep ==
  ASSUME LedgerSeeded, BalanceInv, [Next]_vars
  PROVE  BalanceInv'
<1> USE DEF BalanceInv
<1>1. TypeInv' /\ TypeOK /\ TypeOK'
  BY TypeInvStep DEF TypeInv
<1>2. SeedRowHeld'
  BY <1>1, SeedRowHeldStep
<1>3. ASSUME NEW q \in Requests, SufficientBalance(q)  PROVE BalanceInv'
  <2>1. /\ UNCHANGED committed
        /\ Paying' \subseteq Paying \cup {q}
        /\ \A r \in Requests : pc[r] = "charged" => pc'[r] = "charged"
    BY <1>1, <1>3 DEF SufficientBalance, Paying, TypeOK, dbVars
  <2>2. Balance(OrgOf[q]) >= Cost(q)
    BY <1>3 DEF SufficientBalance
  <2>3. \A o : Balance(o)' = Balance(o)
    BY <2>1, BalanceUnchanged
  <2>4. CheckedBalanceStillSuffices' /\ NonNegativeBalance'
    BY <2>1, <2>2, <2>3 DEF CheckedBalanceStillSuffices, NonNegativeBalance
  <2>5. SeedsCommitted' /\ DebitsCommittedOnce'
    BY <2>1 DEF SeedsCommitted, DebitsCommittedOnce
  <2> QED BY <1>1, <1>2, <2>4, <2>5
<1>4. ASSUME NEW q \in Requests, CommitDebit(q)  PROVE BalanceInv'
  <2>1. /\ q \in Paying /\ q \in Rows /\ q \notin committed
        /\ committed' = committed \cup {q}
        /\ pc' = [pc EXCEPT ![q] = "charged"]
    BY <1>4, ConstantTypes DEF CommitDebit, Paying, DebitsCommittedOnce
  <2>2. \A o : Balance(o)' = Balance(o) + (IF OrgOf[q] = o THEN -Cost(q) ELSE 0)
    BY <1>1, <2>1, BalanceAfterCommit, ConstantTypes
  <2>3. \A o : Balance(o) \in Int
    BY <1>1, BalanceType
  <2>4. Cost(q) \in Nat /\ Balance(OrgOf[q]) >= Cost(q) /\ OrgOf[q] \in Orgs
    BY <2>1, ConstantTypes DEF CheckedBalanceStillSuffices
  <2>5. NonNegativeBalance'
    BY <2>2, <2>3, <2>4 DEF NonNegativeBalance
  <2>6. ASSUME NEW r \in Paying'  PROVE Balance(OrgOf[r])' >= Cost(r)
    <3>1. r \in Paying /\ r # q
      BY <1>1, <2>1, <2>6 DEF Paying, TypeOK
    <3>2. OrgOf[r] # OrgOf[q]
      BY <1>1, <2>1, <3>1, OnePayerAtATime
    <3>3. Balance(OrgOf[r])' = Balance(OrgOf[r])
      BY <2>2, <2>3, <3>2
    <3> QED BY <3>1, <3>3 DEF CheckedBalanceStillSuffices
  <2>7. CheckedBalanceStillSuffices'
    BY <2>6 DEF CheckedBalanceStillSuffices
  <2>8. SeedsCommitted' /\ DebitsCommittedOnce'
    BY <1>1, <2>1 DEF SeedsCommitted, DebitsCommittedOnce, TypeOK
  <2> QED BY <1>1, <1>2, <2>5, <2>7, <2>8
<1>5. ASSUME NEW g \in Grants, GrantCredits(g)  PROVE BalanceInv'
  <2>1. /\ g \in Rows /\ g \notin committed
        /\ committed' = committed \cup {g}
        /\ UNCHANGED pc
        /\ Amount[g] \in Int /\ Amount[g] > 0
    BY <1>5, ConstantTypes DEF GrantCredits
  <2>2. \A o : Balance(o)' = Balance(o) + (IF OrgOf[g] = o THEN Amount[g] ELSE 0)
    BY <1>1, <2>1, BalanceAfterCommit
  <2>3. \A o : Balance(o) \in Int
    BY <1>1, BalanceType
  <2>4. \A o : Balance(o)' \in Int /\ Balance(o)' >= Balance(o)
    BY <2>1, <2>2, <2>3
  <2>5. Paying' = Paying
    BY <2>1 DEF Paying
  <2>6. \A q \in Paying : Cost(q) \in Int
    BY ConstantTypes DEF Paying
  <2>7. CheckedBalanceStillSuffices' /\ NonNegativeBalance'
    BY <2>3, <2>4, <2>5, <2>6 DEF CheckedBalanceStillSuffices, NonNegativeBalance
  <2>8. SeedsCommitted' /\ DebitsCommittedOnce'
    BY <2>1, RowsAssumption DEF SeedsCommitted, DebitsCommittedOnce
  <2> QED BY <1>1, <1>2, <2>7, <2>8
<1>6. CASE /\ \A q \in Requests : ~SufficientBalance(q) /\ ~CommitDebit(q)
           /\ \A g \in Grants : ~GrantCredits(g)
  <2>1. /\ UNCHANGED committed
        /\ Paying' \subseteq Paying
        /\ \A q \in Requests : pc[q] = "charged" => pc'[q] = "charged"
    BY <1>6, OtherStepsAreQuiet
  <2>2. CheckedBalanceStillSuffices' /\ NonNegativeBalance'
    BY <1>1, <2>1, QuietStep
  <2>3. SeedsCommitted' /\ DebitsCommittedOnce'
    BY <2>1 DEF SeedsCommitted, DebitsCommittedOnce
  <2> QED BY <1>1, <1>2, <2>2, <2>3
<1> QED BY <1>3, <1>4, <1>5, <1>6

(***************************************************************************)
(* Where every organisation has a row before its first paid call, no       *)
(* interleaving of any number of calls on any number of processes, with    *)
(* grants and crashes, takes a balance below zero (ARCHITECTURE.md:143).   *)
(***************************************************************************)
THEOREM BalanceNeverNegative ==
  ASSUME LedgerSeeded
  PROVE  Spec => []NonNegativeBalance
<1>1. Init => BalanceInv
  BY BalanceInvInit
<1>2. BalanceInv /\ [Next]_vars => BalanceInv'
  BY BalanceInvStep
<1>3. BalanceInv => NonNegativeBalance
  BY DEF BalanceInv
<1> QED BY <1>1, <1>2, <1>3, PTL DEF Spec

(***************************************************************************)
(* Under the same condition the verdict of the balance check               *)
(* (credit_service.py:89) is still right when the debit is committed.      *)
(***************************************************************************)
THEOREM BalanceCheckStaysValid ==
  ASSUME LedgerSeeded
  PROVE  Spec => []CheckedBalanceStillSuffices
<1>1. Init => BalanceInv
  BY BalanceInvInit
<1>2. BalanceInv /\ [Next]_vars => BalanceInv'
  BY BalanceInvStep
<1>3. BalanceInv => CheckedBalanceStillSuffices
  BY DEF BalanceInv
<1> QED BY <1>1, <1>2, <1>3, PTL DEF Spec
=============================================================================
