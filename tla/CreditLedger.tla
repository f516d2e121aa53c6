---------------------------- MODULE CreditLedger ----------------------------
(***************************************************************************)
(* What the credit system promises, with no transactions, locks or         *)
(* processes: every organisation has a balance that never goes below zero, *)
(* a grant raises it, a paid call lowers it by its price in one step, and  *)
(* an idempotency key that is in force cannot pay for a second call.       *)
(* CreditService is shown to implement it.                                 *)
(***************************************************************************)
EXTENDS Integers

CONSTANTS
    Orgs,          \* organisations
    Keys,          \* values of the Idempotency-Key header
    None,          \* no key
    Prices,        \* prices of the paid calls
    GrantSizes,    \* amounts an admin may grant
    OpeningBalance \* the balance of each organisation at the start

VARIABLES
    balance,       \* [Orgs -> Nat]
    live           \* the keys in force: pairs <<organisation, key>>

ledgerVars == <<balance, live>>

LedgerTypeOK ==
    /\ balance \in [Orgs -> Nat]
    /\ live \subseteq Orgs \X Keys

LedgerInit ==
    /\ balance = OpeningBalance
    /\ live \in SUBSET (Orgs \X Keys)

Grant(o, a) ==
    /\ balance' = [balance EXCEPT ![o] = @ + a]
    /\ UNCHANGED live

(***************************************************************************)
(* A call that carries no key (None) is only subject to the balance.       *)
(***************************************************************************)
Charge(o, price, k) ==
    /\ balance[o] >= price
    /\ <<o, k>> \notin live
    /\ balance' = [balance EXCEPT ![o] = @ - price]
    /\ live' = IF k = None THEN live ELSE live \cup {<<o, k>>}

\* 24 hours pass since the call that used k.
Lapse(o, k) ==
    /\ <<o, k>> \in live
    /\ live' = live \ {<<o, k>>}
    /\ UNCHANGED balance

LedgerNext ==
    \E o \in Orgs :
        \/ \E a \in GrantSizes : Grant(o, a)
        \/ \E price \in Prices, k \in Keys \cup {None} : Charge(o, price, k)
        \/ \E k \in Keys : Lapse(o, k)

LedgerSpec == LedgerInit /\ [][LedgerNext]_ledgerVars
=============================================================================
