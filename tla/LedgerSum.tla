----------------------------- MODULE LedgerSum -----------------------------
(***************************************************************************)
(* The balance of an organisation is never stored: every query that needs  *)
(* it asks PostgreSQL for coalesce(sum(amount), 0) over the organisation's *)
(* rows of credit_transactions.  This module defines that aggregate for a  *)
(* finite set of rows and a function that gives each row its signed        *)
(* amount.                                                                 *)
(*                                                                         *)
(* The definition counts units instead of recursing over the rows: a row   *)
(* of amount 3 stands for three units of credit, a row of amount -2 for    *)
(* two units of debit.  It is the same number (MCCreditService compares it *)
(* with the recursive sum) and its algebra follows from the theorems on    *)
(* cardinalities, without induction (LedgerSumProofs).                     *)
(***************************************************************************)
EXTENDS Integers, FiniteSets

\* One element for each unit of a positive amount of a row of S.
Units(S, amount) == UNION {{r} \X (1 .. amount[r]) : r \in S}

\* The function that gives each row the opposite of its amount.
Opposite(amount) == [r \in DOMAIN amount |-> -amount[r]]

\* coalesce(sum(amount), 0) over the rows of S.
SumAmount(S, amount) ==
    Cardinality(Units(S, amount)) - Cardinality(Units(S, Opposite(amount)))
=============================================================================
