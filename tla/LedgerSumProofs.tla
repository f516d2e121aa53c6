-------------------------- MODULE LedgerSumProofs --------------------------
(***************************************************************************)
(* The algebra of SumAmount: it is an integer, and appending one row to a  *)
(* ledger adds that row's amount to its sum.                               *)
(***************************************************************************)
EXTENDS LedgerSum, FunctionTheorems, FiniteSetTheorems, TLAPS

(***************************************************************************)
(* A finite set of rows has finitely many units, whatever their amounts.   *)
(***************************************************************************)
LEMMA UnitsFinite ==
  ASSUME NEW S, IsFiniteSet(S), NEW amount, \A r \in S : amount[r] \in Int
  PROVE  /\ IsFiniteSet(Units(S, amount))
         /\ Cardinality(Units(S, amount)) \in Nat
<1> DEFINE cell == [r \in S |-> {r} \X (1 .. amount[r])]
           cells == {{r} \X (1 .. amount[r]) : r \in S}
<1>1. cell \in Surjection(S, cells)
  BY DEF Surjection
<1>2. IsFiniteSet(cells)
  <2> HIDE DEF cell, cells
  <2> QED BY <1>1, FS_Surjection
<1>3. ASSUME NEW T \in cells  PROVE IsFiniteSet(T)
  <2>1. PICK r \in S : T = {r} \X (1 .. amount[r])
    OBVIOUS
  <2>2. IsFiniteSet({r})
    BY FS_Singleton
  <2>3. amount[r] \in Int
    BY <2>1
  <2>4. IsFiniteSet(1 .. amount[r])
    <3> HIDE DEF cell, cells
    <3> QED BY <2>3, FS_Interval
  <2> QED BY <2>1, <2>2, <2>4, FS_Product
<1>4. IsFiniteSet(UNION cells)
  <2> HIDE DEF cells
  <2> QED BY <1>2, <1>3, FS_UNION
<1> QED BY <1>4, FS_CardinalityType DEF Units

(***************************************************************************)
(* A new row brings as many units as its amount is positive.               *)
(***************************************************************************)
LEMMA UnitsAddRow ==
  ASSUME NEW S, IsFiniteSet(S), NEW x, x \notin S,
         NEW amount, \A r \in S \cup {x} : amount[r] \in Int
  PROVE  Cardinality(Units(S \cup {x}, amount)) =
           Cardinality(Units(S, amount))
             + (IF amount[x] > 0 THEN amount[x] ELSE 0)
<1> DEFINE new == {x} \X (1 .. amount[x])
<1>1. Units(S \cup {x}, amount) = Units(S, amount) \cup new
  BY DEF Units
<1>2. Units(S, amount) \cap new = {}
  BY DEF Units
<1>3. IsFiniteSet(Units(S, amount)) /\ Cardinality(Units(S, amount)) \in Nat
  BY UnitsFinite
<1>4. /\ IsFiniteSet(new)
      /\ Cardinality(new) = IF amount[x] > 0 THEN amount[x] ELSE 0
  <2>1. IsFiniteSet({x}) /\ Cardinality({x}) = 1
    BY FS_Singleton
  <2>2. /\ IsFiniteSet(1 .. amount[x])
        /\ Cardinality(1 .. amount[x]) = IF amount[x] > 0 THEN amount[x] ELSE 0
    BY FS_Interval
  <2>3. /\ IsFiniteSet(new)
        /\ Cardinality(new) = Cardinality({x}) * Cardinality(1 .. amount[x])
    BY <2>1, <2>2, FS_Product
  <2> QED BY <2>1, <2>2, <2>3
<1>5. Cardinality({}) = 0
  BY FS_EmptySet
<1>6. Cardinality(Units(S, amount) \cup new) =
        Cardinality(Units(S, amount)) + Cardinality(new)
                                      - Cardinality(Units(S, amount) \cap new)
  <2> HIDE DEF new
  <2> QED BY <1>3, <1>4, FS_Union
<1>7. amount[x] \in Int
  OBVIOUS
<1> HIDE DEF new
<1>8. Cardinality(Units(S \cup {x}, amount)) = Cardinality(Units(S, amount) \cup new)
  BY <1>1
<1>9. Cardinality(Units(S, amount) \cap new) = 0
  BY <1>2, <1>5
<1> QED BY <1>3, <1>4, <1>6, <1>7, <1>8, <1>9

(***************************************************************************)
(* The sum over a finite ledger is an integer; this is what lets           *)
(* credit_service.py:89 compare it with the price of a call.               *)
(***************************************************************************)
THEOREM SumAmountType ==
  ASSUME NEW S, IsFiniteSet(S), NEW R, S \subseteq R, NEW amount \in [R -> Int]
  PROVE  SumAmount(S, amount) \in Int
<1>1. \A r \in S : amount[r] \in Int /\ Opposite(amount)[r] \in Int
  BY DEF Opposite
<1>2. Cardinality(Units(S, amount)) \in Nat
  BY <1>1, UnitsFinite
<1>3. Cardinality(Units(S, Opposite(amount))) \in Nat
  BY <1>1, UnitsFinite
<1> QED BY <1>2, <1>3 DEF SumAmount

(***************************************************************************)
(* Appending a row to the ledger adds its amount to the balance: a grant   *)
(* raises it, a debit lowers it, by exactly what the row says.             *)
(***************************************************************************)
THEOREM SumAmountAddRow ==
  ASSUME NEW S, IsFiniteSet(S), NEW R, S \subseteq R,
         NEW amount \in [R -> Int], NEW x \in R, x \notin S
  PROVE  SumAmount(S \cup {x}, amount) = SumAmount(S, amount) + amount[x]
<1> DEFINE opp == Opposite(amount)
<1>1. \A r \in S \cup {x} : amount[r] \in Int /\ opp[r] \in Int /\ opp[r] = -amount[r]
  BY DEF Opposite
<1>2. /\ Cardinality(Units(S, amount)) \in Nat
      /\ Cardinality(Units(S, opp)) \in Nat
  <2> HIDE DEF opp
  <2> QED BY <1>1, UnitsFinite
<1>3. Cardinality(Units(S \cup {x}, amount)) =
        Cardinality(Units(S, amount)) + (IF amount[x] > 0 THEN amount[x] ELSE 0)
  BY <1>1, UnitsAddRow
<1>4. Cardinality(Units(S \cup {x}, opp)) =
        Cardinality(Units(S, opp)) + (IF opp[x] > 0 THEN opp[x] ELSE 0)
  <2> HIDE DEF opp
  <2> QED BY <1>1, UnitsAddRow
<1>5. amount[x] \in Int /\ opp[x] = -amount[x]
  BY <1>1
<1>6. SumAmount(S \cup {x}, amount) =
        Cardinality(Units(S \cup {x}, amount)) - Cardinality(Units(S \cup {x}, opp))
  BY DEF SumAmount
<1>7. SumAmount(S, amount) =
        Cardinality(Units(S, amount)) - Cardinality(Units(S, opp))
  BY DEF SumAmount
<1> HIDE DEF opp
<1> QED BY <1>2, <1>3, <1>4, <1>5, <1>6, <1>7
=============================================================================
