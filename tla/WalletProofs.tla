---------------------------- MODULE WalletProofs ----------------------------
(***************************************************************************)
(* The wallet's invariants for any merchants, calls, payments and amounts. *)
(*                                                                         *)
(* TypeOK, HoldsAddUp and Solvent need each other: a hold can be given     *)
(* back without reserved going below zero because it is part of the sum    *)
(* that reserved is, and a charge is covered because reserved is covered.  *)
(* Their conjunction is inductive.  The ledger then follows from them.     *)
(***************************************************************************)
EXTENDS Wallet, FiniteSetTheorems, TLAPS

-----------------------------------------------------------------------------
(* Totals. *)

(* The units of finitely many natural numbers are finitely many. *)
LEMMA UnitsFinite ==
  ASSUME NEW S, IsFiniteSet(S), NEW f, \A x \in S : f[x] \in Nat
  PROVE  IsFiniteSet(Units(f, S)) /\ Total(f, S) \in Nat
<1> DEFINE T == {{x} \X (1..f[x]) : x \in S}
           g == [x \in S |-> {x} \X (1..f[x])]
<1>1. IsFiniteSet(T)
  <2>1. g \in Surjection(S, T)
    BY DEF Surjection
  <2> HIDE DEF g, T
  <2>2. QED BY <2>1, FS_Surjection
<1>2. \A U \in T : IsFiniteSet(U)
  <2>1. ASSUME NEW x \in S PROVE IsFiniteSet({x} \X (1..f[x]))
    <3>1. IsFiniteSet(1..f[x])
      <4>1. f[x] \in Int OBVIOUS
      <4>2. QED BY <4>1, FS_Interval
    <3>2. IsFiniteSet({x}) BY FS_Singleton
    <3>3. QED BY <3>1, <3>2, FS_Product
  <2>2. QED BY <2>1
<1> HIDE DEF T
<1>3. IsFiniteSet(UNION T)
  BY <1>1, <1>2, FS_UNION
<1>4. IsFiniteSet(Units(f, S))
  BY <1>3 DEF T, Units
<1>5. QED BY <1>4, FS_CardinalityType DEF Total

(* A total depends on the function's values on the set alone. *)
LEMMA TotalSame ==
  ASSUME NEW S, NEW f, NEW g, \A x \in S : f[x] = g[x]
  PROVE  Total(f, S) = Total(g, S)
<1>1. Units(f, S) = Units(g, S)
  BY DEF Units
<1>2. QED BY <1>1 DEF Total

(* One more element adds its value. *)
LEMMA TotalGrow ==
  ASSUME NEW S, IsFiniteSet(S), NEW x, x \notin S, NEW f, NEW g,
         \A y \in S : f[y] \in Nat /\ g[y] = f[y],
         g[x] \in Nat
  PROVE  Total(g, S \cup {x}) = Total(f, S) + g[x]
<1> DEFINE A == Units(g, S)
           B == {x} \X (1..g[x])
<1>1. IsFiniteSet(A) /\ Cardinality(A) = Total(f, S) /\ Cardinality(A) \in Nat
  <2>1. Total(g, S) = Total(f, S) BY TotalSame
  <2>2. IsFiniteSet(Units(g, S)) /\ Total(g, S) \in Nat BY UnitsFinite
  <2>3. QED BY <2>1, <2>2 DEF Total
<1>2. IsFiniteSet(B) /\ Cardinality(B) = g[x]
  <2>1. g[x] \in Int /\ 1 \in Int OBVIOUS
  <2>2. IsFiniteSet(1..g[x]) /\ Cardinality(1..g[x]) = g[x]
    BY <2>1, FS_Interval
  <2>3. IsFiniteSet({x}) /\ Cardinality({x}) = 1
    BY FS_Singleton
  <2>4. IsFiniteSet(B) /\ Cardinality(B) = 1 * g[x]
    <3>1. /\ IsFiniteSet({x} \X (1..g[x]))
          /\ Cardinality({x} \X (1..g[x])) = Cardinality({x}) * Cardinality(1..g[x])
      BY <2>2, <2>3, FS_Product
    <3>2. QED BY <3>1, <2>2, <2>3
  <2>5. QED BY <2>1, <2>4
<1>3. Units(g, S \cup {x}) = A \cup B
  BY DEF Units
<1>4. A \cap B = {}
  BY DEF Units
<1> HIDE DEF A, B
<1>5. Cardinality(A \cup B) = Cardinality(A) + Cardinality(B) - Cardinality({})
  BY <1>1, <1>2, <1>4, FS_Union
<1>6. Cardinality(A \cup B) = Cardinality(A) + Cardinality(B)
  BY <1>1, <1>2, <1>5, FS_EmptySet
<1>7. QED BY <1>1, <1>2, <1>3, <1>6 DEF Total

(* One element less takes its value away. *)
LEMMA TotalShrink ==
  ASSUME NEW S, IsFiniteSet(S), NEW x \in S, NEW f, NEW g,
         \A y \in S : f[y] \in Nat,
         \A y \in S \ {x} : g[y] = f[y]
  PROVE  /\ Total(g, S \ {x}) \in Nat
         /\ Total(g, S \ {x}) + f[x] = Total(f, S)
<1>1. IsFiniteSet(S \ {x})
  BY FS_RemoveElement
<1>2. Total(f, (S \ {x}) \cup {x}) = Total(g, S \ {x}) + f[x]
  BY <1>1, TotalGrow
<1>3. (S \ {x}) \cup {x} = S
  OBVIOUS
<1>4. Total(g, S \ {x}) \in Nat
  <2>1. \A y \in S \ {x} : g[y] \in Nat OBVIOUS
  <2>2. QED BY <1>1, <2>1, UnitsFinite
<1>5. QED BY <1>2, <1>3, <1>4

-----------------------------------------------------------------------------
(* The inductive invariant. *)

WalletInv == TypeOK /\ HoldsAddUp /\ Solvent

LEMMA InitWallet == Init => WalletInv
<1> SUFFICES ASSUME Init PROVE WalletInv
  OBVIOUS
<1>1. TypeOK
  BY DEF Init, TypeOK, UsageRow
<1>2. HoldsAddUp
  <2>1. ASSUME NEW m \in Merchant PROVE reserved[m] = Total(held, OpenOf(m))
    <3>1. OpenOf(m) = {}
      BY DEF Init, OpenOf, Open
    <3>2. Units(held, {}) = {}
      BY DEF Units
    <3>3. Total(held, {}) = 0
      BY <3>2, FS_EmptySet DEF Total
    <3>4. QED BY <3>1, <3>3 DEF Init
  <2>2. QED BY <2>1 DEF HoldsAddUp
<1>3. Solvent
  BY DEF Init, Solvent
<1>4. QED BY <1>1, <1>2, <1>3 DEF WalletInv

LEMMA OpenFinite ==
  ASSUME TypeOK, NEW m \in Merchant
  PROVE  /\ IsFiniteSet(OpenOf(m))
         /\ \A k \in OpenOf(m) : held[k] \in Nat
<1>1. IsFiniteSet(OpenOf(m))
  <2>1. OpenOf(m) \in SUBSET Usage BY DEF OpenOf
  <2>2. QED BY <2>1, FS_Subset, WalletAssumption DEF WalletAssumption
<1>2. \A k \in OpenOf(m) : held[k] \in Nat
  BY DEF OpenOf, held, TypeOK, UsageRow
<1>3. QED BY <1>1, <1>2

(* The hold of an open call is part of what its merchant has reserved. *)
LEMMA HeldIsReserved ==
  ASSUME WalletInv, NEW k \in Usage, usage[k].status \in Open
  PROVE  usage[k].held <= reserved[usage[k].merchant]
<1> DEFINE m == usage[k].merchant
<1>1. m \in Merchant /\ k \in OpenOf(m)
  BY DEF WalletInv, TypeOK, UsageRow, OpenOf
<1>2. IsFiniteSet(OpenOf(m)) /\ \A j \in OpenOf(m) : held[j] \in Nat
  BY <1>1, OpenFinite DEF WalletInv
<1>3. /\ Total(held, OpenOf(m) \ {k}) \in Nat
      /\ Total(held, OpenOf(m) \ {k}) + held[k] = Total(held, OpenOf(m))
  BY <1>1, <1>2, TotalShrink
<1>4. held[k] = usage[k].held /\ held[k] \in Nat
  BY <1>1, <1>2 DEF held
<1>5. reserved[m] = Total(held, OpenOf(m))
  BY <1>1 DEF WalletInv, HoldsAddUp
<1>6. QED BY <1>3, <1>4, <1>5

(* A payment touches no hold. *)
LEMMA TopUpWallet ==
  ASSUME WalletInv, NEW m \in Merchant, NEW ref \in Reference, NEW a \in Amount,
         TopUp(m, ref, a)
  PROVE  WalletInv'
<1>1. a \in Nat /\ a > 0
  BY WalletAssumption DEF WalletAssumption, TopUp
<1>2. TypeOK'
  BY <1>1 DEF WalletInv, TypeOK, TopUp
<1>3. HoldsAddUp'
  <2>1. reserved' = reserved /\ held' = held
    BY DEF TopUp, held
  <2>2. \A n \in Merchant : OpenOf(n)' = OpenOf(n)
    BY DEF TopUp, OpenOf
  <2>3. QED BY <2>1, <2>2 DEF WalletInv, HoldsAddUp
<1>4. Solvent'
  BY <1>1 DEF WalletInv, TypeOK, Solvent, TopUp
<1>5. QED BY <1>2, <1>3, <1>4 DEF WalletInv

(* A new hold adds itself to its merchant's sum, within what is available. *)
LEMMA ReserveWallet ==
  ASSUME WalletInv, NEW m \in Merchant, NEW k \in Usage, NEW h \in Amount,
         Reserve(m, k, h)
  PROVE  WalletInv'
<1>1. h \in Nat /\ h <= balance[m] - reserved[m]
  BY WalletAssumption DEF WalletAssumption, Reserve, Available
<1>2. TypeOK'
  BY <1>1 DEF WalletInv, TypeOK, UsageRow, Open, Closed, Reserve
<1>3. HoldsAddUp'
  <2>1. ASSUME NEW n \in Merchant
        PROVE  reserved'[n] = Total(held', OpenOf(n)')
    <3>1. IsFiniteSet(OpenOf(n)) /\ \A j \in OpenOf(n) : held[j] \in Nat
      BY OpenFinite DEF WalletInv
    <3>2. \A j \in Usage \ {k} : held'[j] = held[j]
      BY DEF WalletInv, TypeOK, Reserve, held
    <3>3. k \notin OpenOf(n)
      BY DEF Reserve, OpenOf, Open
    <3>4. reserved[n] = Total(held, OpenOf(n))
      BY DEF WalletInv, HoldsAddUp
    <3>5. CASE n = m
      <4>1. OpenOf(n)' = OpenOf(n) \cup {k}
        BY <3>5 DEF WalletInv, TypeOK, UsageRow, OpenOf, Open, Reserve
      <4>2. held'[k] = h
        BY DEF WalletInv, TypeOK, Reserve, held
      <4>3. \A j \in OpenOf(n) : held[j] \in Nat /\ held'[j] = held[j]
        BY <3>1, <3>2, <3>3 DEF OpenOf
      <4>4. Total(held', OpenOf(n) \cup {k}) = Total(held, OpenOf(n)) + h
        <5>1. held'[k] \in Nat
          BY <1>1, <4>2
        <5>2. Total(held', OpenOf(n) \cup {k}) = Total(held, OpenOf(n)) + held'[k]
          BY <3>1, <3>3, <4>3, <5>1, TotalGrow
        <5>3. QED BY <4>2, <5>2
      <4>5. reserved'[n] = reserved[n] + h
        BY <3>5 DEF WalletInv, TypeOK, Reserve
      <4>6. QED BY <3>4, <4>1, <4>4, <4>5
    <3>6. CASE n # m
      <4>1. OpenOf(n)' = OpenOf(n)
        BY <3>6 DEF WalletInv, TypeOK, UsageRow, OpenOf, Open, Reserve
      <4>2. \A j \in OpenOf(n) : held'[j] = held[j]
        BY <3>2, <3>3 DEF OpenOf
      <4>3. Total(held', OpenOf(n)) = Total(held, OpenOf(n))
        BY <4>2, TotalSame
      <4>4. reserved'[n] = reserved[n]
        BY <3>6 DEF WalletInv, TypeOK, Reserve
      <4>5. QED BY <3>4, <4>1, <4>3, <4>4
    <3>7. QED BY <3>5, <3>6
  <2>2. QED BY <2>1 DEF HoldsAddUp
<1>4. Solvent'
  BY <1>1 DEF WalletInv, TypeOK, Solvent, Reserve
<1>5. QED BY <1>2, <1>3, <1>4 DEF WalletInv

(* A charge or a release takes exactly its own hold out of the sum. *)
LEMMA CloseHolds ==
  ASSUME WalletInv, NEW k \in Usage, usage[k].status \in Open,
         NEW row, row.status \in Closed, row.held = usage[k].held,
         usage' = [usage EXCEPT ![k] = row],
         reserved' = [reserved EXCEPT ![usage[k].merchant] = @ - usage[k].held]
  PROVE  HoldsAddUp'
<1> DEFINE m == usage[k].merchant
<1>1. m \in Merchant /\ k \in OpenOf(m) /\ usage[k].held \in Nat
  BY DEF WalletInv, TypeOK, UsageRow, OpenOf
<1>2. \A j \in Usage : held'[j] = held[j]
  BY DEF WalletInv, TypeOK, held
<1>3. ASSUME NEW n \in Merchant
      PROVE  reserved'[n] = Total(held', OpenOf(n)')
  <2>1. IsFiniteSet(OpenOf(n)) /\ \A j \in OpenOf(n) : held[j] \in Nat
    BY OpenFinite DEF WalletInv
  <2>2. reserved[n] = Total(held, OpenOf(n)) /\ reserved[n] \in Nat
    BY DEF WalletInv, HoldsAddUp, TypeOK
  <2>3. \A j \in OpenOf(n) : held'[j] = held[j]
    BY <1>2 DEF OpenOf
  <2>4. CASE n = m
    <3>1. OpenOf(n)' = OpenOf(n) \ {k}
      BY <2>4 DEF WalletInv, TypeOK, UsageRow, OpenOf, Open, Closed
    <3>2. /\ Total(held', OpenOf(n) \ {k}) \in Nat
          /\ Total(held', OpenOf(n) \ {k}) + held[k] = Total(held, OpenOf(n))
      BY <1>1, <2>1, <2>3, <2>4, TotalShrink
    <3>3. held[k] = usage[k].held
      BY DEF held
    <3>4. reserved'[n] = reserved[n] - usage[k].held
      BY <2>4 DEF WalletInv, TypeOK
    <3>5. QED BY <1>1, <2>2, <3>1, <3>2, <3>3, <3>4
  <2>5. CASE n # m
    <3>1. OpenOf(n)' = OpenOf(n)
      BY <2>5 DEF WalletInv, TypeOK, UsageRow, OpenOf, Open, Closed
    <3>2. Total(held', OpenOf(n)) = Total(held, OpenOf(n))
      BY <2>3, TotalSame
    <3>3. reserved'[n] = reserved[n]
      BY <2>5 DEF WalletInv, TypeOK
    <3>4. QED BY <2>2, <3>1, <3>2, <3>3
  <2>6. QED BY <2>4, <2>5
<1>4. QED BY <1>3 DEF HoldsAddUp

(* A charge is covered: by its hold, or by what is available beside it. *)
LEMMA ChargeCovered ==
  ASSUME WalletInv, NEW k \in Usage, usage[k].status \in Open,
         NEW c \in Nat, NEW overage \in BOOLEAN, ~Excessive(k, c, overage)
  PROVE  LET m == usage[k].merchant IN
           c <= balance[m] - reserved[m] + usage[k].held
<1> DEFINE m == usage[k].merchant
<1>1. /\ m \in Merchant /\ usage[k].held \in Nat
      /\ balance[m] \in Nat /\ reserved[m] \in Nat
  BY DEF WalletInv, TypeOK, UsageRow
<1>2. reserved[m] <= balance[m]
  BY <1>1 DEF WalletInv, Solvent
<1>3. c <= usage[k].held \/ c <= balance[m] - reserved[m] + usage[k].held
  BY <1>1 DEF Excessive, Available
<1>4. QED BY <1>1, <1>2, <1>3

LEMMA ChargeWallet ==
  ASSUME WalletInv, NEW k \in Usage, NEW c \in Amount, NEW overage \in BOOLEAN,
         Charge(k, c, overage)
  PROVE  WalletInv'
<1> DEFINE m == usage[k].merchant
           row == [usage[k] EXCEPT !.status = "settled", !.charged = c]
<1>1. usage[k].status \in Open /\ c \in Nat
  BY WalletAssumption DEF WalletAssumption, Charge
<1>2. /\ m \in Merchant /\ usage[k].held \in Nat
      /\ balance[m] \in Nat /\ reserved[m] \in Nat
  BY DEF WalletInv, TypeOK, UsageRow
<1>3. c <= balance[m] - reserved[m] + usage[k].held
  BY <1>1, ChargeCovered DEF Charge
<1>4. usage[k].held <= reserved[m]
  BY <1>1, HeldIsReserved
<1>5. /\ balance' = [balance EXCEPT ![m] = @ - c]
      /\ reserved' = [reserved EXCEPT ![m] = @ - usage[k].held]
      /\ credit' = credit
      /\ usage' = [usage EXCEPT ![k].status = "settled", ![k].charged = c]
  BY DEF Charge
<1>6. balance[m] - c \in Nat /\ reserved[m] - usage[k].held \in Nat
  BY <1>1, <1>2, <1>3, <1>4
<1>7. TypeOK'
  BY <1>1, <1>2, <1>5, <1>6 DEF WalletInv, TypeOK, UsageRow, Open, Closed
<1>8. HoldsAddUp'
  <2>1. row.status \in Closed /\ row.held = usage[k].held
    BY DEF WalletInv, TypeOK, UsageRow, Closed
  <2>2. usage' = [usage EXCEPT ![k] = row]
    BY <1>5 DEF WalletInv, TypeOK, UsageRow
  <2> HIDE DEF row
  <2>3. QED BY <1>1, <1>5, <2>1, <2>2, CloseHolds
<1>9. Solvent'
  <2>1. reserved[m] - usage[k].held <= balance[m] - c
    BY <1>1, <1>2, <1>3
  <2>2. ASSUME NEW n \in Merchant PROVE reserved'[n] <= balance'[n]
    BY <1>5, <2>1 DEF WalletInv, TypeOK, Solvent
  <2>3. QED BY <2>2 DEF Solvent
<1>10. QED BY <1>7, <1>8, <1>9 DEF WalletInv

LEMMA LeaveUncertainWallet ==
  ASSUME WalletInv, NEW k \in Usage, LeaveUncertain(k)
  PROVE  WalletInv'
<1>1. TypeOK'
  BY DEF WalletInv, TypeOK, UsageRow, Open, LeaveUncertain
<1>2. HoldsAddUp'
  <2>1. reserved' = reserved /\ held' = held
    BY DEF LeaveUncertain, WalletInv, TypeOK, UsageRow, held
  <2>2. \A m \in Merchant : OpenOf(m)' = OpenOf(m)
    BY DEF LeaveUncertain, WalletInv, TypeOK, UsageRow, OpenOf, Open
  <2>3. QED BY <2>1, <2>2 DEF WalletInv, HoldsAddUp
<1>3. Solvent'
  BY DEF WalletInv, Solvent, LeaveUncertain
<1>4. QED BY <1>1, <1>2, <1>3 DEF WalletInv

LEMMA ReleaseWallet ==
  ASSUME WalletInv, NEW k \in Usage, Release(k)
  PROVE  WalletInv'
<1> DEFINE m == usage[k].merchant
           row == [usage[k] EXCEPT !.status = "released"]
<1>1. /\ usage[k].status \in Open
      /\ m \in Merchant /\ usage[k].held \in Nat /\ reserved[m] \in Nat
  BY DEF Release, WalletInv, TypeOK, UsageRow
<1>2. usage[k].held <= reserved[m]
  BY <1>1, HeldIsReserved
<1>3. /\ balance' = balance /\ credit' = credit
      /\ reserved' = [reserved EXCEPT ![m] = @ - usage[k].held]
      /\ usage' = [usage EXCEPT ![k].status = "released"]
  BY DEF Release
<1>4. TypeOK'
  BY <1>1, <1>2, <1>3 DEF WalletInv, TypeOK, UsageRow, Closed
<1>5. HoldsAddUp'
  <2>1. row.status \in Closed /\ row.held = usage[k].held
    BY DEF WalletInv, TypeOK, UsageRow, Closed
  <2>2. usage' = [usage EXCEPT ![k] = row]
    BY <1>3 DEF WalletInv, TypeOK, UsageRow
  <2> HIDE DEF row
  <2>3. QED BY <1>1, <1>3, <2>1, <2>2, CloseHolds
<1>6. Solvent'
  BY <1>1, <1>3 DEF WalletInv, TypeOK, Solvent
<1>7. QED BY <1>4, <1>5, <1>6 DEF WalletInv

LEMMA StepWallet == WalletInv /\ [Next]_vars => WalletInv'
<1> SUFFICES ASSUME WalletInv, [Next]_vars PROVE WalletInv'
  OBVIOUS
<1>1. ASSUME NEW m \in Merchant, NEW ref \in Reference, NEW a \in Amount,
             TopUp(m, ref, a)
      PROVE  WalletInv'
  BY <1>1, TopUpWallet
<1>2. ASSUME NEW m \in Merchant, NEW k \in Usage, NEW h \in Amount, Reserve(m, k, h)
      PROVE  WalletInv'
  BY <1>2, ReserveWallet
<1>3. ASSUME NEW k \in Usage, SettleCall(k)
      PROVE  WalletInv'
  BY <1>3, ChargeWallet, LeaveUncertainWallet, ReleaseWallet DEF SettleCall
<1>4. ASSUME NEW k \in Usage, Reconcile(k)
      PROVE  WalletInv'
  BY <1>4, ChargeWallet, ReleaseWallet DEF Reconcile
<1>5. CASE UNCHANGED vars
  BY <1>5 DEF vars, WalletInv, TypeOK, HoldsAddUp, Solvent, OpenOf, held
<1>6. QED BY <1>1, <1>2, <1>3, <1>4, <1>5 DEF Next

(* At every moment a merchant's books have the shape billing.py relies on, *)
(* reserved is the sum of the open holds, and no more is promised to calls *)
(* in flight than the merchant has.                                        *)
THEOREM WalletInvariant == Spec => []WalletInv
BY InitWallet, StepWallet, PTL DEF Spec

(* Balances and reservations never go below zero, for any amounts.         *)
THEOREM TypeCorrect == Spec => []TypeOK
<1>1. WalletInv => TypeOK BY DEF WalletInv
<1>2. QED BY <1>1, WalletInvariant, PTL

(* No order of settlements, errors and reconciliations leaks a hold or     *)
(* gives one back twice.                                                   *)
THEOREM HoldsAlwaysAddUp == Spec => []HoldsAddUp
<1>1. WalletInv => HoldsAddUp BY DEF WalletInv
<1>2. QED BY <1>1, WalletInvariant, PTL

(* The check constraint of credit_wallets never stops a transaction: every *)
(* committed wallet has reserved_credits <= balance_credits.               *)
THEOREM AlwaysSolvent == Spec => []Solvent
<1>1. WalletInv => Solvent BY DEF WalletInv
<1>2. QED BY <1>1, WalletInvariant, PTL

-----------------------------------------------------------------------------
(* The ledger. *)

LEMMA SettledFinite ==
  ASSUME TypeOK, NEW m \in Merchant
  PROVE  /\ IsFiniteSet(SettledOf(m))
         /\ \A k \in SettledOf(m) : charged[k] \in Nat
<1>1. IsFiniteSet(SettledOf(m))
  <2>1. SettledOf(m) \in SUBSET Usage BY DEF SettledOf
  <2>2. QED BY <2>1, FS_Subset, WalletAssumption DEF WalletAssumption
<1>2. \A k \in SettledOf(m) : charged[k] \in Nat
  BY DEF SettledOf, charged, TypeOK, UsageRow
<1>3. QED BY <1>1, <1>2

LEMMA PaymentsFinite ==
  ASSUME TypeOK, NEW m \in Merchant
  PROVE  /\ IsFiniteSet({m} \X Reference)
         /\ \A p \in {m} \X Reference : credit[p] \in Nat
<1>1. IsFiniteSet({m}) BY FS_Singleton
<1>2. IsFiniteSet({m} \X Reference)
  BY <1>1, FS_Product, WalletAssumption DEF WalletAssumption
<1>3. QED BY <1>2 DEF TypeOK

LEMMA InitLedger == Init => LedgerBalances
<1> SUFFICES ASSUME Init, NEW m \in Merchant
             PROVE  balance[m] + Total(charged, SettledOf(m))
                      = Total(credit, {m} \X Reference)
  BY DEF LedgerBalances
<1>1. SettledOf(m) = {}
  BY DEF Init, SettledOf
<1>2. Units(charged, {}) = {} /\ Units(credit, {m} \X Reference) = {}
  BY DEF Init, Units
<1>3. Total(charged, {}) = 0 /\ Total(credit, {m} \X Reference) = 0
  BY <1>2, FS_EmptySet DEF Total
<1>4. QED BY <1>1, <1>3 DEF Init

(* A first payment under a reference raises the balance by its entry.      *)
LEMMA TopUpLedger ==
  ASSUME TypeOK, LedgerBalances, NEW m \in Merchant, NEW ref \in Reference,
         NEW a \in Amount, TopUp(m, ref, a)
  PROVE  LedgerBalances'
<1> DEFINE p == <<m, ref>>
<1>1. a \in Nat
  BY WalletAssumption DEF WalletAssumption
<1>2. ASSUME NEW n \in Merchant
      PROVE  balance'[n] + Total(charged', SettledOf(n)')
               = Total(credit', {n} \X Reference)
  <2>1. charged' = charged /\ SettledOf(n)' = SettledOf(n)
    BY DEF TopUp, charged, SettledOf
  <2>2. balance[n] + Total(charged, SettledOf(n)) = Total(credit, {n} \X Reference)
    BY DEF LedgerBalances
  <2>3. Total(charged, SettledOf(n)) \in Nat /\ balance[n] \in Nat
    BY SettledFinite, UnitsFinite DEF TypeOK
  <2>4. IsFiniteSet({n} \X Reference) /\ \A q \in {n} \X Reference : credit[q] \in Nat
    BY PaymentsFinite
  <2>5. \A q \in ({n} \X Reference) \ {p} : credit'[q] = credit[q]
    BY DEF TopUp, TypeOK
  <2>6. CASE n = m
    <3> DEFINE S == {n} \X Reference
    <3>1. p \in S /\ credit[p] = 0 /\ credit'[p] = a
      BY <2>6 DEF TopUp, TypeOK
    <3> HIDE DEF S, p
    <3>2. /\ Total(credit', S \ {p}) \in Nat
          /\ Total(credit', S \ {p}) + credit[p] = Total(credit, S)
      BY <2>4, <2>5, <3>1, TotalShrink DEF S
    <3>3. Total(credit', (S \ {p}) \cup {p}) = Total(credit', S \ {p}) + credit'[p]
      <4>1. IsFiniteSet(S \ {p})
        BY <2>4, FS_RemoveElement DEF S
      <4>2. \A q \in S \ {p} : credit'[q] \in Nat
        BY <2>4, <2>5 DEF S
      <4>3. credit'[p] \in Nat
        BY <1>1, <3>1
      <4>4. QED BY <4>1, <4>2, <4>3, TotalGrow
    <3>4. (S \ {p}) \cup {p} = S
      BY <3>1
    <3>5. Total(credit', S) = Total(credit, S) + a
      <4>1. Total(credit', S) = Total(credit', S \ {p}) + credit'[p]
        BY <3>3, <3>4
      <4>2. QED BY <1>1, <3>1, <3>2, <4>1
    <3>6. balance'[n] = balance[n] + a
      BY <2>6 DEF TopUp, TypeOK
    <3>7. QED BY <1>1, <2>1, <2>2, <2>3, <3>5, <3>6 DEF S
  <2>7. CASE n # m
    <3>1. \A q \in {n} \X Reference : credit'[q] = credit[q]
      BY <2>5, <2>7
    <3>2. Total(credit', {n} \X Reference) = Total(credit, {n} \X Reference)
      BY <3>1, TotalSame
    <3>3. balance'[n] = balance[n]
      BY <2>7 DEF TopUp, TypeOK
    <3>4. QED BY <2>1, <2>2, <3>2, <3>3
  <2>8. QED BY <2>6, <2>7
<1>3. QED BY <1>2 DEF LedgerBalances

(* A settlement lowers the balance by what its call was charged.           *)
LEMMA ChargeLedger ==
  ASSUME WalletInv, LedgerBalances, NEW k \in Usage, NEW c \in Amount,
         NEW overage \in BOOLEAN, Charge(k, c, overage)
  PROVE  LedgerBalances'
<1> DEFINE m == usage[k].merchant
<1>1. c \in Nat /\ usage[k].status \in Open
  BY WalletAssumption DEF WalletAssumption, Charge
<1>2. TypeOK /\ m \in Merchant
  BY DEF WalletInv, TypeOK, UsageRow
<1>3. /\ balance' = [balance EXCEPT ![m] = @ - c]
      /\ credit' = credit
      /\ usage' = [usage EXCEPT ![k].status = "settled", ![k].charged = c]
  BY DEF Charge
<1>4. ASSUME NEW n \in Merchant
      PROVE  balance'[n] + Total(charged', SettledOf(n)')
               = Total(credit', {n} \X Reference)
  <2>1. /\ IsFiniteSet(SettledOf(n))
        /\ \A j \in SettledOf(n) : charged[j] \in Nat
        /\ k \notin SettledOf(n)
    BY <1>1, <1>2, SettledFinite DEF SettledOf, Open
  <2>2. \A j \in SettledOf(n) : charged'[j] = charged[j]
    BY <1>2, <1>3, <2>1 DEF TypeOK, charged, SettledOf
  <2>3. balance[n] + Total(charged, SettledOf(n)) = Total(credit, {n} \X Reference)
    BY DEF LedgerBalances
  <2>4. Total(charged, SettledOf(n)) \in Nat /\ balance[n] \in Nat
    BY <1>2, <2>1, UnitsFinite DEF TypeOK
  <2>5. CASE n = m
    <3>1. SettledOf(n)' = SettledOf(n) \cup {k}
      BY <1>2, <1>3, <2>5 DEF TypeOK, UsageRow, SettledOf
    <3>2. charged'[k] = c
      BY <1>2, <1>3 DEF TypeOK, UsageRow, charged
    <3>3. Total(charged', SettledOf(n) \cup {k}) = Total(charged, SettledOf(n)) + charged'[k]
      <4>1. charged'[k] \in Nat BY <1>1, <3>2
      <4>2. QED BY <2>1, <2>2, <4>1, TotalGrow
    <3>4. balance'[n] = balance[n] - c
      BY <1>2, <1>3, <2>5 DEF TypeOK
    <3>5. QED BY <1>1, <1>3, <2>3, <2>4, <3>1, <3>2, <3>3, <3>4
  <2>6. CASE n # m
    <3>1. SettledOf(n)' = SettledOf(n)
      BY <1>2, <1>3, <2>6 DEF TypeOK, UsageRow, SettledOf
    <3>2. Total(charged', SettledOf(n)) = Total(charged, SettledOf(n))
      BY <2>2, TotalSame
    <3>3. balance'[n] = balance[n]
      BY <1>2, <1>3, <2>6 DEF TypeOK
    <3>4. QED BY <1>3, <2>3, <3>1, <3>2, <3>3
  <2>7. QED BY <2>5, <2>6
<1>5. QED BY <1>4 DEF LedgerBalances

(* A step that charges nobody and pays nothing in keeps the ledger.        *)
LEMMA QuietLedger ==
  ASSUME TypeOK, LedgerBalances, balance' = balance, credit' = credit,
         \A k \in Usage :
           /\ usage[k].status = "settled" <=> usage'[k].status = "settled"
           /\ usage[k].status = "settled" =>
                /\ usage'[k].merchant = usage[k].merchant
                /\ usage'[k].charged = usage[k].charged
  PROVE  LedgerBalances'
<1>1. ASSUME NEW n \in Merchant
      PROVE  balance'[n] + Total(charged', SettledOf(n)')
               = Total(credit', {n} \X Reference)
  <2>1. SettledOf(n)' = SettledOf(n)
    BY DEF SettledOf
  <2>2. \A k \in SettledOf(n) : charged'[k] = charged[k]
    BY DEF SettledOf, charged
  <2>3. Total(charged', SettledOf(n)) = Total(charged, SettledOf(n))
    BY <2>2, TotalSame
  <2>4. QED BY <2>1, <2>3 DEF LedgerBalances
<1>2. QED BY <1>1 DEF LedgerBalances

LEMMA StepLedger == WalletInv /\ LedgerBalances /\ [Next]_vars => LedgerBalances'
<1> SUFFICES ASSUME WalletInv, LedgerBalances, [Next]_vars PROVE LedgerBalances'
  OBVIOUS
<1>1. TypeOK
  BY DEF WalletInv
<1>2. ASSUME NEW m \in Merchant, NEW ref \in Reference, NEW a \in Amount,
             TopUp(m, ref, a)
      PROVE  LedgerBalances'
  BY <1>1, <1>2, TopUpLedger
<1>3. ASSUME NEW m \in Merchant, NEW k \in Usage, NEW h \in Amount, Reserve(m, k, h)
      PROVE  LedgerBalances'
  BY <1>1, <1>3, QuietLedger DEF Reserve, TypeOK
<1>4. ASSUME NEW k \in Usage, NEW c \in Amount, NEW overage \in BOOLEAN,
             Charge(k, c, overage)
      PROVE  LedgerBalances'
  BY <1>4, ChargeLedger
<1>5. ASSUME NEW k \in Usage, LeaveUncertain(k)
      PROVE  LedgerBalances'
  BY <1>1, <1>5, QuietLedger DEF LeaveUncertain, Open, TypeOK, UsageRow
<1>6. ASSUME NEW k \in Usage, Release(k)
      PROVE  LedgerBalances'
  BY <1>1, <1>6, QuietLedger DEF Release, Open, TypeOK, UsageRow
<1>7. CASE UNCHANGED vars
  BY <1>7, <1>1, QuietLedger DEF vars
<1>8. QED BY <1>2, <1>3, <1>4, <1>5, <1>6, <1>7 DEF Next, SettleCall, Reconcile

(* Each balance is what its merchant paid in less what settled calls were  *)
(* charged: a payment counts once however often it is entered, and a call  *)
(* is charged once whoever settles it.                                     *)
THEOREM LedgerAlwaysBalances == Spec => []LedgerBalances
<1>1. Spec => []WalletInv
  BY WalletInvariant
<1>2. QED BY <1>1, InitLedger, StepLedger, PTL DEF Spec

(* A settled or released call is never touched again.                      *)
THEOREM ClosedStaysClosed == Spec => ClosedForGood
<1>1. WalletInv /\ [Next]_vars
        => [\A k \in Usage : usage[k].status \in Closed => usage'[k] = usage[k]]_vars
  <2> SUFFICES ASSUME WalletInv, [Next]_vars,
                      NEW j \in Usage, usage[j].status \in Closed
               PROVE  usage'[j] = usage[j]
    OBVIOUS
  <2>1. usage[j].status \notin Open \cup {"absent"} /\ usage \in [Usage -> UsageRow]
    BY DEF Open, Closed, WalletInv, TypeOK
  <2>2. ASSUME NEW k \in Usage, SettleCall(k) \/ Reconcile(k)
        PROVE  usage'[j] = usage[j]
    <3>1. usage[k].status \in Open /\ \A i \in Usage \ {k} : usage'[i] = usage[i]
      BY <2>1, <2>2 DEF SettleCall, Reconcile, Charge, LeaveUncertain, Release
    <3>2. QED BY <2>1, <3>1
  <2>3. ASSUME NEW m \in Merchant, NEW k \in Usage, NEW h \in Amount, Reserve(m, k, h)
        PROVE  usage'[j] = usage[j]
    BY <2>1, <2>3 DEF Reserve
  <2>4. QED BY <2>2, <2>3 DEF Next, TopUp, vars
<1>2. QED BY <1>1, WalletInvariant, PTL DEF Spec, ClosedForGood

=============================================================================
