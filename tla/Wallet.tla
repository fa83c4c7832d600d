------------------------------- MODULE Wallet -------------------------------
(***************************************************************************)
(* Merchant credits (app/llm/billing.py).  Every transition below is one   *)
(* transaction that holds the merchant's wallet row FOR UPDATE from its    *)
(* first read to its commit, and so is one step.                           *)
(*                                                                         *)
(* An amount is a whole number of QUANTUM units (a millionth of a credit): *)
(* price() rounds up to that quantum and top_up() accepts nothing finer.   *)
(***************************************************************************)
EXTENDS Naturals, FiniteSets

CONSTANTS
  Merchant,
  Reference,    \* payment references of top-ups
  Usage,        \* keys of model calls: (inbound_event_id, update_id)
  Amount        \* amounts that top-ups, holds and charges may have

ASSUME WalletAssumption ==
  /\ IsFiniteSet(Merchant)
  /\ IsFiniteSet(Reference)
  /\ IsFiniteSet(Usage)
  /\ Amount \subseteq Nat

VARIABLES
  balance,      \* [Merchant -> Nat]
  reserved,     \* [Merchant -> Nat]
  credit,       \* [Merchant \X Reference -> Nat], top-up entries, 0 = no entry
  usage         \* [Usage -> UsageRow]

vars == <<balance, reserved, credit, usage>>

Open == {"reserved", "uncertain"}       \* the hold is still in the wallet
Closed == {"settled", "released"}

(* A call's row; charged is also the amount of its "usage:<id>" entry. *)
UsageRow ==
  [status : {"absent"} \cup Open \cup Closed,
   merchant : Merchant, held : Nat, charged : Nat]

TypeOK ==
  /\ balance \in [Merchant -> Nat]
  /\ reserved \in [Merchant -> Nat]
  /\ credit \in [Merchant \X Reference -> Nat]
  /\ usage \in [Usage -> UsageRow]

Init ==
  /\ balance = [m \in Merchant |-> 0]
  /\ reserved = [m \in Merchant |-> 0]
  /\ credit = [p \in Merchant \X Reference |-> 0]
  /\ usage \in [Usage -> [status : {"absent"}, merchant : Merchant,
                          held : {0}, charged : {0}]]

-----------------------------------------------------------------------------
(* The sum of f over S, as the number of its units. *)
Units(f, S) == UNION {{x} \X (1..f[x]) : x \in S}
Total(f, S) == Cardinality(Units(f, S))

(* Variants of definitions below, each with one mistake, used to see that  *)
(* the properties notice it, stand before the definition they vary.        *)

(* Holds are forgotten. *)
AvailableAll(m) == balance[m]

Available(m) == balance[m] - reserved[m]

(* A payment entered again is credited again. *)
TopUpAgain(m, ref, a) ==
  /\ a > 0
  /\ balance' = [balance EXCEPT ![m] = @ + a]
  /\ credit' = [credit EXCEPT ![<<m, ref>>] = a]
  /\ UNCHANGED <<reserved, usage>>

(* A reference already used is returned as it is (same amount) or refused; *)
(* neither changes anything.                                               *)
TopUp(m, ref, a) ==
  /\ a > 0
  /\ credit[<<m, ref>>] = 0
  /\ balance' = [balance EXCEPT ![m] = @ + a]
  /\ credit' = [credit EXCEPT ![<<m, ref>>] = a]
  /\ UNCHANGED <<reserved, usage>>

(* The worst price of the call is held before the provider is called.  A   *)
(* key that has a row already gets that row back and no new hold; too      *)
(* little available is a BillingError, rolled back.                        *)
Reserve(m, k, held) ==
  /\ usage[k].status = "absent"
  /\ held <= Available(m)
  /\ reserved' = [reserved EXCEPT ![m] = @ + held]
  /\ usage' = [usage EXCEPT ![k] = [status |-> "reserved", merchant |-> m,
                                    held |-> held, charged |-> 0]]
  /\ UNCHANGED <<balance, credit>>

(* Charging more than was held needs an operator's leave, and the money.   *)
Excessive(k, charge, allowOverage) ==
  LET m == usage[k].merchant IN
  /\ charge > usage[k].held
  /\ ~allowOverage \/ charge > Available(m) + usage[k].held

Charge(k, charge, allowOverage) ==
  LET m == usage[k].merchant IN
  /\ usage[k].status \in Open
  /\ ~Excessive(k, charge, allowOverage)
  /\ balance' = [balance EXCEPT ![m] = @ - charge]
  /\ reserved' = [reserved EXCEPT ![m] = @ - usage[k].held]
  /\ usage' = [usage EXCEPT ![k].status = "settled", ![k].charged = charge]
  /\ UNCHANGED credit

(* A late answer reopens a call that an operator has closed. *)
LeaveUncertainLate(k) ==
  /\ usage[k].status # "absent"
  /\ usage' = [usage EXCEPT ![k].status = "uncertain"]
  /\ UNCHANGED <<balance, reserved, credit>>

(* The hold stays: the provider may have charged, or reported too much. *)
LeaveUncertain(k) ==
  /\ usage[k].status \in Open
  /\ usage' = [usage EXCEPT ![k].status = "uncertain"]
  /\ UNCHANGED <<balance, reserved, credit>>

(* A second release of one hold. *)
ReleaseAgain(k) ==
  LET m == usage[k].merchant IN
  /\ usage[k].status # "settled"
  /\ reserved' = [reserved EXCEPT ![m] = @ - usage[k].held]
  /\ usage' = [usage EXCEPT ![k].status = "released"]
  /\ UNCHANGED <<balance, credit>>

Release(k) ==
  LET m == usage[k].merchant IN
  /\ usage[k].status \in Open
  /\ reserved' = [reserved EXCEPT ![m] = @ - usage[k].held]
  /\ usage' = [usage EXCEPT ![k].status = "released"]
  /\ UNCHANGED <<balance, credit>>

(* settle() as the brain calls it: with a result, or with an error that is *)
(* uncertain or not.                                                       *)
SettleCall(k) ==
  \/ \E c \in Amount :
       \/ Charge(k, c, FALSE)
       \/ Excessive(k, c, FALSE) /\ LeaveUncertain(k)
  \/ LeaveUncertain(k)
  \/ Release(k)

(* The operator's reconcile command: the verified usage, or --no-charge.   *)
(* A charge the wallet cannot bear is refused and rolled back.             *)
Reconcile(k) ==
  \/ \E c \in Amount : Charge(k, c, TRUE)
  \/ Release(k)

Next ==
  \/ \E m \in Merchant, ref \in Reference, a \in Amount : TopUp(m, ref, a)
  \/ \E m \in Merchant, k \in Usage, h \in Amount : Reserve(m, k, h)
  \/ \E k \in Usage : SettleCall(k) \/ Reconcile(k)

Spec == Init /\ [][Next]_vars

-----------------------------------------------------------------------------
OpenOf(m) == {k \in Usage : usage[k].status \in Open /\ usage[k].merchant = m}
SettledOf(m) == {k \in Usage : usage[k].status = "settled" /\ usage[k].merchant = m}

held == [k \in Usage |-> usage[k].held]
charged == [k \in Usage |-> usage[k].charged]

(* The database's own check, which no committed step may run into: what is *)
(* promised to calls in flight never exceeds what the merchant has, also   *)
(* after an operator has charged more than was held.                       *)
Solvent == \A m \in Merchant : reserved[m] <= balance[m]

(* The reserved column is exactly the holds of the calls still open: no    *)
(* order of settlements, errors and reconciliations leaks a hold or gives  *)
(* one back twice.                                                         *)
HoldsAddUp == \A m \in Merchant : reserved[m] = Total(held, OpenOf(m))

(* The balance is what was paid in less what settled calls were charged.   *)
LedgerBalances ==
  \A m \in Merchant :
    balance[m] + Total(charged, SettledOf(m)) = Total(credit, {m} \X Reference)

(* A call is charged or released once: nothing changes its row afterwards, *)
(* neither a late settlement by its worker nor a second reconciliation.    *)
ClosedForGood ==
  [][\A k \in Usage : usage[k].status \in Closed => usage'[k] = usage[k]]_vars

=============================================================================
