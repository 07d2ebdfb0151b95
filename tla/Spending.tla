------------------------------ MODULE Spending ------------------------------
(***************************************************************************)
(* How a node makes a transaction for a wallet: the outputs that a key can *)
(* spend are chosen from the unspent ones (node/transactions/unspent.go)   *)
(* and then from those of the pool (pending.go), and the balance that the  *)
(* wallet is told (manager.go).  Nothing is stored: a transaction that is  *)
(* prepared comes in later as any other does (ReceivedNewTransaction).     *)
(*                                                                         *)
(* Amounts are whole coins, so that a change is nothing or more than one   *)
(* SmallestUnit.  A change of just one unit depends on the rounding of     *)
(* floating point numbers, which is not modelled.                          *)
(***************************************************************************)
EXTENDS Ledger

CONSTANTS
  Key,       \* the keys (hashes of public keys)
  Owner,     \* Owner[o]: the key that output o, a pair <<transaction, index>>, is locked with
  Value,     \* Value[o]: its value
  MaxAmount  \* a bound on the amounts that are asked for

\* All outputs of all transactions.
Output == UNION {{t} \X Outs[t] : t \in Tx}

\* Verify lets a transaction in only with the signature of the key of each input.
\* The outputs of a transaction are a list.
ASSUME SpendingAssumption ==
  /\ \A t \in Tx : IsFiniteSet(Outs[t])
  /\ Owner \in [Output -> Key]
  /\ Value \in [Output -> Nat \ {0}]
  /\ MaxAmount \in Nat

TotalOf(S) == MapThenSumSet(LAMBDA o : Value[o], S)

-----------------------------------------------------------------------------
(***************************************************************************)
(* GetPreparedBy: the inputs of the pool that the key has signed, the      *)
(* outputs of the pool that are locked with it and that these do not use,  *)
(* and the inputs that are not from the pool.                              *)
(***************************************************************************)
PendingInputs(k) == {i \in Spends(pool) : Owner[i] = k}

OutputsOfPool(k) == {o \in Output : o[1] \in pool /\ Owner[o] = k}

PendingOutputs(k) == OutputsOfPool(k) \ PendingInputs(k)

ApprovedInputs(k) == PendingInputs(k) \ OutputsOfPool(k)

\* GetunspentTransactionsOutputs
UnspentOutputs(k) ==
  {o \in Output : Owner[o] = k /\ \E r \in utxo[o[1]] : r.out = o[2]}

\* GetAddressBalance of the unspent outputs.
GetAddressBalance(k) == TotalOf(UnspentOutputs(k))

\* GetInputValue finds every input that is not from the pool.
PendingBalanceIsKnown(k) == ApprovedInputs(k) \subseteq UnspentOutputs(k)

getAddressPendingBalance(k) == TotalOf(PendingOutputs(k)) - TotalOf(ApprovedInputs(k))

-----------------------------------------------------------------------------
Spendable_pendingToo(k) == UnspentOutputs(k)

\* The unspent outputs of the key that no transaction of the pool uses.
Spendable(k) == UnspentOutputs(k) \ PendingInputs(k)

\* The amount is reached with S, and was not without one of the outputs L.
JustReaches(S, L, amount) ==
  TotalOf(S) >= amount /\ \E o \in L : TotalOf(S \ {o}) < amount

(***************************************************************************)
(* ChooseSpendableOutputs: the smallest outputs, as many as it takes, or   *)
(* all of them.  Of outputs of the same value any may come first.          *)
(***************************************************************************)
ChooseSpendableOutputs(k, amount) ==
  LET all == Spendable(k)
      Largest(S) == {o \in S : \A p \in S : Value[p] <= Value[o]}
  IN  IF TotalOf(all) < amount
      THEN {all}
      ELSE {S \in SUBSET all :
              /\ \A o \in S, p \in all \ S : Value[o] <= Value[p]
              /\ JustReaches(S, Largest(S), amount)}

(***************************************************************************)
(* ExtendNewTransactionInputs: outputs of the pool, in the order of their  *)
(* transactions' IDs, which may be any, until the amount is reached.       *)
(***************************************************************************)
ExtendNewTransactionInputs(k, amount, S) ==
  LET pending == PendingOutputs(k)
  IN  {S \cup P : P \in {Q \in SUBSET pending : JustReaches(S \cup Q, Q, amount)}}

\* The sets of inputs that PrepareNewTransaction may return; none when it
\* returns an error for lack of funds.
PrepareNewTransaction(k, amount) ==
  UNION {IF TotalOf(S) < amount THEN ExtendNewTransactionInputs(k, amount, S) ELSE {S} :
           S \in ChooseSpendableOutputs(k, amount)}

-----------------------------------------------------------------------------
(***************************************************************************)
(* What the node prepares for a wallet it also accepts (the inputs pass    *)
(* the quick verification, and no transaction of the pool uses them), and  *)
(* when it can tell the wallet its balance, exactly the amounts up to the  *)
(* total can be sent: after reorganisations and cancelled transactions     *)
(* too.  After dropblock it may choose outputs of the dropped block, which *)
(* it then refuses, until reindexcache is run.                             *)
(***************************************************************************)
FundsAreSpendable ==
  NodeIdle /\ Fresh =>
    \A k \in Key, amount \in 1 .. MaxAmount :
      /\ \A I \in PrepareNewTransaction(k, amount) :
           InputsAreFound(I) /\ I \cap Spends(pool) = {}
      /\ PendingBalanceIsKnown(k) =>
           (PrepareNewTransaction(k, amount) # {}
              <=> amount <= GetAddressBalance(k) + getAddressPendingBalance(k))
=============================================================================
