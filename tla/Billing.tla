------------------------------ MODULE Billing ------------------------------
(***************************************************************************)
(* Credit accounting, app/services/billing.py.                             *)
(*                                                                         *)
(* The wallets table is a function from users to balances; a user without  *)
(* a row has the balance NoWallet.  Every operator below is the effect of  *)
(* ONE SQL statement of the service on that table, so the modules that use *)
(* them decide when the statement runs, and when its transaction commits.  *)
(***************************************************************************)
EXTENDS Integers

CONSTANT NoWallet

ASSUME NoWalletAssumption == NoWallet \notin Int

Balance == Int \cup {NoWallet}

\* billing.get_balance: a missing wallet reads as zero.
GetBalance(wallet, u) == IF wallet[u] = NoWallet THEN 0 ELSE wallet[u]

\* billing.has_credits: the pre-flight check, strictly more than the amount.
HasCredits(wallet, u, amount) == GetBalance(wallet, u) > amount

\* billing.debit finds a row to update (it raises InsufficientCreditsError
\* otherwise): the guard on the balance is part of the UPDATE's WHERE clause,
\* and only work already performed may overdraw.
CanDebit(wallet, u, amount, allowOverdraft) ==
    \/ amount <= 0
    \/ /\ wallet[u] # NoWallet
       /\ allowOverdraft \/ wallet[u] >= amount

\* The UPDATE of billing.debit.
Debit(wallet, u, amount) ==
    IF amount <= 0 THEN wallet ELSE [wallet EXCEPT ![u] = @ - amount]

\* The upsert of billing.credit, and so of billing.refund.
Credit(wallet, u, amount) ==
    IF amount <= 0 THEN wallet
    ELSE [wallet EXCEPT ![u] = GetBalance(wallet, u) + amount]
=============================================================================
