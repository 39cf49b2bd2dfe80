----------------------------- MODULE MCPayments -----------------------------
(***************************************************************************)
(* Instances of Payments for TLC.                                          *)
(***************************************************************************)
EXTENDS Payments, TLC

\* Requests and accounts are interchangeable; the run of safety properties uses
\* this.
Symmetry == Permutations(Request) \cup Permutations(User)
=============================================================================
