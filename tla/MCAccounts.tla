----------------------------- MODULE MCAccounts -----------------------------
(* Accounts with one administrator at the start.                           *)
EXTENDS Accounts, TLC

CONSTANTS a, b, p, q

OneAdmin == <<[email |-> <<a, "lower">>, role |-> "admin", password |-> p]>>
RequestsSymmetric == Permutations(Requests)

=============================================================================
