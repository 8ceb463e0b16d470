------------------------------ MODULE MCRoster ------------------------------
(* Roster on small instances: what its configurations share.               *)
EXTENDS Roster, TLC

\* Users, requests and nothing else are interchangeable.
UsersSymmetric == Permutations(Users)
Symmetric == Permutations(Users) \cup Permutations(Requests)

=============================================================================
