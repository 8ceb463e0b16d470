------------------------------ MODULE MCSeries ------------------------------
(* Series on the first months of a year.                                   *)
EXTENDS Series, TLC

Calendar == <<31, 28, 31>>
Symmetric == Permutations(Requests)

=============================================================================
