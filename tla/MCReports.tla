------------------------------ MODULE MCReports ------------------------------
(***************************************************************************)
(* TLC instance of Reports: ann has two tabs with /notification, bob made  *)
(* the report.                                                             *)
(***************************************************************************)
EXTENDS Reports, TLC

CONSTANTS ann, bob

AllAnn == [b \in Bell |-> ann]

ByBob == [r \in Report |-> bob]

Made == ann :> 3 @@ bob :> 1

Symmetry == Permutations(Bell) \cup Permutations(Desk)

=============================================================================
