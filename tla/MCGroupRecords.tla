--------------------------- MODULE MCGroupRecords ---------------------------
(***************************************************************************)
(* TLC instances of GroupRecords.  Users that are neither in Target nor in *)
(* Poster are interchangeable, and so are conversation ids and handler     *)
(* calls.                                                                  *)
(***************************************************************************)
EXTENDS GroupRecords, TLC

Symmetry ==
  Permutations(User \ (Target \cup Poster))
    \cup Permutations(Conv) \cup Permutations(Handler)

=============================================================================
