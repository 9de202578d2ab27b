----------------------------- MODULE MCPresence -----------------------------
(***************************************************************************)
(* TLC instance of Presence: users, connections and profiles are           *)
(* interchangeable.                                                        *)
(***************************************************************************)
EXTENDS Presence, TLC

Symmetry ==
  Permutations(User) \cup Permutations(Socket) \cup Permutations(Profile)

=============================================================================
