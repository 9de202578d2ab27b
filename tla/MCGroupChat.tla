---------------------------- MODULE MCGroupChat ----------------------------
(***************************************************************************)
(* TLC instances of GroupChat.  Users that are neither in Target nor in    *)
(* Poster and own no observed socket are interchangeable.                  *)
(***************************************************************************)
EXTENDS GroupChat, TLC

CONSTANTS u1, s1, s2

\* u1 has two tabs
TwoTabs == s1 :> u1 @@ s2 :> u1

Symmetry ==
  Permutations(User \ (Target \cup Poster \cup {Owner[s] : s \in Socket}))
    \cup Permutations(Conv) \cup Permutations(Handler)

=============================================================================
