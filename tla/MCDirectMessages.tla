-------------------------- MODULE MCDirectMessages --------------------------
(***************************************************************************)
(* TLC instances of DirectMessages: ann with two tabs, bob with one.       *)
(***************************************************************************)
EXTENDS DirectMessages, TLC

CONSTANTS ann, bob, a1, a2, b1

Tabs == a1 :> ann @@ a2 :> ann @@ b1 :> bob

Symmetry == Permutations({a1, a2})

=============================================================================
