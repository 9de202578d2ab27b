--------------------------- MODULE MCMessageRows ----------------------------
(***************************************************************************)
(* TLC instances of MessageRows: a message of ann, or two of which the     *)
(* second quotes the first.                                                *)
(***************************************************************************)
EXTENDS MessageRows, TLC

CONSTANTS ann, bob, m1, m2

BothByAnn == [m \in Msg |-> ann]

AllText == [m \in Msg |-> "text"]

NoQuotes == [m \in Msg |-> None]

SecondQuotesFirst == m1 :> None @@ m2 :> m1

Symmetry == Permutations(Handler)

=============================================================================
