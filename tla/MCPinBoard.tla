----------------------------- MODULE MCPinBoard -----------------------------
(***************************************************************************)
(* TLC instances of PinBoard.  Handler calls are interchangeable, and so   *)
(* are messages.                                                           *)
(***************************************************************************)
EXTENDS PinBoard

Symmetry == Permutations(Msg) \cup Permutations(Handler)

=============================================================================
