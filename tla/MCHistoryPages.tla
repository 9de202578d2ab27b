--------------------------- MODULE MCHistoryPages ---------------------------
(***************************************************************************)
(* TLC instances of HistoryPages.                                          *)
(***************************************************************************)
EXTENDS HistoryPages

=============================================================================
