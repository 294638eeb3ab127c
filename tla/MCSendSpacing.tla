--------------------------- MODULE MCSendSpacing ---------------------------
(* The send budget with the default burst of one.  A token takes three     *)
(* units, so that full speed does not earn a whole number of tokens.       *)
EXTENDS SendSpacing
=============================================================================
