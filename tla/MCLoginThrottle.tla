--------------------------- MODULE MCLoginThrottle ---------------------------
(***************************************************************************)
(* Small instances of LoginThrottle.                                      *)
(***************************************************************************)
EXTENDS LoginThrottle, TLC

=============================================================================
