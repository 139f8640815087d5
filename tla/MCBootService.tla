--------------------------- MODULE MCBootService ---------------------------
(* TLC instances of BootService.                                           *)
EXTENDS BootService

=============================================================================
