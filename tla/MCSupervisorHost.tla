--------------------------- MODULE MCSupervisorHost ---------------------------
(* TLC instances of SupervisorHost.                                        *)
EXTENDS SupervisorHost
=============================================================================
