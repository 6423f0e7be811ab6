--------------------------- MODULE MCSendSession ---------------------------
(* TLC instances of SendSession.                                           *)
EXTENDS SendSession

CONSTANTS f1, f2, f3
Order == <<f1, f2, f3>>

=============================================================================
