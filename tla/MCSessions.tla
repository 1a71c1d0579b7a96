----------------------------- MODULE MCSessions -----------------------------
(* The instance of Sessions with which TLC looks for a thread that is not  *)
(* fresh after a restart.                                                  *)
EXTENDS Sessions

CONSTANTS c1, c2, c3, c4

FourCallers == {c1, c2, c3, c4}

=============================================================================
