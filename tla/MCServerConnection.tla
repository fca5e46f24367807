------------------------- MODULE MCServerConnection -------------------------
(* Model-checking instances of ServerConnection.                           *)
EXTENDS ServerConnection, TLC

CONSTANTS t1, t2, d1

=============================================================================
