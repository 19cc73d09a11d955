-------------------------- MODULE MCPreparedBundle --------------------------
(* PreparedBundle for TLC: two calls share a root, the third has its own.  *)
EXTENDS PreparedBundle

CONSTANTS c1, c2, c3, r1, r2

MCRootOf == [c \in Clients |-> IF c = c3 THEN r2 ELSE r1]
=============================================================================
