--------------------------- MODULE MCLoginLimiter ---------------------------
(* Two clients and two accounts, in a table with room for two.             *)
EXTENDS LoginLimiter, TLC

=============================================================================
