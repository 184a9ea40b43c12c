--------------------------- MODULE MCRollingWindow ---------------------------
(* Small rings for TLC: every constant is a number given in the cfg. *)
EXTENDS RollingWindow
=============================================================================
