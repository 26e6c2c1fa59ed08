--------------------------- MODULE MCUserManager ---------------------------
(* Instance of UserManager for TLC: more connections than one, so that the   *)
(* id of a user that is gone is given to another one.                        *)
EXTENDS UserManager

CONSTANTS a, b, lobby

MCTwo == {a, b}
MCCanal == {lobby}
=============================================================================
