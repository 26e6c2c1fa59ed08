------------------------ MODULE MCApplicationManager ------------------------
(* Instance of ApplicationManager for TLC: two library files and two names,  *)
(* so that two applications may have the same name, and two ids for plugins, *)
(* so that the generator wraps.                                              *)
EXTENDS ApplicationManager, TLC

CONSTANTS p1, p2, chat, game

MCPath == {p1, p2}
MCName == {chat, game}

Symmetry == Permutations(MCPath) \cup Permutations(MCName)
=============================================================================
