--------------------------- MODULE MCCanalManager ---------------------------
(* Instance of CanalManager for TLC.                                         *)
EXTENDS CanalManager

CONSTANTS u1, u2, n1, n2, secret

MCUser == {u1, u2}
MCCanalName == {n1, n2}
MCPassword == {Empty, secret}
MCLimit == {-1, 1}

Symmetry == Permutations(MCUser) \cup Permutations(MCCanalName)
=============================================================================
