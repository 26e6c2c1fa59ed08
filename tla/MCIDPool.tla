------------------------------ MODULE MCIDPool ------------------------------
(* Instance of UIDSet and IDPool for TLC: a generator that starts at 1, as  *)
(* the one of ApplicationManager does, over five ids, so that m_ID wraps.   *)
EXTENDS UIDSet, TLC

CONSTANTS network, update

MCHolder == {network, update}

Symmetry == Permutations(MCHolder)
=============================================================================
