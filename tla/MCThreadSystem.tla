--------------------------- MODULE MCThreadSystem ---------------------------
(* Instance of ThreadSystem for TLC: two task threads, as a machine with six *)
(* hardware threads gets.                                                    *)
EXTENDS ThreadSystem

CONSTANTS w1, w2

MCWorker == {w1, w2}

MCBoth == {"network", "console"}
MCNetwork == {"network"}
=============================================================================
