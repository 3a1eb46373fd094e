---------------------------- MODULE MCWsSession ----------------------------
(* WsSession with small sets for TLC.                                      *)
EXTENDS WsSession, TLC

Symmetry == Permutations(Sessions)
=============================================================================
