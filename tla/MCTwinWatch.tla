---------------------------- MODULE MCTwinWatch ----------------------------
(***************************************************************************)
(* TwinWatch with small sets for TLC.  Samples are numbers: the points in  *)
(* the order they were sent.                                               *)
(***************************************************************************)
EXTENDS TwinWatch, TLC

InOrder ==
  /\ Sent = 1 .. Cardinality(Sent)
  /\ \A i \in DOMAIN stream : \A j \in 2 .. Len(stream[i]) :
       stream[i][j - 1].val < stream[i][j].val

MCNext == LiveNext /\ InOrder'
MCSpec == LiveInit /\ [][MCNext]_liveVars /\ LiveFairness
=============================================================================
