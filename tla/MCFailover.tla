----------------------------- MODULE MCFailover -----------------------------
(* Small instances of Failover for TLC.                                      *)
EXTENDS Failover

CONSTANTS p1, p2

MCModelLists == {<<p1, p2>>, <<p2>>}

MCTwoModels == {<<p1, p2>>}

=============================================================================
