----------------------------- MODULE MCCluster -----------------------------
(* A small instance of Cluster for TLC: two daemons, so that one leads and *)
(* one stands by, and one fire, the tick loop's or catch-up's.             *)
EXTENDS Cluster, TLC

CONSTANTS d1, d2

BothDaemons == {d1, d2}
=============================================================================
