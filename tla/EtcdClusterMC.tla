---------------------------- MODULE EtcdClusterMC ----------------------------
(***************************************************************************)
(* EtcdCluster for TLC: the group starts as h1 and h2, or as those and h3, *)
(* and the address of h3 is a part of that of h4.                          *)
(***************************************************************************)
EXTENDS EtcdCluster

CONSTANTS h1, h2, h3, h4

OneInFour  == {<<h3, h4>>}
TwoOrThree == {{h1, h2}, {h1, h2, h3}}
=============================================================================
