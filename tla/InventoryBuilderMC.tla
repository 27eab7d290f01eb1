-------------------------- MODULE InventoryBuilderMC --------------------------
(***************************************************************************)
(* Instances of InventoryBuilder for TLC: a cluster is "at scale" from     *)
(* four hosts on, so that growing and shrinking cross the threshold.       *)
(***************************************************************************)
EXTENDS InventoryBuilder

EnvScale   == [SCALE_THRESHOLD |-> 4]
EnvMassive == [SCALE_THRESHOLD |-> 4, MASSIVE_SCALE_THRESHOLD |-> 6]

Addresses == Permutations(IPs)
=============================================================================
