---------------------------- MODULE NodeUpgradeMC ----------------------------
(***************************************************************************)
(* NodeUpgrade for TLC: masters are alike, and so are workers.             *)
(***************************************************************************)
EXTENDS NodeUpgrade, TLC

Alike == Permutations(Masters) \cup Permutations(Workers)
=============================================================================
