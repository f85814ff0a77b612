----------------------------- MODULE MCTowerKeys -----------------------------
(* The files that TowerKeys may lose, for TLC. *)
EXTENDS TowerKeys

IdentityCert == {<<"identity", "cert">>}
=============================================================================
