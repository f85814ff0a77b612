----------------------------- MODULE MCAssembly -----------------------------
(***************************************************************************)
(* Small targets and reported states for Assembly.                         *)
(***************************************************************************)
EXTENDS Assembly, TLC

CONSTANTS vm, rt, kernel, rootfs, x, y, k1, k2

\* The parts with ids from I, the trees with paths from P.
PartsOver(I) == UNION {[D -> Contents] : D \in SUBSET I}
Trees(P, entities) == UNION {[D -> entities] : D \in SUBSET P}
Desired(P, I) ==
  Trees(P, [parts : PartsOver(I), disabled : BOOLEAN, admin : {"unknown"}, mode : {"unknown"}])
Reported(P, I) ==
  Trees(P, [parts : PartsOver(I), disabled : {FALSE}, admin : Admins, mode : {"unknown"}])
Over(P, I) == [tree : Desired(P, I), report : Reported(P, I) \cup {None}]

\* Two components of one part each, and one component of two parts.
MCRequests ==
  Over({vm, rt}, {kernel}) \cup Over({vm}, {kernel, rootfs}) \cup Over({rt}, {kernel, rootfs})

\* One component of up to two parts, reported by the rig.
DriftRequests == [tree : Desired({vm}, {kernel, rootfs}), report : Reported({vm}, {kernel, rootfs})]

Symmetry == Permutations({vm, rt}) \cup Permutations({x, y}) \cup Permutations({k1, k2})
=============================================================================
