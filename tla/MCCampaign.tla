----------------------------- MODULE MCCampaign -----------------------------
(***************************************************************************)
(* A rig of a host, a singleshot controller and a VM that only a flashed   *)
(* host advertises, and two releases; the second one disables the VM.      *)
(***************************************************************************)
EXTENDS Campaign

CONSTANTS host, rt, vm, v0, v1, v2, o1, o2

Want(image, disabled) ==
  [parts |-> [i \in {Img} |-> image], disabled |-> disabled, admin |-> "unknown",
   mode |-> "unknown"]
R1 == [p \in {host, rt, vm} |-> Want(v1, FALSE)]
R2 == [p \in {host, rt, vm} |-> Want(IF p = rt THEN v1 ELSE v2, p = vm)]
MCTargets == [r \in {1, 2} |-> IF r = 1 THEN R1 ELSE R2]

MCMode == [p \in Paths |-> IF p = rt THEN "singleshot" ELSE IF p = vm THEN "unknown" ELSE "banked"]
MCRig == [p \in Paths |-> IF p = vm THEN None ELSE v0]
MCAdmin == [p \in Paths |-> IF p = vm THEN "enabled" ELSE "unknown"]

AnyFilter == {None, {vm}}
NoFilter == {None}

\* One operator by itself, who filters only when little else happens; or two operators,
\* who do not filter or keep a trial, and no failure but a component that does not come up.
OneActs ==
  /\ op[o2] = Idle /\ disturbed \subseteq {o2}
  /\ op[o1].only # None => ~op[o1].noCommit /\ faults <= 1
TwoActs ==
  /\ moves = 0 /\ faults <= 1
  /\ faults = 1 => \E o \in Operators : op[o].pc = "rollback" \/ op[o].said = "unhealthy"
  /\ \A o \in Operators :
       op[o].verb \in {"campaign", None} /\ op[o].only = None /\ ~op[o].noCommit
Instances == OneActs' \/ TwoActs'
=============================================================================
