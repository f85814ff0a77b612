------------------------------ MODULE Dispatch ------------------------------
(***************************************************************************)
(* The decisions between a drifted rig and a flash, each taken from a tree *)
(* read earlier: what Tower 2 puts into an L1 (releases.rs), which jobs    *)
(* and steps the orchestrator makes of it (orchestrator/src/lib.rs), and   *)
(* whether the command line starts a campaign at all (cli/src/main.rs).    *)
(*                                                                         *)
(* Data.  An L1 is a function from component to its L2: a disable, or the  *)
(* parts with their plaintext digests.  A report is the observed tree, or  *)
(* None when the request has none or one that does not parse.              *)
(***************************************************************************)
EXTENDS VehicleTree, FiniteSets

CONSTANT None

\* entity_agreed: every resolved digest is among those the vehicle reports for the
\* component, under whatever file name.
EntityAgreed(reported, p, entity) ==
  /\ p \in DOMAIN reported
  /\ \A i \in DOMAIN entity.parts : entity.parts[i] \in ContentsAt(reported, p)

MutPartitionIgnoresAdmin(tree, reported) ==
  LET shippable == {p \in DOMAIN tree : ~tree[p].disabled /\ tree[p].parts # NoParts}
      agreed == {p \in shippable : reported # None /\ EntityAgreed(reported, p, tree[p])}
  IN [included |-> shippable \ agreed, disabled |-> {p \in DOMAIN tree : tree[p].disabled},
      skipped |-> agreed]

\* partition_l1_components.
Partition(tree, reported) ==
  LET admin(p) == IF reported = None THEN "unknown" ELSE AdminAt(reported, p)
      unwanted == {p \in DOMAIN tree : tree[p].disabled}
      disabled == {p \in unwanted : admin(p) = "enabled"}
      shippable == {p \in DOMAIN tree \ unwanted : DOMAIN tree[p].parts # {}}
      agreed == {p \in shippable :
                   /\ reported # None
                   /\ admin(p) # "disabled"
                   /\ EntityAgreed(reported, p, tree[p])}
  IN [included |-> shippable \ agreed,
      disabled |-> disabled,
      skipped |-> agreed \cup (unwanted \ disabled)]

\* The signed L1: build_envelope or build_disable_envelope for every component.
L1Of(tree, partition) ==
  [p \in partition.included \cup partition.disabled |->
     [disable |-> p \in partition.disabled,
      parts |-> IF p \in partition.disabled THEN NoParts ELSE tree[p].parts]]

\* fanout_l1: an L2 with a disable directive and no firmware is a removal.
FanOut(l1) ==
  [p \in DOMAIN l1 |-> [removal |-> l1[p].disable /\ DOMAIN l1[p].parts = {}, parts |-> l1[p].parts]]

-----------------------------------------------------------------------------
MutUnchangedSome(l2, observed, p) ==
  /\ p \in DOMAIN observed
  /\ DOMAIN l2.parts # {}
  /\ \E i \in DOMAIN l2.parts : l2.parts[i] \in ContentsAt(observed, p)

\* component_unchanged: the vehicle holds every declared digest, so the push is
\* manifest-only and the device copies its active bank.
ComponentUnchanged(l2, observed, p) ==
  /\ p \in DOMAIN observed
  /\ DOMAIN l2.parts # {}
  /\ \A i \in DOMAIN l2.parts : l2.parts[i] \in ContentsAt(observed, p)

\* The components an operator's --only lets through; None is no filter.
Allowed(only) == IF only = None THEN Paths ELSE only

MutJobsUngated(l1, observed, only) ==
  [p \in DOMAIN l1 \cap Allowed(only) |->
     [removal |-> l1[p].removal, parts |-> l1[p].parts,
      manifestOnly |-> ComponentUnchanged(l1[p], observed, p)]]

\* l1_jobs: the components allowed and advertised, in full or manifest-only.
L1Jobs(l1, observed, only) ==
  [p \in DOMAIN l1 \cap Allowed(only) \cap DOMAIN observed |->
     [removal |-> l1[p].removal, parts |-> l1[p].parts,
      manifestOnly |-> ComponentUnchanged(l1[p], observed, p)]]

\* campaign_execute's steps: each singleshot alone and first, in component order,
\* then the banked group as one trial.  An unclassified component counts as banked.
CampaignSteps(jobs, observed) ==
  LET singleshot == {p \in DOMAIN jobs : ModeAt(observed, p) = "singleshot"}
  IN [singleshot |-> singleshot, banked |-> DOMAIN jobs \ singleshot]

\* apply_plan: the components with something to ship, of those in only, and the
\* assessment of the whole trees.
ApplyPlan(observed, desired, only) ==
  [shipping |-> {p \in DOMAIN desired \cap Allowed(only) : FlashPlan(observed, desired)[p] # {}},
   assessment |-> AssessTree(observed, desired)]

IsNoop(plan) == plan.shipping = {}

MutHasWorkShipsOnly(plan, only) == plan.shipping \cap Allowed(only) # {}

CampaignHasWork(plan, only) ==
  plan.shipping \cap Allowed(only) # {} \/ plan.assessment.components \cap Allowed(only) # {}

\* run_rig's first gate: everything left is on components the rig does not have.
CampaignDeferred(plan, only) ==
  /\ plan.assessment.outcome = "deferred"
  /\ only = None \/ plan.assessment.components \cap only # {}
=============================================================================
