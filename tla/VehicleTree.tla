----------------------------- MODULE VehicleTree -----------------------------
(***************************************************************************)
(* The vehicle model of the wire crate: what a rig holds and what a        *)
(* release wants, the difference of the two, the convergence assessment    *)
(* and the flash plan.  Pure operators; the other modules decide by them.  *)
(*                                                                         *)
(* Data.  A content hash is the content.  The parts of an entity are a     *)
(* function from part id to content: a bank holds a file name once, and    *)
(* the parts of a release are keyed by id.  Versions and kinds are left    *)
(* out, as nothing is decided by them.                                     *)
(***************************************************************************)
CONSTANTS
  Paths,      \* entity paths
  PartIds,    \* logical part ids, and the file names a rig reports
  Contents    \* content hashes

Parts == UNION {[D -> Contents] : D \in SUBSET PartIds}
NoParts == [i \in {} |-> i]

\* Entity.admin_disabled: None, Some(false), Some(true).
Admins == {"unknown", "enabled", "disabled"}

\* Entity.update_mode's supports_rollback: None, Some(true), Some(false).
Modes == {"unknown", "banked", "singleshot"}

Entity == [parts : Parts, disabled : BOOLEAN, admin : Admins, mode : Modes]
Tree == UNION {[D -> Entity] : D \in SUBSET Paths}

PartsAt(tree, p) == IF p \in DOMAIN tree THEN tree[p].parts ELSE NoParts
AdminAt(tree, p) == IF p \in DOMAIN tree THEN tree[p].admin ELSE "unknown"
ModeAt(tree, p) == IF p \in DOMAIN tree THEN tree[p].mode ELSE "unknown"
ContentsAt(tree, p) == {PartsAt(tree, p)[i] : i \in DOMAIN PartsAt(tree, p)}

-----------------------------------------------------------------------------
\* The ids that diff_parts reports: added, changed or removed.
DiffParts(observed, desired) ==
  {i \in DOMAIN desired : i \notin DOMAIN observed \/ observed[i] # desired[i]}
    \cup (DOMAIN observed \ DOMAIN desired)

Diff(observed, desired) ==
  [added |-> DOMAIN desired \ DOMAIN observed,
   removed |-> DOMAIN observed \ DOMAIN desired,
   parts |-> [p \in DOMAIN observed \cup DOMAIN desired |->
                DiffParts(PartsAt(observed, p), PartsAt(desired, p))]]

\* The components assess_tree calls actionable: new, with changed parts, or in
\* the wrong administrative state; a disabled one only while it runs.
AssessComponents(observed, desired) ==
  LET delta == Diff(observed, desired)
      Wanted(p) == ~desired[p].disabled
  IN {p \in delta.added : Wanted(p)}
       \cup {p \in DOMAIN desired :
               /\ delta.parts[p] # {}
               /\ Wanted(p) \/ AdminAt(observed, p) = "enabled"}
       \cup {p \in DOMAIN desired :
               AdminAt(observed, p) = IF Wanted(p) THEN "disabled" ELSE "enabled"}

AssessTree(observed, desired) ==
  LET components == AssessComponents(observed, desired)
      removed == Diff(observed, desired).removed
  IN [components |-> components,
      outcome |->
        IF components = {}
        THEN IF removed = {} THEN "converged" ELSE "converged_ignoring_device_only"
        ELSE IF components \cap DOMAIN observed = {} THEN "deferred" ELSE "actionable"]

IsConverged(assessment) ==
  assessment.outcome \in {"converged", "converged_ignoring_device_only"}

\* flash_plan: per desired component the parts that ship; a part is reused when the
\* component's own active bank holds its content in the same slot.
FlashPlan(observed, desired) ==
  [p \in DOMAIN desired |->
     {i \in DOMAIN desired[p].parts :
        ~ (/\ i \in DOMAIN PartsAt(observed, p)
           /\ PartsAt(observed, p)[i] = desired[p].parts[i])}]
=============================================================================
