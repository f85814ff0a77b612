------------------------------ MODULE Assembly ------------------------------
(***************************************************************************)
(* Assembling what a rig will be flashed with, while artifacts are still   *)
(* being published: Tower 2's channel_target_l1 handler with the           *)
(* orchestrator's fan-out of its answer, and the orchestrator's dry        *)
(* flash_bundle with Tower 2's create_envelope.  Both look parts up one    *)
(* request at a time in a content core that behaves as ArtifactCatalog     *)
(* promises.                                                               *)
(*                                                                         *)
(* The target is already resolved (Channels); keys and signatures are left *)
(* out.  Lookups may come in any order: a failed one ends the request.     *)
(***************************************************************************)
EXTENDS Dispatch, Naturals

CONSTANTS
  Keys,        \* content keys, as in ArtifactCatalog
  Requests     \* [tree, report] pairs: a resolved target and a rig's state

VARIABLES
  catalog, served, answered,   \* the content core
  req                          \* the request in progress and its answer

vars == <<catalog, served, answered, req>>
content == <<catalog, served, answered>>

ASSUME AssemblyAssumption ==
  /\ Requests \subseteq [tree : Tree, report : Tree \cup {None}]
  /\ None \notin Contents \X Keys /\ None \notin Tree

Core == INSTANCE ArtifactCatalog WITH Inners <- Contents

Slot == Paths \X PartIds
Idle ==
  [pc |-> "idle", tree |-> NoParts, report |-> None, todo |-> {}, l1 |-> NoParts,
   outer |-> NoParts, envelopes |-> NoParts]

SlotsOf(tree, paths) == {s \in paths \X PartIds : s[2] \in DOMAIN tree[s[1]].parts}
Wanted(s) == catalog[req.tree[s[1]].parts[s[2]]]
With(f, s, v) == [t \in DOMAIN f \cup {s} |-> IF t = s THEN v ELSE f[t]]

Init ==
  /\ Core!Init
  /\ req = Idle

Publish == Core!Next /\ UNCHANGED req

-----------------------------------------------------------------------------
\* POST /channel-targets/l1, up to the partition of the resolved tree.
StartL1(r) ==
  /\ req.pc = "idle"
  /\ req' = [Idle EXCEPT !.pc = "l1", !.tree = r.tree, !.report = r.report,
                         !.todo = SlotsOf(r.tree, Partition(r.tree, r.report).included)]
  /\ UNCHANGED content

MutLookupUnchecked(s) ==
  /\ req.pc = "l1"
  /\ s \in req.todo
  /\ req' = [req EXCEPT !.todo = @ \ {s}, !.outer = With(@, s, Wanted(s))]
  /\ UNCHANGED content

\* index.get for one part of an included component; a miss ends the request.
Lookup(s) ==
  /\ req.pc = "l1"
  /\ s \in req.todo
  /\ req' = IF Wanted(s) = None THEN [req EXCEPT !.pc = "not_found"]
            ELSE [req EXCEPT !.todo = @ \ {s}, !.outer = With(@, s, Wanted(s))]
  /\ UNCHANGED content

MutAnswerIncludedOnly ==
  /\ req.pc = "l1"
  /\ req.todo = {}
  /\ LET p == Partition(req.tree, req.report)
         l1 == L1Of(req.tree, [p EXCEPT !.disabled = {}])
     IN req' = [req EXCEPT !.l1 = l1,
                  !.pc = IF DOMAIN l1 # {} THEN "signed"
                         ELSE IF p.skipped # {} THEN "no_content" ELSE "not_found"]
  /\ UNCHANGED content

\* The campaign; nothing built is 204 when something was skipped, else 404.
AnswerL1 ==
  /\ req.pc = "l1"
  /\ req.todo = {}
  /\ LET parts == Partition(req.tree, req.report)
         l1 == L1Of(req.tree, parts)
     IN req' = [req EXCEPT !.l1 = l1,
                  !.pc = IF DOMAIN l1 # {} THEN "signed"
                         ELSE IF parts.skipped # {} THEN "no_content" ELSE "not_found"]
  /\ UNCHANGED content

\* The jobs the orchestrator makes of the L1; its report is what it observed.
Jobs == L1Jobs(FanOut(req.l1), req.report, None)

\* seed_target_from_active: a file that the update does not carry is copied from the
\* component's active bank.
Seeded(parts, active) ==
  [i \in DOMAIN parts \cup DOMAIN active |->
     IF i \in DOMAIN parts THEN parts[i] ELSE active[i]]

\* A rig that took the jobs: a removal disables, firmware enables, and a manifest-only
\* push keeps what the active bank has.
Flashed(report, jobs) ==
  [p \in DOMAIN report |->
     IF p \notin DOMAIN jobs THEN report[p]
     ELSE IF jobs[p].removal THEN [report[p] EXCEPT !.admin = "disabled"]
     ELSE [report[p] EXCEPT
             !.parts = IF jobs[p].manifestOnly THEN @ ELSE Seeded(jobs[p].parts, @),
             !.admin = IF @ = "disabled" THEN "enabled" ELSE @]]

\* The orchestrator fetches the blobs of the jobs pushed in full; a blob that is not
\* served is PayloadMissing.
FetchBlobs ==
  /\ req.pc = "signed"
  /\ req.report # None
  /\ LET pushed == {p \in DOMAIN Jobs : ~Jobs[p].removal /\ ~Jobs[p].manifestOnly}
         fetched == {s \in SlotsOf(req.tree, pushed) : req.outer[s] \in served}
     IN req' = [req EXCEPT !.pc = IF fetched = SlotsOf(req.tree, pushed)
                                  THEN "jobs" ELSE "payload_missing"]
  /\ UNCHANGED content

-----------------------------------------------------------------------------
\* flash_bundle: apply_plan's ship set, each part looked up by artifact_exists.
Shipped(r) ==
  {s \in Slot : s[1] \in DOMAIN r.tree /\ s[2] \in FlashPlan(r.report, r.tree)[s[1]]}

StartBundle(r) ==
  /\ req.pc = "idle"
  /\ r.report # None
  /\ req' = [Idle EXCEPT !.pc = "exists", !.tree = r.tree, !.report = r.report,
                         !.todo = Shipped(r)]
  /\ UNCHANGED content

\* A part Tower 2 does not have keeps no blob; the plan goes on.
ArtifactExists(s) ==
  /\ req.pc = "exists"
  /\ s \in req.todo
  /\ req' = [req EXCEPT !.todo = @ \ {s},
                        !.outer = IF Wanted(s) = None THEN @ ELSE With(@, s, Wanted(s))]
  /\ UNCHANGED content

\* create_envelope for one component: each part is looked up again and a miss fails
\* the bundle.  The envelope has the key of every ship part's row, which the row's
\* ciphertext stands for; the payloads are the parts with a blob.
CreateEnvelope(p) ==
  /\ req.pc = "exists"
  /\ req.todo = {}
  /\ p \in {s[1] : s \in Shipped(req)} \ DOMAIN req.envelopes
  /\ LET ship == {s \in Shipped(req) : s[1] = p}
     IN req' = IF \E s \in ship : Wanted(s) = None
               THEN [req EXCEPT !.pc = "not_found"]
               ELSE [req EXCEPT !.envelopes = With(@, p, [s \in ship |-> Wanted(s)])]
  /\ UNCHANGED content

FinishBundle ==
  /\ req.pc = "exists"
  /\ req.todo = {}
  /\ DOMAIN req.envelopes = {s[1] : s \in Shipped(req)}
  /\ req' = [req EXCEPT !.pc = "bundle"]
  /\ UNCHANGED content

Again ==
  /\ \/ req.pc \in {"no_content", "not_found", "jobs", "payload_missing", "bundle"}
     \/ req.pc = "signed" /\ req.report = None
  /\ req' = Idle
  /\ UNCHANGED content

Next ==
  \/ Publish
  \/ req.pc = "idle" /\ \E r \in Requests : StartL1(r) \/ StartBundle(r)
  \/ \E s \in Slot : Lookup(s) \/ ArtifactExists(s)
  \/ AnswerL1 \/ FetchBlobs \/ FinishBundle \/ Again
  \/ \E p \in Paths : CreateEnvelope(p)

Spec == Init /\ [][Next]_vars

-----------------------------------------------------------------------------
L2 == [disable : BOOLEAN, parts : Parts]
Bound == UNION {[D -> Contents \X Keys] : D \in SUBSET Slot}
Request ==
  [pc : {"idle", "l1", "not_found", "signed", "no_content", "jobs", "payload_missing",
         "exists", "bundle"},
   tree : Tree, report : Tree \cup {None}, todo : SUBSET Slot,
   l1 : UNION {[D -> L2] : D \in SUBSET Paths},
   outer : Bound,
   envelopes : UNION {[D -> Bound] : D \in SUBSET Paths}]

\* Type invariant of the request and the content core.
TypeOK ==
  /\ catalog \in [Contents -> (Contents \X Keys) \cup {None}]
  /\ served \subseteq Contents \X Keys
  /\ req \in Request

\* An L1 is whole: a campaign is signed only with every component the partition
\* builds or disables, each of its parts bound to the ciphertext the index has
\* for it, also when the index grew between the lookups (channel_target_l1).
CampaignWhole ==
  req.pc \in {"signed", "jobs"} =>
    LET parts == Partition(req.tree, req.report)
    IN /\ DOMAIN req.l1 = parts.included \cup parts.disabled
       /\ DOMAIN req.outer = SlotsOf(req.tree, parts.included)
       /\ \A s \in DOMAIN req.outer : req.outer[s] = Wanted(s)

\* The orchestrator never fails with PayloadMissing on a blob that a signed L1
\* names: an index row is written after its blob, and a blob is never removed.
PayloadsServed == req.pc # "payload_missing"

\* Tower 2 and the assessment agree on who is left alone: a component that an L1
\* for the observed state carries is one assess_tree calls actionable, although
\* one compares digests and the other part ids.
DispatchWithinAssessment ==
  req.pc = "signed" /\ req.report # None =>
    DOMAIN req.l1 \subseteq AssessTree(req.report, req.tree).components

\* The gates of `rig campaign` hide no work, whatever --only names: when Tower 2 signs
\* something the filter lets through for the observed state, the command does not say
\* "up to date", nor "deferred" if the rig advertises any of it (run_rig).
GatesHideNoWork ==
  req.pc = "signed" /\ req.report # None =>
    LET plan == ApplyPlan(req.report, req.tree, None)
    IN \A only \in (SUBSET Paths) \cup {None} :
         /\ DOMAIN req.l1 \cap Allowed(only) # {} => CampaignHasWork(plan, only)
         /\ DOMAIN L1Jobs(FanOut(req.l1), req.report, only) # {} => ~CampaignDeferred(plan, only)

\* A manifest-only push is only made to bring a disabled component back: any other
\* component whose digests the vehicle holds was skipped by Tower 2 before
\* component_unchanged sees it.
ManifestOnlyReenables ==
  req.pc = "jobs" =>
    \A p \in DOMAIN Jobs : Jobs[p].manifestOnly => req.report[p].admin = "disabled"

\* One flash is enough for what the rig advertises: a rig that took all jobs of an L1
\* gets no further L2 for a component that --only lets through, though some jobs were
\* manifest-only and Tower 2 decides by digests (component_unchanged, entity_agreed).
OneFlashSettles ==
  req.pc = "jobs" =>
    \A only \in (SUBSET Paths) \cup {None} :
      LET after == Flashed(req.report, L1Jobs(FanOut(req.l1), req.report, only))
          parts == Partition(req.tree, after)
      IN (parts.included \cup parts.disabled) \cap Allowed(only) \cap DOMAIN after = {}

\* A bundle decrypts: each payload was looked up before the envelope that carries its
\* key, and is served and still the ciphertext of that key, whatever was published in
\* between (flash_bundle, create_envelope).
BundleDecrypts ==
  req.pc = "bundle" =>
    \A s \in DOMAIN req.outer :
      /\ s[1] \in DOMAIN req.envelopes
      /\ s \in DOMAIN req.envelopes[s[1]]
      /\ req.outer[s] = req.envelopes[s[1]][s]
      /\ req.outer[s] \in served

-----------------------------------------------------------------------------
(* The inductive invariant.                                                *)

\* A row of the index names a blob that is served.
RowsServed == \A i \in Contents : catalog[i] # None => catalog[i] \in served

\* The lookups done and those to do are those of the included components, and what a
\* lookup found is still what the index has.
LookupsSound ==
  /\ req.pc \in {"l1", "signed", "jobs", "payload_missing"} =>
       /\ req.todo \cup DOMAIN req.outer = SlotsOf(req.tree, Partition(req.tree, req.report).included)
       /\ \A s \in DOMAIN req.outer : req.outer[s] = Wanted(s)
  /\ req.pc \in {"exists", "bundle"} =>
       /\ req.todo \cup DOMAIN req.outer \subseteq Shipped(req)
       /\ \A s \in DOMAIN req.outer : req.outer[s] = Wanted(s)

\* An envelope names all ship parts of its component, and has what the index has.
EnvelopesSound ==
  /\ req.pc \in {"exists", "bundle"} =>
       \A p \in DOMAIN req.envelopes :
         /\ DOMAIN req.envelopes[p] = {s \in Shipped(req) : s[1] = p}
         /\ \A s \in DOMAIN req.envelopes[p] : req.envelopes[p][s] = Wanted(s)
  /\ req.pc = "bundle" => DOMAIN req.envelopes = {s[1] : s \in Shipped(req)}

\* An L1 is answered from its own request, after the last lookup.
AnswerSound ==
  /\ req.pc \in {"signed", "jobs", "payload_missing"} =>
       /\ req.todo = {}
       /\ req.l1 = L1Of(req.tree, Partition(req.tree, req.report))
       /\ DOMAIN req.l1 # {}
  /\ req.pc = "jobs" => req.report # None

Inv ==
  /\ TypeOK /\ RowsServed /\ LookupsSound /\ EnvelopesSound /\ AnswerSound
  /\ PayloadsServed

-----------------------------------------------------------------------------
\* What `rig campaign` prints when nothing ships but a component of the rig is
\* actionable: removal drift, a signed campaign is required.  So Tower 2 signs one.
RemovalDriftSigned ==
  /\ req.pc = "no_content"
  /\ req.report # None
  /\ IsNoop(ApplyPlan(req.report, req.tree, None))
  => AssessTree(req.report, req.tree).components \cap DOMAIN req.report = {}
=============================================================================
