------------------------------ MODULE Campaign ------------------------------
(***************************************************************************)
(* Bringing a rig to a channel: `rig campaign` and `rig flash` with the    *)
(* orchestrator functions they call, and the verdict verbs, against a rig  *)
(* that fails, reboots and reverts, while the channel moves.               *)
(*                                                                         *)
(* Every awaited request is a step.  The flash engine and the rig are not  *)
(* in the repository; they are modelled from how it calls and describes    *)
(* them.  Tower 2's answers are Dispatch's operators on the channel's      *)
(* release (Channels and Assembly have the details); a component has one   *)
(* image, its only part.                                                   *)
(***************************************************************************)
EXTENDS Dispatch, Naturals

CONSTANTS
  Operators,             \* command lines run at once
  Verbs, Filters, NoCommit,  \* verbs, --only and --no-commit values they use
  Targets,               \* release -> its desired tree
  Img,                   \* the part id of an image
  Mode,                  \* component -> its x-ota-update-mode
  Host, Tier1, Full,     \* all of Paths is advertised when Host runs an image of Full,
                         \* and Tier1 otherwise
  InitialRig, InitialAdmin,
  ServesState,           \* whether the rig serves x-update-state
  MaxFaults, MaxMoves    \* bounds on failures and on channel moves

VARIABLES
  rig,       \* [active, committed, staged, trial, admin] of the node
  channel,   \* the release the channel points at
  op,        \* per operator, the command in progress
  faults, moves,
  offered,   \* history: releases the channel has pointed at
  origin,    \* history: who staged each pending component, as an Origin
  disturbed  \* history: the operators on whose node another one has acted since their check

vars == <<rig, channel, op, faults, moves, offered, origin, disturbed>>

Releases == DOMAIN Targets
Images == Contents \cup {None}
Reports ==
  {"deferred", "up_to_date", "unresolved", "not_found", "only_matched_nothing", "complete",
   "mixed", "error", "flashed", "unhealthy"}
Origin == [release : Releases, verb : {"campaign", "flash"}, alone : BOOLEAN]

ASSUME CampaignAssumption ==
  /\ \A r \in Releases : Targets[r] \in Tree
  /\ Verbs \subseteq {"campaign", "flash"} /\ Filters \subseteq (SUBSET Paths) \cup {None}
  /\ NoCommit \subseteq BOOLEAN
  /\ Mode \in [Paths -> Modes] /\ Host \in Paths /\ Tier1 \subseteq Paths
  /\ Img \in PartIds
  /\ InitialRig \in [Paths -> Images] /\ InitialAdmin \in [Paths -> Admins]
  /\ None \notin Contents /\ None \notin Origin /\ None \notin Reports

Idle ==
  [pc |-> "idle", verb |-> None, only |-> None, noCommit |-> FALSE, round |-> 1,
   list |-> {}, tree |-> NoParts, jobs |-> NoParts, from |-> None,
   steps |-> [singleshot |-> {}, banked |-> {}], step |-> {}, base |-> None, said |-> None]

ImageParts(image) == IF image = None THEN NoParts ELSE [i \in {Img} |-> image]
ImageOf(parts) == IF Img \in DOMAIN parts THEN parts[Img] ELSE None
Image(r, p) == IF p \in DOMAIN Targets[r] THEN ImageOf(Targets[r][p].parts) ELSE None

Advertised == IF rig.active[Host] \in Full THEN Paths ELSE Tier1
Staged == {p \in Paths : rig.staged[p] # None}
Irreversible == {p \in Paths : Mode[p] = "singleshot"}

\* x-update-state of the node.
Phase == IF rig.trial # {} THEN "Trial" ELSE IF Staged # {} THEN "RebootPending" ELSE "Idle"

Init ==
  /\ rig = [active |-> InitialRig, committed |-> InitialRig,
            staged |-> [p \in Paths |-> None], trial |-> {}, admin |-> InitialAdmin]
  /\ channel \in Releases
  /\ op = [o \in Operators |-> Idle]
  /\ faults = 0 /\ moves = 0
  /\ offered = {channel}
  /\ origin = [p \in Paths |-> None]
  /\ disturbed = {}

MoveChannel(r) ==
  /\ moves < MaxMoves
  /\ channel' = r
  /\ moves' = moves + 1
  /\ offered' = offered \cup {r}
  /\ UNCHANGED <<rig, op, faults, origin, disturbed>>

-----------------------------------------------------------------------------
(* The rig and its engine calls (external).                                *)

\* The staged images of S boot as a trial; firmware brings a disabled component back.
Activate(S) ==
  [rig EXCEPT !.active = [p \in Paths |-> IF p \in S THEN rig.staged[p] ELSE @[p]],
              !.staged = [p \in Paths |-> IF p \in S THEN None ELSE @[p]],
              !.trial = @ \cup S,
              !.admin = [p \in Paths |->
                           IF p \in S /\ @[p] = "disabled" THEN "enabled" ELSE @[p]]]

CommitTrial(S) ==
  [rig EXCEPT !.committed = [p \in Paths |-> IF p \in S THEN rig.active[p] ELSE @[p]],
              !.trial = @ \ S]

\* The previous bank is active again and what is only staged is dropped.  This is about
\* images: nothing says that a rollback takes back an administrative state, so a removal
\* of the same step stays.
RollbackTrial(S) ==
  [rig EXCEPT !.active = [p \in Paths |-> IF p \in S THEN rig.committed[p] ELSE @[p]],
              !.staged = [p \in Paths |-> IF p \in S THEN None ELSE @[p]],
              !.trial = @ \ S]

\* A job is accepted for an advertised component; a manifest-only one copies the
\* active bank, which must hold the image.  A singleshot writes through.
Accepts(p, job) ==
  /\ p \in Advertised
  /\ job.manifestOnly => rig.active[p] = ImageOf(job.parts)

MutStageOnBanksAll(p, job) ==
  IF job.removal THEN [rig EXCEPT !.admin[p] = "disabled"]
  ELSE [rig EXCEPT !.staged[p] = ImageOf(job.parts)]

StageOn(p, job) ==
  IF job.removal THEN [rig EXCEPT !.admin[p] = "disabled"]
  ELSE IF Mode[p] = "singleshot"
  THEN [rig EXCEPT !.active[p] = ImageOf(job.parts), !.committed[p] = ImageOf(job.parts),
                   !.admin[p] = IF @ = "disabled" THEN "enabled" ELSE @]
  ELSE [rig EXCEPT !.staged[p] = ImageOf(job.parts)]

\* A power cycle, by an operator or not, activates what is staged.
Reboot ==
  /\ Staged # {}
  /\ rig' = Activate(Staged)
  /\ UNCHANGED <<channel, op, faults, moves, offered, origin, disturbed>>

\* The node gives a trial up by itself.
Revert ==
  /\ faults < MaxFaults
  /\ rig.trial # {}
  /\ rig' = RollbackTrial(rig.trial)
  /\ faults' = faults + 1
  /\ UNCHANGED <<channel, op, moves, offered, origin, disturbed>>

-----------------------------------------------------------------------------
(* A command.  Go moves it on; Finish ends it with what it reports.        *)

rest == <<channel, faults, moves, offered>>
history == <<origin, disturbed>>
Go(o, new) == op' = [op EXCEPT ![o] = new]
Finish(o, said) == Go(o, [Idle EXCEPT !.said = said])

\* o changes the node, under whatever the others found there.
Acts(o) == disturbed' = disturbed \cup (Operators \ {o})

Start(o) ==
  /\ op[o].pc = "idle"
  /\ \E verb \in Verbs, only \in Filters, noCommit \in NoCommit :
       Go(o, [Idle EXCEPT !.pc = "list", !.verb = verb, !.only = only,
                          !.noCommit = noCommit /\ verb = "campaign",
                          !.round = IF verb = "campaign" THEN 1 ELSE 2])
  /\ UNCHANGED <<rig, rest, history>>

\* read_rig_state: the component list, then per component the installed manifest and
\* update mode, and the administrative state.
ListComponents(o) ==
  /\ op[o].pc = "list"
  /\ Go(o, [op[o] EXCEPT !.pc = "read", !.list = Advertised, !.tree = NoParts])
  /\ UNCHANGED <<rig, rest, history>>

Reported(p, parts) == [parts |-> parts, disabled |-> FALSE, admin |-> "unknown", mode |-> Mode[p]]

ReadInstalled(o, p) ==
  /\ op[o].pc = "read"
  /\ p \in op[o].list
  /\ LET entity == Reported(p, ImageParts(rig.active[p]))
     IN Go(o, [op[o] EXCEPT !.pc = "admin",
                 !.tree = [q \in DOMAIN @ \cup {p} |-> IF q = p THEN entity ELSE @[q]]])
  /\ UNCHANGED <<rig, rest, history>>

\* A file whose hash does not parse is dropped, and so reads as drift.
ReadMalformed(o, p) ==
  /\ op[o].pc = "read"
  /\ p \in op[o].list
  /\ faults < MaxFaults
  /\ faults' = faults + 1
  /\ Go(o, [op[o] EXCEPT !.pc = "admin",
              !.tree = [q \in DOMAIN @ \cup {p} |-> IF q = p THEN Reported(p, NoParts) ELSE @[q]]])
  /\ UNCHANGED <<rig, channel, moves, offered, history>>

ReadAdmin(o, p) ==
  /\ op[o].pc = "admin"
  /\ p \in op[o].list \cap DOMAIN op[o].tree
  /\ Go(o, [op[o] EXCEPT !.pc = "read", !.list = @ \ {p}, !.tree[p].admin = rig.admin[p]])
  /\ UNCHANGED <<rig, rest, history>>

\* apply_plan on the channel's tree, and run_rig's gates on it.
Preview(o) ==
  /\ op[o].pc = "read" /\ op[o].list = {} /\ op[o].round = 1
  /\ LET plan == ApplyPlan(op[o].tree, Targets[channel], None)
     IN IF CampaignDeferred(plan, op[o].only) THEN Finish(o, "deferred")
        ELSE IF ~CampaignHasWork(plan, op[o].only) THEN Finish(o, "up_to_date")
        ELSE Go(o, [op[o] EXCEPT !.pc = "node", !.tree = NoParts])
  /\ UNCHANGED <<rig, rest, history>>

MutCheckNothing(o) ==
  /\ op[o].pc = "node"
  /\ Go(o, [op[o] EXCEPT !.pc = "list", !.round = 2])
  /\ disturbed' = disturbed \ {o}
  /\ UNCHANGED <<rig, rest, origin>>

\* node_update_state; a rig without the resource counts as idle.
Unresolved == ServesState /\ Phase \in {"RebootPending", "Trial"}

CheckNode(o) ==
  /\ op[o].pc = "node"
  /\ IF Unresolved THEN Finish(o, "unresolved") /\ UNCHANGED disturbed
     ELSE /\ Go(o, [op[o] EXCEPT !.pc = "list", !.round = 2])
          /\ disturbed' = disturbed \ {o}
  /\ UNCHANGED <<rig, rest, origin>>

\* l1_flash_plan on what was read again: the L1 for the channel as it is now, and the
\* jobs.  404 when the target wants nothing at all.
PlanJobs(o) ==
  L1Jobs(FanOut(L1Of(Targets[channel], Partition(Targets[channel], op[o].tree))),
         op[o].tree, op[o].only)

Asks(o, whenEmpty, steps) ==
  /\ op[o].pc = "read" /\ op[o].list = {} /\ op[o].round = 2
  /\ LET parts == Partition(Targets[channel], op[o].tree)
     IN IF parts.included \cup parts.disabled \cup parts.skipped = {}
        THEN Finish(o, "not_found")
        ELSE IF DOMAIN PlanJobs(o) = {} THEN Finish(o, whenEmpty)
        ELSE Go(o, [op[o] EXCEPT !.pc = "guard", !.jobs = PlanJobs(o), !.from = channel,
                                 !.steps = steps, !.tree = NoParts])
  /\ UNCHANGED <<rig, rest, history>>

\* campaign_execute groups the jobs into steps.
AskCampaign(o) ==
  /\ op[o].verb = "campaign"
  /\ Asks(o, IF op[o].only # None THEN "only_matched_nothing" ELSE "complete",
          CampaignSteps(PlanJobs(o), op[o].tree))

\* flash_execute takes them as one.
AskFlash(o) ==
  /\ op[o].verb = "flash"
  /\ Asks(o, "complete", [singleshot |-> {}, banked |-> DOMAIN PlanJobs(o)])

MutGuardBankedFirst(o) ==
  /\ op[o].pc = "guard"
  /\ \E step \in {{p} : p \in op[o].steps.singleshot} \cup {op[o].steps.banked} :
       /\ step # {}
       /\ op[o].steps.banked # {} => step = op[o].steps.banked
       /\ IF step \cap Irreversible \notin {{}, step} THEN Finish(o, "mixed")
          ELSE Go(o, [op[o] EXCEPT !.pc = "stage", !.step = step, !.list = step,
                        !.steps = [singleshot |-> @.singleshot \ step, banked |-> @.banked \ step],
                        !.base = rig.active])
  /\ UNCHANGED <<rig, rest, history>>

\* The next step of the chain begins: a singleshot, or after them all the banked group,
\* as campaign_execute orders them.  The engine's guard refuses a step that mixes modes.
GuardStep(o) ==
  /\ op[o].pc = "guard"
  /\ \E step \in {{p} : p \in op[o].steps.singleshot} \cup {op[o].steps.banked} :
       /\ step # {}
       /\ op[o].steps.singleshot # {} => step \subseteq op[o].steps.singleshot
       /\ IF step \cap Irreversible \notin {{}, step} THEN Finish(o, "mixed")
          ELSE Go(o, [op[o] EXCEPT !.pc = "stage", !.step = step, !.list = step,
                        !.steps = [singleshot |-> @.singleshot \ step, banked |-> @.banked \ step],
                        !.base = rig.active])
  /\ UNCHANGED <<rig, rest, history>>

Stage(o, p) ==
  /\ op[o].pc = "stage"
  /\ p \in op[o].list
  /\ IF Accepts(p, op[o].jobs[p])
     THEN /\ rig' = StageOn(p, op[o].jobs[p])
          /\ origin' = [q \in Paths |->
                          IF q = p THEN [release |-> op[o].from, verb |-> op[o].verb,
                                         alone |-> o \notin disturbed]
                          ELSE IF q \in Staged \cup rig.trial THEN origin[q] ELSE None]
          /\ Go(o, [op[o] EXCEPT !.list = @ \ {p}])
          /\ Acts(o)
     ELSE Finish(o, "error") /\ UNCHANGED <<rig, history>>
  /\ UNCHANGED rest

\* reset_all: the step's components, or with a node reboot all that is staged.
Reset(o) ==
  /\ op[o].pc = "stage" /\ op[o].list = {}
  /\ \E S \in {Staged, op[o].step \cap Staged} : rig' = Activate(S)
  /\ IF op[o].verb = "campaign" THEN Go(o, [op[o] EXCEPT !.pc = "health"])
     ELSE Finish(o, "flashed")
  /\ Acts(o)
  /\ UNCHANGED <<rest, origin>>

NextStep(o) ==
  IF op[o].steps.singleshot \cup op[o].steps.banked = {} THEN Finish(o, "complete")
  ELSE Go(o, [op[o] EXCEPT !.pc = "guard"])

MutHealthyUncommitted(o) ==
  /\ op[o].pc = "health"
  /\ NextStep(o)
  /\ UNCHANGED <<rig, rest, history>>

Healthy(o) ==
  /\ op[o].pc = "health"
  /\ IF op[o].noCommit THEN NextStep(o) ELSE Go(o, [op[o] EXCEPT !.pc = "commit"])
  /\ UNCHANGED <<rig, rest, history>>

CommitStep(o) ==
  /\ op[o].pc = "commit"
  /\ rig' = CommitTrial(rig.trial)
  /\ NextStep(o)
  /\ Acts(o)
  /\ UNCHANGED <<rest, origin>>

\* CameUp fails: the step's trial is rolled back and the chain ends.
Unhealthy(o) ==
  /\ op[o].pc = "health"
  /\ faults < MaxFaults
  /\ faults' = faults + 1
  /\ Go(o, [op[o] EXCEPT !.pc = "rollback"])
  /\ UNCHANGED <<rig, channel, moves, offered, history>>

MutRollbackErases(o) ==
  /\ op[o].pc = "rollback"
  /\ rig' = [RollbackTrial(rig.trial) EXCEPT
               !.active = [p \in Paths |-> IF p \in rig.trial THEN None ELSE @[p]]]
  /\ Finish(o, "unhealthy")
  /\ Acts(o)
  /\ UNCHANGED <<rest, origin>>

RollbackStep(o) ==
  /\ op[o].pc = "rollback"
  /\ rig' = RollbackTrial(rig.trial)
  /\ Finish(o, "unhealthy")
  /\ Acts(o)
  /\ UNCHANGED <<rest, origin>>

\* A request fails or the command is interrupted; the rig stays as it is.
Fail(o) ==
  /\ op[o].pc # "idle"
  /\ faults < MaxFaults
  /\ faults' = faults + 1
  /\ Finish(o, "error")
  /\ UNCHANGED <<rig, channel, moves, offered, history>>

-----------------------------------------------------------------------------
(* The verdict verbs of an operator who runs nothing else.  A verdict on   *)
(* several components or on none named is one for the node's whole trial.  *)

Verdict(o, new) ==
  /\ op[o].pc = "idle"
  /\ rig' = new
  /\ Acts(o)
  /\ UNCHANGED <<rest, op, origin>>

CommitTrials(o) == rig.trial # {} /\ Verdict(o, CommitTrial(rig.trial))
RollbackTrials(o) == rig.trial # {} /\ Verdict(o, RollbackTrial(rig.trial))
CommitAll(o, S) == S # {} /\ S \subseteq rig.trial /\ Verdict(o, CommitTrial(rig.trial))
RollbackAll(o, S) == S # {} /\ S \subseteq rig.trial /\ Verdict(o, RollbackTrial(rig.trial))
ResetComponent(o, p) == p \in Staged /\ Verdict(o, Activate({p}))
CommitComponent(o, p) == p \in rig.trial /\ Verdict(o, CommitTrial({p}))
RollbackComponent(o, p) == p \in rig.trial \cup Staged /\ Verdict(o, RollbackTrial({p}))

Progress(o) ==
  \/ ListComponents(o) \/ Preview(o) \/ CheckNode(o) \/ AskCampaign(o) \/ AskFlash(o) \/ GuardStep(o)
  \/ Reset(o) \/ Healthy(o) \/ CommitStep(o) \/ RollbackStep(o)
  \/ \E p \in Paths : ReadInstalled(o, p) \/ ReadAdmin(o, p) \/ Stage(o, p)

Next ==
  \/ Reboot \/ Revert
  \/ \E r \in Releases : MoveChannel(r)
  \/ \E o \in Operators :
       \/ Start(o) \/ Progress(o) \/ Unhealthy(o) \/ Fail(o)
       \/ CommitTrials(o) \/ RollbackTrials(o)
       \/ \E S \in SUBSET Paths : CommitAll(o, S) \/ RollbackAll(o, S)
       \/ \E p \in Paths : ReadMalformed(o, p)
       \/ \E p \in Paths : ResetComponent(o, p) \/ CommitComponent(o, p) \/ RollbackComponent(o, p)

Spec == Init /\ [][Next]_vars

\* An operator runs commands again and again, a command in progress goes on or, when a
\* request is never answered, is interrupted (Fail), and a pending transaction is
\* resolved: staged images are booted, a trial gets a verdict.
Fairness ==
  /\ WF_vars(Reboot)
  /\ \A o \in Operators : /\ WF_vars(Start(o))
                          /\ WF_vars(Progress(o))
                          /\ SF_vars(CommitTrials(o) \/ RollbackTrials(o))

FairSpec == Spec /\ Fairness

-----------------------------------------------------------------------------
Rig ==
  [active : [Paths -> Images], committed : [Paths -> Images], staged : [Paths -> Images],
   trial : SUBSET (Paths \ Irreversible), admin : [Paths -> Admins]]
Job == [removal : BOOLEAN, parts : Parts, manifestOnly : BOOLEAN]
Command ==
  [pc : {"idle", "list", "read", "admin", "node", "guard", "stage", "health", "commit",
         "rollback"},
   verb : {"campaign", "flash", None}, only : (SUBSET Paths) \cup {None}, noCommit : BOOLEAN,
   round : {1, 2}, list : SUBSET Paths, tree : Tree,
   jobs : UNION {[D -> Job] : D \in SUBSET Paths}, from : Releases \cup {None},
   steps : [singleshot : SUBSET Paths, banked : SUBSET Paths], step : SUBSET Paths,
   base : [Paths -> Images] \cup {None},
   said : Reports \cup {None}]

\* Type invariant of the rig and the commands.
TypeOK ==
  /\ rig \in Rig
  /\ channel \in offered /\ offered \subseteq Releases
  /\ op \in [Operators -> Command]
  /\ origin \in [Paths -> Origin \cup {None}]

\* A transaction is of one release: what campaigns that nobody disturbed have staged or
\* put in trial on the node came from one signed L1's release, over failures, reboots,
\* retries and a moving channel (node_update_state's refusal in run_rig is what keeps
\* them apart; `rig flash` does not ask).
TransactionUniform ==
  ServesState =>
    LET Campaigned ==
          {p \in Staged \cup rig.trial : origin[p].verb = "campaign" /\ origin[p].alone}
    IN \A p, q \in Campaigned : origin[p] = origin[q]

\* The rig is updated the way RigUpdates promises: each step installs images of
\* releases the channel offered, settles images, or goes back to settled ones.
Updates == INSTANCE RigUpdates WITH running <- rig.active, settled <- rig.committed
ImplementsUpdates == Updates!Spec

\* run_rig asks for the node's state once, and campaign_execute stages after more
\* requests: on a rig that serves the state, a step of a campaign begins on a node with
\* an unresolved transaction (NodeUpdateState::is_unresolved) only if another operator
\* acted on the node since.  Nothing that the campaign, the rig or a channel move does
\* in between breaks it.
StepStartsResolved ==
  [][ServesState => \A o \in Operators \ disturbed :
       op[o].verb = "campaign" /\ op[o].pc = "guard" /\ op'[o].pc = "stage" => Phase = "Idle"]_vars

\* A step that is aborted for its health leaves the images that ran when it began,
\* except the one of the singleshot that it wrote: campaign_execute flashes singleshots
\* by themselves, and before the banked group, so no rollback leaves half a step or
\* takes an earlier step back with it.
AbortUndone ==
  [][ServesState => \A o \in Operators \ disturbed :
       op[o].pc = "rollback" /\ op'[o].said = "unhealthy" =>
         \A p \in Paths \ (op[o].step \cap Irreversible) : rig'.active[p] = op[o].base[p]]_vars

\* A campaign that nobody disturbed and that ran to its end leaves the node resolved, so
\* that the next one is let through: all it staged was booted, and was committed unless
\* --no-commit said not to, or rolled back (flash_execute's reset_all,
\* campaign_execute's verdicts).
CampaignResolves ==
  [][ServesState => \A o \in Operators \ disturbed :
       /\ op[o].verb = "campaign" /\ op[o].pc # "idle"
       /\ op'[o].said = "unhealthy" \/ (op'[o].said = "complete" /\ ~op[o].noCommit)
       => Phase' = "Idle"]_vars

-----------------------------------------------------------------------------
(* The inductive invariants: Inv, and CalmInv on a rig that serves         *)
(* x-update-state, about the operators nobody has disturbed.               *)

Staging == {"stage", "health", "commit", "rollback"}

\* What is staged is the image of a banked component in an offered release, and what
\* is not in trial is committed; whoever staged it is on record.
RigSound ==
  /\ \A p \in Staged : p \notin Irreversible /\ \E r \in offered : rig.staged[p] = Image(r, p)
  /\ \A p \in Paths \ rig.trial : rig.active[p] = rig.committed[p]
  /\ \A p \in Staged \cup rig.trial : origin[p] # None

\* The jobs of a command are for an offered release, and its steps are made of them.
JobsSound(c) ==
  /\ \A p \in DOMAIN c.jobs :
       c.from \in offered /\ (~c.jobs[p].removal => ImageOf(c.jobs[p].parts) = Image(c.from, p))
  /\ c.steps.singleshot \cup c.steps.banked \subseteq DOMAIN c.jobs
  /\ c.pc = "stage" => c.list \subseteq c.step /\ c.step \subseteq DOMAIN c.jobs

\* A campaign has its singleshots apart from the banked group, which comes last.
StepsSound(c) ==
  /\ \A p \in DOMAIN c.tree : c.tree[p].mode = Mode[p]
  /\ c.pc # "idle" => c.said = None /\ c.verb \in {"campaign", "flash"}
  /\ c.pc \in {"health", "commit", "rollback"} => c.verb = "campaign"
  /\ c.verb = "campaign" =>
       c.steps.singleshot \subseteq Irreversible /\ c.steps.banked \cap Irreversible = {}
  /\ c.verb = "campaign" /\ c.pc \in Staging =>
       \/ \E p \in Irreversible : c.step = {p}
       \/ c.step \cap Irreversible = {} /\ c.steps.singleshot \cup c.steps.banked = {}

Inv ==
  /\ TypeOK /\ RigSound
  /\ \A o \in Operators : JobsSound(op[o]) /\ StepsSound(op[o])

\* A campaign that was let through has found the node resolved.  It stays so until the
\* banked group is staged; then all that is pending is the campaign's, and what is staged
\* is of the step and is gone after its reset.  What is committed is what ran when the
\* step began, but for a singleshot of the step.
CampaignAlone(c) ==
  c.verb = "campaign" =>
    /\ c.pc = "guard" => Phase = "Idle"
    /\ c.pc \in {"list", "read", "admin"} /\ c.round = 2 => Phase = "Idle"
    /\ c.pc \in Staging =>
         /\ \A p \in Paths \ (c.step \cap Irreversible) : rig.committed[p] = c.base[p]
         /\ \/ Phase = "Idle" /\ \E p \in Irreversible : c.step = {p}
            \/ /\ c.step \cap Irreversible = {}
               /\ Staged \subseteq c.step /\ (c.pc # "stage" => Staged = {})
               /\ \A p \in Staged \cup rig.trial :
                    origin[p] = [release |-> c.from, verb |-> "campaign", alone |-> TRUE]

CalmInv ==
  /\ Inv /\ TransactionUniform
  /\ ServesState => \A o \in Operators \ disturbed : CampaignAlone(op[o])

-----------------------------------------------------------------------------
\* A rig that is campaigned again and again reaches the channel's release once
\* failures and channel moves end: the host first, then the components that only a
\* flashed host advertises (the capability gate in l1_jobs).
Matches ==
  /\ Phase = "Idle"
  /\ \A p \in DOMAIN Targets[channel] :
       IF Targets[channel][p].disabled THEN rig.admin[p] # "enabled"
       ELSE rig.active[p] = Image(channel, p) /\ rig.admin[p] # "disabled"
Converges == <>[]Matches
=============================================================================
