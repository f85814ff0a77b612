------------------------------ MODULE Channels ------------------------------
(***************************************************************************)
(* Tower 2's channels on top of the release store: pointing a (channel,    *)
(* device, architecture) at a vehicle release with the hash of its tree,   *)
(* and resolving a selector or a pinned release to the desired tree        *)
(* (releases.rs), while releases are still being minted.                   *)
(*                                                                         *)
(* A resolution is several statements: one reads the member rows, then one *)
(* per member reads that component's parts; rows come in no given order.   *)
(* Only the final write of a target is a transaction.                      *)
(*                                                                         *)
(* Data.  A tree hash is the tree that is hashed, without the entity kinds *)
(* the code leaves out of it.                                              *)
(***************************************************************************)
EXTENDS Releases

CONSTANTS
  ChannelTasks,            \* channel handlers running at once
  ChannelNames, Devices, Architectures,
  Selectors                \* selectors clients may resolve

Target == [channel : ChannelNames, device : Devices, architecture : Architectures]
Selector ==
  [channel : ChannelNames, device : Devices \cup {None},
   architecture : Architectures \cup {None}]

Entity == [kind : Kinds, disabled : BOOLEAN, parts : SUBSET Part]
Tree == [Paths -> Entity \cup {None}]
Hash == [Paths -> [disabled : BOOLEAN, parts : SUBSET Part] \cup {None}]
EmptyTree == [p \in Paths |-> None]

\* tree_hash: per path, the disabled flag and the parts by id with their content.
TreeHash(tree) ==
  [p \in Paths |-> IF tree[p] = None THEN None
                   ELSE [disabled |-> tree[p].disabled, parts |-> tree[p].parts]]

VARIABLES
  targets,   \* channel_targets: (channel, device, architecture) -> row or None
  history,   \* vehicle_release_targets: what each release was ever a target for
  task       \* channel handlers

channelVars == <<targets, history, task>>
vars == <<releaseVars, channelVars>>

\* sealed is a history field: was the release whole when the tree was read?
TargetRow == [vehicle : VehicleIds, hash : Hash, sealed : BOOLEAN]

\* A handler of PUT /admin/channel-targets ("set"), or of GET /channel-targets/tree or
\* an L1 request, by channel ("read") or by release and tree hash as a target showed
\* them ("pinned").
Task ==
  [op : {"set", "read", "pinned"},
   pc : {"match", "select", "exists", "members", "fetch",
         "set", "ok", "mismatch", "notfound", "failed"},
   target : Target \cup Selector,   \* the target to set, or the selector
   row : Target \cup {None},        \* the target row that was resolved
   vehicle : VehicleIds \cup {None},
   expected : Hash \cup {None},     \* the tree hash the client pins
   promised : BOOLEAN,              \* history: sealed of the row it was learnt from
   todo : SUBSET Member, tree : Tree, sealed : BOOLEAN]

ASSUME ChannelAssumption ==
  /\ Selectors \subseteq Selector
  /\ None \notin ChannelNames \cup Devices \cup Architectures
  /\ None \notin Entity \cup Target \cup TargetRow \cup Task

TypeOK ==
  /\ ReleaseTypeOK
  /\ targets \in [Target -> TargetRow \cup {None}]
  /\ history \subseteq [vehicle : VehicleIds, device : Devices, architecture : Architectures]
  /\ task \in [ChannelTasks -> Task \cup {None}]

Init ==
  /\ ReleaseInit
  /\ targets = [k \in Target |-> None]
  /\ history = {}
  /\ task = [t \in ChannelTasks |-> None]

Replied == {"set", "ok", "mismatch", "notfound", "failed"}
Free(t) == task[t] # None => task[t].pc \in Replied

NewTask(op, pc, target) ==
  [op |-> op, pc |-> pc, target |-> target, row |-> None, vehicle |-> None,
   expected |-> None, promised |-> FALSE, todo |-> {}, tree |-> EmptyTree, sealed |-> FALSE]

\* The task of t once it has replied: its locals are gone.
Reply(t, pc) ==
  [NewTask(task[t].op, pc, task[t].target) EXCEPT
     !.row = task[t].row, !.promised = task[t].promised]

-----------------------------------------------------------------------------
(* What a release resolves to when nothing is being minted                 *)

PathOf(m) == components[m.component].path
EntityOf(m) ==
  [kind |-> components[m.component].identity.kind, disabled |-> m.disabled,
   parts |-> parts[m.component]]

\* All rows of v and of its components are in, and no two members claim a path.
Sealed(v) ==
  /\ VehicleComplete(v)
  /\ \A m \in members[v] : ComponentComplete(m.component)
  /\ \A m, n \in members[v] : PathOf(m) = PathOf(n) => m = n

TreeOf(v) ==
  [p \in Paths |->
     IF \E m \in members[v] : PathOf(m) = p
     THEN EntityOf(CHOOSE m \in members[v] : PathOf(m) = p)
     ELSE None]

-----------------------------------------------------------------------------
(* Handlers                                                                *)

StartSet(t, k, v) ==
  /\ Free(t)
  /\ task' = [task EXCEPT ![t] = [NewTask("set", "members", k) EXCEPT !.vehicle = v]]
  /\ UNCHANGED <<targets, history, releaseVars>>

\* The tree hashes that GET /admin/channel-targets shows.
HashesShown == {targets[k].hash : k \in {j \in Target : targets[j] # None}}

\* A request by channel may also carry a tree hash that some target showed.
StartRead(t, sel, hash) ==
  /\ Free(t)
  /\ task' = [task EXCEPT ![t] = [NewTask("read", "select", sel) EXCEPT !.expected = hash]]
  /\ UNCHANGED <<targets, history, releaseVars>>

\* A client plans with the release and tree hash that GET /admin/channel-targets
\* shows for k, and asks for an L1 for the device and architecture of k2, or for the
\* tree of the release, which is for no device and goes straight to resolve_target.
StartPinned(t, k, k2, pc) ==
  /\ Free(t)
  /\ targets[k] # None
  /\ pc = "exists" => k2 = k
  /\ task' = [task EXCEPT ![t] =
                [NewTask("pinned", pc, k2) EXCEPT
                   !.row = k, !.vehicle = targets[k].vehicle,
                   !.expected = targets[k].hash, !.promised = targets[k].sealed]]
  /\ UNCHANGED <<targets, history, releaseVars>>

\* release_matches_target: a pinned release must have been a target for this
\* device and architecture at some time.
MatchTarget(t) ==
  /\ At(task, t, "match")
  /\ task' = [task EXCEPT ![t] =
                IF [vehicle |-> task[t].vehicle, device |-> task[t].target.device,
                    architecture |-> task[t].target.architecture] \in history
                THEN [@ EXCEPT !.pc = "exists"] ELSE Reply(t, "notfound")]
  /\ UNCHANGED <<targets, history, releaseVars>>

\* resolve_target, the pinned branch: SELECT EXISTS from vehicle_releases.
CheckExists(t) ==
  /\ At(task, t, "exists")
  /\ task' = [task EXCEPT ![t] =
                IF vehicles[task[t].vehicle] # None
                THEN [@ EXCEPT !.pc = "members"] ELSE Reply(t, "notfound")]
  /\ UNCHANGED <<targets, history, releaseVars>>

\* channel_target_vehicle: an exact lookup when device and architecture are both
\* given, otherwise the only target of the channel.
ChannelTargetVehicle(sel) ==
  LET rows == {k \in Target : k.channel = sel.channel /\ targets[k] # None} IN
  IF sel.device # None /\ sel.architecture # None
  THEN {k \in rows : k.device = sel.device /\ k.architecture = sel.architecture}
  ELSE {k \in rows : rows = {k}}

SelectTarget(t) ==
  /\ At(task, t, "select")
  /\ \E k \in ChannelTargetVehicle(task[t].target) :
       task' = [task EXCEPT ![t].pc = "members", ![t].row = k,
                            ![t].vehicle = targets[k].vehicle]
  /\ UNCHANGED <<targets, history, releaseVars>>

SelectNothing(t) ==
  /\ At(task, t, "select")
  /\ ChannelTargetVehicle(task[t].target) = {}
  /\ task' = [task EXCEPT ![t] = Reply(t, "notfound")]
  /\ UNCHANGED <<targets, history, releaseVars>>

\* resolve_members_to_tree: the member rows, in one statement ...
ReadMembers(t) ==
  /\ At(task, t, "members")
  /\ task' = [task EXCEPT ![t].pc = "fetch", ![t].todo = members[task[t].vehicle],
                          ![t].sealed = Sealed(task[t].vehicle)]
  /\ UNCHANGED <<targets, history, releaseVars>>

\* Mutant of FetchMember: the member's disabled flag is not carried over.
MutFetchEnabled(t, m) ==
  /\ At(task, t, "fetch")
  /\ m \in task[t].todo
  /\ task' = [task EXCEPT ![t].todo = @ \ {m},
                          ![t].tree[PathOf(m)] = [EntityOf(m) EXCEPT !.disabled = FALSE]]
  /\ UNCHANGED <<targets, history, releaseVars>>

\* ... then each member's component row, which never changes, and its part rows;
\* a path met again is overwritten.
FetchMember(t, m) ==
  /\ At(task, t, "fetch")
  /\ m \in task[t].todo
  /\ task' = [task EXCEPT ![t].todo = @ \ {m}, ![t].tree[PathOf(m)] = EntityOf(m)]
  /\ UNCHANGED <<targets, history, releaseVars>>

\* The end of resolve_target: a pinned tree hash must match.
Respond(t) ==
  /\ At(task, t, "fetch")
  /\ task[t].op # "set"
  /\ task[t].todo = {}
  /\ task' = [task EXCEPT ![t] =
                Reply(t, IF task[t].expected \notin {None, TreeHash(task[t].tree)}
                         THEN "mismatch" ELSE "ok")]
  /\ UNCHANGED <<targets, history, releaseVars>>

\* Mutant of WriteTarget: vehicle_release_targets is not written.
MutWriteWithoutHistory(t) ==
  LET k == task[t].target  v == task[t].vehicle IN
  /\ At(task, t, "fetch")
  /\ task[t].op = "set"
  /\ task[t].todo = {}
  /\ vehicles[v] # None
  /\ targets' = [targets EXCEPT ![k] =
                   [vehicle |-> v, hash |-> TreeHash(task[t].tree), sealed |-> task[t].sealed]]
  /\ task' = [task EXCEPT ![t] = Reply(t, "set")]
  /\ UNCHANGED <<history, releaseVars>>

\* Mutant of WriteTarget: an unresolved tree leaves the target without a hash.
MutWriteWithoutHash(t) ==
  LET k == task[t].target  v == task[t].vehicle IN
  /\ At(task, t, "fetch")
  /\ task[t].op = "set"
  /\ task[t].todo = {}
  /\ vehicles[v] # None
  /\ history' =
       history \cup {[vehicle |-> v, device |-> k.device, architecture |-> k.architecture]}
  /\ targets' = [targets EXCEPT ![k] =
                   [vehicle |-> v, sealed |-> task[t].sealed,
                    hash |-> IF task[t].tree = EmptyTree THEN None
                             ELSE TreeHash(task[t].tree)]]
  /\ task' = [task EXCEPT ![t] = Reply(t, "set")]
  /\ UNCHANGED releaseVars

\* Mutant of WriteTarget: the upsert conflicts on the channel alone, so it moves the
\* targets of all its devices.
MutWriteWholeChannel(t) ==
  LET k == task[t].target  v == task[t].vehicle IN
  /\ At(task, t, "fetch")
  /\ task[t].op = "set"
  /\ task[t].todo = {}
  /\ vehicles[v] # None
  /\ history' =
       history \cup {[vehicle |-> v, device |-> k.device, architecture |-> k.architecture]}
  /\ targets' =
       [j \in Target |->
          IF j.channel = k.channel
          THEN [vehicle |-> v, hash |-> TreeHash(task[t].tree), sealed |-> task[t].sealed]
          ELSE targets[j]]
  /\ task' = [task EXCEPT ![t] = Reply(t, "set")]
  /\ UNCHANGED releaseVars

\* set_channel_target's transaction: the release's history and the target row.
WriteTarget(t) ==
  LET k == task[t].target  v == task[t].vehicle IN
  /\ At(task, t, "fetch")
  /\ task[t].op = "set"
  /\ task[t].todo = {}
  /\ vehicles[v] # None
  /\ history' =
       history \cup {[vehicle |-> v, device |-> k.device, architecture |-> k.architecture]}
  /\ targets' = [targets EXCEPT ![k] =
                   [vehicle |-> v, hash |-> TreeHash(task[t].tree), sealed |-> task[t].sealed]]
  /\ task' = [task EXCEPT ![t] = Reply(t, "set")]
  /\ UNCHANGED releaseVars

\* The foreign key refuses an unknown release and the transaction rolls back.
WriteUnknown(t) ==
  /\ At(task, t, "fetch")
  /\ task[t].op = "set"
  /\ task[t].todo = {}
  /\ vehicles[task[t].vehicle] = None
  /\ task' = [task EXCEPT ![t] = Reply(t, "failed")]
  /\ UNCHANGED <<targets, history, releaseVars>>

StopChannel(t) ==
  /\ Faults
  /\ ~Free(t)
  /\ task' = [task EXCEPT ![t] = Reply(t, "failed")]
  /\ UNCHANGED <<targets, history, releaseVars>>

ChannelStep(t) ==
  \/ \E k \in Target, v \in VehicleIds : StartSet(t, k, v)
  \/ \E sel \in Selectors, hash \in HashesShown \cup {None} : StartRead(t, sel, hash)
  \/ \E k, k2 \in Target, pc \in {"match", "exists"} : StartPinned(t, k, k2, pc)
  \/ MatchTarget(t)
  \/ CheckExists(t)
  \/ SelectTarget(t)
  \/ SelectNothing(t)
  \/ ReadMembers(t)
  \/ \E m \in Member : FetchMember(t, m)
  \/ Respond(t)
  \/ WriteTarget(t)
  \/ WriteUnknown(t)
  \/ StopChannel(t)

Next ==
  \/ \E t \in ComponentTasks : ComponentStep(t) /\ UNCHANGED channelVars
  \/ \E t \in VehicleTasks : VehicleStep(t) /\ UNCHANGED channelVars
  \/ \E t \in ChannelTasks : ChannelStep(t)

Spec == Init /\ [][Next]_vars

-----------------------------------------------------------------------------
(* Properties                                                              *)

Resolved(t) == task[t] # None /\ task[t].pc = "fetch" /\ task[t].todo = {}

\* A resolution never invents content: every entity of the tree it hands on is a
\* member of the resolved release, with that member's flag and only its parts,
\* also when the release is still growing while the rows are read.
ResolvedSound ==
  \A t \in ChannelTasks : task[t] # None =>
    \A p \in Paths : task[t].tree[p] # None =>
      \E m \in members[task[t].vehicle] :
        /\ PathOf(m) = p
        /\ task[t].tree[p].disabled = m.disabled
        /\ task[t].tree[p].kind = EntityOf(m).kind
        /\ task[t].tree[p].parts \subseteq parts[m.component]

\* A release that was whole when its members were read resolves to exactly its
\* tree, though the rows are read one by one while channels move and others mint.
ResolvedExact ==
  \A t \in ChannelTasks :
    Resolved(t) /\ task[t].sealed => task[t].tree = TreeOf(task[t].vehicle)

\* The hash stored with a target set on a whole release is the hash of what that
\* release resolves to, for good; and every target is in its release's history.
TargetsBound ==
  \A k \in Target : targets[k] # None =>
    /\ targets[k].sealed => targets[k].hash = TreeHash(TreeOf(targets[k].vehicle))
    /\ vehicles[targets[k].vehicle] # None
    /\ [vehicle |-> targets[k].vehicle, device |-> k.device,
        architecture |-> k.architecture] \in history

SameDevice(k, k2) == k.device = k2.device /\ k.architecture = k2.architecture

\* Plan, then execute: a request pinned to what a target on a whole release showed
\* is never refused for its own device, wherever the channel has moved meanwhile.
PinHonoured ==
  \A t \in ChannelTasks :
    /\ task[t] # None
    /\ task[t].op = "pinned"
    /\ task[t].promised
    /\ SameDevice(task[t].row, task[t].target)
    => task[t].pc \notin {"notfound", "mismatch"}

\* Channels and releases give a desired state as DesiredState promises it: a release
\* that is whole resolves to one tree for ever, though it was built row by row and
\* others mint, and a target changes only when set_channel_target commits.
Desired ==
  INSTANCE DesiredState WITH
    Targets <- Target, Vehicles <- VehicleIds, Trees <- Tree,
    points <- [k \in Target |-> IF targets[k] = None THEN None ELSE targets[k].vehicle],
    desired <- [v \in VehicleIds |-> IF Sealed(v) THEN TreeOf(v) ELSE None]
ImplementsDesired == Desired!Spec

\* "tree_hash binds plan -> execute ... a campaign planned against a channel
\* resolves and executes the exact same tree" (migration 0005): a request pinned
\* to a target's release and tree hash never finds another tree.
PlanBindsExecute ==
  \A t \in ChannelTasks : At(task, t, "mismatch") => task[t].op # "pinned"

-----------------------------------------------------------------------------
(* The inductive invariant.  A whole release stays as it is, so what a       *)
(* handler has read of one stays true while others mint and channels move.   *)

\* What a request for a pinned release carries came from a target row.
PinSound(s) ==
  /\ vehicles[s.vehicle] # None
  /\ [vehicle |-> s.vehicle, device |-> s.row.device,
      architecture |-> s.row.architecture] \in history
  /\ s.promised => Sealed(s.vehicle) /\ s.expected = TreeHash(TreeOf(s.vehicle))

\* The members still to fetch; those of a whole release that are fetched are in the
\* tree, and nothing else is.
FetchSound(s) ==
  /\ s.todo \subseteq members[s.vehicle]
  /\ s.op = "pinned" /\ s.promised => s.sealed
  /\ s.sealed =>
       /\ Sealed(s.vehicle)
       /\ \A m \in members[s.vehicle] \ s.todo : s.tree[PathOf(m)] = EntityOf(m)
       /\ \A p \in Paths : s.tree[p] # None =>
            \E m \in members[s.vehicle] \ s.todo : PathOf(m) = p

\* What a handler in state s relies on.
TaskSound(s) ==
  /\ s.op # "read" => s.target \in Target
  /\ s.op = "pinned" => s.row \in Target
  /\ s.pc = "select" => s.op = "read"
  /\ s.pc \in {"match", "exists"} => s.op = "pinned"
  /\ s.pc # "fetch" => s.tree = EmptyTree
  /\ s.pc \in {"match", "exists", "members", "fetch"} =>
       s.vehicle \in VehicleIds /\ (s.op = "pinned" => PinSound(s))
  /\ s.pc = "fetch" => FetchSound(s)

HandlersSound == \A t \in ChannelTasks : task[t] # None => TaskSound(task[t])

\* A target that was set on a whole release is on a whole release for good.
TargetsSealed ==
  \A k \in Target : targets[k] # None /\ targets[k].sealed => Sealed(targets[k].vehicle)

Inv ==
  /\ TypeOK /\ ReleaseInv /\ SnapshotWithin
  /\ ResolvedSound /\ TargetsBound /\ PinHonoured
  /\ HandlersSound /\ TargetsSealed
=============================================================================
