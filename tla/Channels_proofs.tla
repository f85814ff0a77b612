--------------------------- MODULE Channels_proofs ---------------------------
(***************************************************************************)
(* Proofs about Channels, for any releases, targets and number of          *)
(* handlers.  They rest on the proofs about the release store below.       *)
(***************************************************************************)
EXTENDS Channels, Releases_proofs

\* Time limits of the provers: the time they take varies with the length of the run.
USE SMTT(40), ZenonT(40)

-----------------------------------------------------------------------------
(* What minting leaves as it is                                            *)

\* A member row names a component that is there, so its path and kind stay.
LEMMA MemberKept ==
  ASSUME ReleaseInv, ComponentsKept, VehiclesKept, NEW v \in VehicleIds, NEW m \in members[v]
  PROVE  /\ m \in Member /\ m \in members'[v] /\ m.component \in ComponentIds
         /\ components[m.component] \in ComponentRow
         /\ components'[m.component] = components[m.component]
         /\ PathOf(m)' = PathOf(m) /\ PathOf(m) \in Paths
         /\ EntityOf(m).kind' = EntityOf(m).kind
         /\ parts[m.component] \subseteq parts'[m.component]
<1>1. m \in Member /\ m.component \in ComponentIds
  BY DEF ReleaseInv, ReleaseTypeOK, Member
<1>2. components[m.component] # None
  BY DEF ReleaseInv, ChildrenWithin
<1>3. components[m.component] \in ComponentRow
  BY <1>1, <1>2 DEF ReleaseInv, ReleaseTypeOK
<1>4. components'[m.component] = components[m.component]
  BY <1>1, <1>2 DEF ComponentsKept
<1>5. m \in members'[v] /\ parts[m.component] \subseteq parts'[m.component]
  BY <1>1 DEF VehiclesKept, ComponentsKept
<1> QED
  BY <1>1, <1>3, <1>4, <1>5 DEF PathOf, EntityOf, ComponentRow

\* An entity of a member is an entity.
LEMMA EntityType ==
  ASSUME ReleaseInv, NEW v \in VehicleIds, NEW m \in members[v]
  PROVE  EntityOf(m) \in Entity /\ PathOf(m) \in Paths /\ m \in Member
<1>1. m \in Member /\ m.component \in ComponentIds /\ m.disabled \in BOOLEAN
  BY DEF ReleaseInv, ReleaseTypeOK, Member
<1>2. components[m.component] \in ComponentRow
  BY <1>1 DEF ReleaseInv, ReleaseTypeOK, ChildrenWithin
<1>3. components[m.component].identity.kind \in Kinds /\ components[m.component].path \in Paths
  <2>1. components[m.component].path \in Paths
    BY <1>2 DEF ComponentRow
  <2>2. PICK r \in ComponentRequests : components[m.component].identity = ComponentIdentity(r)
    BY <1>2 DEF ComponentRow
  <2>3. r.kind \in Kinds
    BY ReleaseAssumption DEF ComponentRequest
  <2> QED
    BY <2>1, <2>2, <2>3 DEF ComponentIdentity
<1>4. parts[m.component] \subseteq Part
  BY <1>1 DEF ReleaseInv, ReleaseTypeOK
<1> QED
  BY <1>1, <1>3, <1>4 DEF EntityOf, PathOf, Entity

\* A whole release stays whole and resolves to the same tree.
LEMMA SealedKept ==
  ASSUME ReleaseInv, ComponentsKept, VehiclesKept, NEW v \in VehicleIds, Sealed(v)
  PROVE  /\ Sealed(v)' /\ TreeOf(v)' = TreeOf(v) /\ members'[v] = members[v]
         /\ \A m \in members[v] : PathOf(m)' = PathOf(m) /\ EntityOf(m)' = EntityOf(m)
<1>1. members'[v] = members[v] /\ vehicles[v] # None /\ vehicles'[v] = vehicles[v]
  BY DEF Sealed, VehicleComplete, VehiclesKept
<1>2. \A m \in members[v] : /\ m.component \in ComponentIds
                            /\ components'[m.component] = components[m.component]
                            /\ PathOf(m)' = PathOf(m)
  BY MemberKept
<1>3. \A m \in members[v] : parts'[m.component] = parts[m.component]
  BY <1>2 DEF Sealed, ComponentsKept
<1>4. \A m \in members[v] : EntityOf(m)' = EntityOf(m)
  BY <1>2, <1>3 DEF EntityOf
<1>5. \A m \in members[v] : ComponentComplete(m.component)'
  BY <1>2, <1>3 DEF Sealed, ComponentComplete
<1>6. VehicleComplete(v)'
  BY <1>1 DEF Sealed, VehicleComplete
<1>7. Sealed(v)'
  BY <1>1, <1>2, <1>5, <1>6 DEF Sealed
<1>8. TreeOf(v)' = TreeOf(v)
  <2> SUFFICES ASSUME NEW p \in Paths PROVE TreeOf(v)[p]' = TreeOf(v)[p]
    BY DEF TreeOf
  <2>1. CASE ~\E m \in members[v] : PathOf(m) = p
    BY <1>1, <1>2, <2>1 DEF TreeOf
  <2>2. ASSUME NEW m \in members[v], PathOf(m) = p PROVE TreeOf(v)[p]' = TreeOf(v)[p]
    <3>1. \A n \in members[v] : PathOf(n) = p => n = m
      BY <2>2 DEF Sealed
    <3>2. TreeOf(v)[p] = EntityOf(m)
      <4>1. (CHOOSE n \in members[v] : PathOf(n) = p) = m
        BY <2>2, <3>1
      <4> QED
        BY ZenonT(40), <2>2, <4>1 DEF TreeOf
    <3>3. TreeOf(v)[p]' = EntityOf(m)'
      <4>1. (CHOOSE n \in members'[v] : PathOf(n)' = p) = m
        BY <1>1, <1>2, <2>2, <3>1
      <4> QED
        BY ZenonT(40), <1>1, <1>2, <2>2, <4>1 DEF TreeOf
    <3> QED
      BY <1>4, <3>2, <3>3
  <2> QED
    BY <2>1, <2>2
<1> QED
  BY <1>1, <1>2, <1>4, <1>7, <1>8

-----------------------------------------------------------------------------
(* What a handler has read stays true                                      *)

\* ResolvedSound for a handler in state s.
TreeWithin(s) ==
  \A p \in Paths : s.tree[p] # None =>
    \E m \in members[s.vehicle] :
      /\ PathOf(m) = p
      /\ s.tree[p].disabled = m.disabled
      /\ s.tree[p].kind = EntityOf(m).kind
      /\ s.tree[p].parts \subseteq parts[m.component]

LEMMA TaskKept ==
  ASSUME ReleaseInv, ComponentsKept, VehiclesKept, history \subseteq history',
         NEW s \in Task, TaskSound(s), TreeWithin(s)
  PROVE  TaskSound(s)' /\ TreeWithin(s)'
<1>1. CASE s.pc \notin {"match", "exists", "members", "fetch"}
  BY <1>1 DEF TaskSound, TreeWithin, EmptyTree
<1>2. CASE s.pc \in {"match", "exists", "members", "fetch"}
  <2>1. s.vehicle \in VehicleIds
    BY <1>2 DEF TaskSound
  <2> DEFINE v == s.vehicle
  <2>2. Sealed(v) => /\ Sealed(v)' /\ TreeOf(v)' = TreeOf(v) /\ members'[v] = members[v]
                     /\ \A m \in members[v] : PathOf(m)' = PathOf(m) /\ EntityOf(m)' = EntityOf(m)
    BY <2>1, SealedKept
  <2>3. s.op = "pinned" => PinSound(s)'
    <3> SUFFICES ASSUME s.op = "pinned" PROVE PinSound(s)'
      OBVIOUS
    <3>1. PinSound(s)
      BY <1>2 DEF TaskSound
    <3>2. vehicles'[v] # None
      BY <2>1, <3>1 DEF PinSound, VehiclesKept
    <3>3. TreeOf(v)' = TreeOf(v) => TreeHash(TreeOf(v))' = TreeHash(TreeOf(v))
      BY DEF TreeHash
    <3> QED
      BY <2>2, <3>1, <3>2, <3>3 DEF PinSound
  <2>4. s.pc = "fetch" => FetchSound(s)'
    <3> SUFFICES ASSUME s.pc = "fetch" PROVE FetchSound(s)'
      OBVIOUS
    <3>1. FetchSound(s)
      BY DEF TaskSound
    <3>2. members[v] \subseteq members'[v]
      BY <2>1 DEF VehiclesKept
    <3> QED
      BY <2>2, <3>1, <3>2 DEF FetchSound
  <2>5. TreeWithin(s)'
    <3> SUFFICES ASSUME NEW p \in Paths, s.tree[p] # None
                 PROVE  \E m \in members'[v] :
                          /\ PathOf(m)' = p
                          /\ s.tree[p].disabled = m.disabled
                          /\ s.tree[p].kind = EntityOf(m)'.kind
                          /\ s.tree[p].parts \subseteq parts'[m.component]
      BY DEF TreeWithin
    <3>1. PICK m \in members[v] : /\ PathOf(m) = p
                                  /\ s.tree[p].disabled = m.disabled
                                  /\ s.tree[p].kind = EntityOf(m).kind
                                  /\ s.tree[p].parts \subseteq parts[m.component]
      BY DEF TreeWithin
    <3>2. /\ m \in members'[v] /\ PathOf(m)' = PathOf(m) /\ EntityOf(m).kind' = EntityOf(m).kind
          /\ parts[m.component] \subseteq parts'[m.component]
      BY <2>1, MemberKept
    <3> QED
      BY <3>1, <3>2
  <2> QED
    BY <2>1, <2>3, <2>4, <2>5 DEF TaskSound
<1> QED
  BY <1>1, <1>2

\* Minting disturbs no channel handler and no target.
LEMMA MintInv ==
  ASSUME Inv, [ReleaseNext]_releaseVars, UNCHANGED channelVars
  PROVE  Inv'
<1>1. ReleaseInv /\ ReleaseInv' /\ SnapshotWithin'
  BY ReleaseNextInv, SnapshotStep DEF Inv
<1>2. ComponentsKept /\ VehiclesKept
  <2>1. CASE UNCHANGED releaseVars
    BY <2>1 DEF ComponentsKept, VehiclesKept, releaseVars
  <2> QED
    BY <2>1, ComponentStepKeeps, VehicleStepKeeps DEF Inv, ReleaseNext
<1>3. UNCHANGED <<targets, history, task>>
  BY DEF channelVars
<1>4. TypeOK'
  BY <1>1, <1>3 DEF Inv, TypeOK, ReleaseInv
<1>5. ASSUME NEW t \in ChannelTasks, task[t] # None
      PROVE  TaskSound(task[t])' /\ TreeWithin(task[t])'
  <2>1. PICK s \in Task : s = task[t]
    BY <1>5 DEF Inv, TypeOK
  <2>2. TaskSound(s) /\ TreeWithin(s)
    BY <1>5, <2>1 DEF Inv, HandlersSound, ResolvedSound, TreeWithin
  <2>3. TaskSound(s)' /\ TreeWithin(s)'
    BY <1>1, <1>2, <1>3, <2>2, TaskKept
  <2>4. s = task[t]'
    BY <1>3, <2>1
  <2> QED
    BY <2>3, <2>4
<1>6. HandlersSound' /\ ResolvedSound'
  BY <1>3, <1>5 DEF HandlersSound, ResolvedSound, TreeWithin
<1>7. PinHonoured'
  BY <1>3 DEF Inv, PinHonoured, SameDevice
<1>8. ASSUME NEW k \in Target, targets[k] # None
      PROVE  /\ targets[k].sealed => /\ Sealed(targets[k].vehicle)'
                                     /\ targets[k].hash = TreeHash(TreeOf(targets[k].vehicle))'
             /\ vehicles'[targets[k].vehicle] # None
  <2>1. PICK v \in VehicleIds : v = targets[k].vehicle
    BY <1>8 DEF Inv, TypeOK, TargetRow
  <2>2. vehicles'[v] # None
    BY ZenonT(40), <1>2, <1>8, <2>1 DEF Inv, TargetsBound, VehiclesKept
  <2>3. ASSUME targets[k].sealed
        PROVE  Sealed(v)' /\ targets[k].hash = TreeHash(TreeOf(v))'
    <3>1. Sealed(v) /\ targets[k].hash = TreeHash(TreeOf(v))
      BY ZenonT(40), <1>8, <2>1, <2>3 DEF Inv, TargetsBound, TargetsSealed
    <3>2. Sealed(v)' /\ TreeOf(v)' = TreeOf(v)
      BY <1>1, <1>2, <3>1, SealedKept
    <3> QED
      BY <3>1, <3>2 DEF TreeHash
  <2>4. v = targets[k].vehicle'
    BY ZenonT(40), <1>3, <2>1
  <2> QED
    BY <1>3, <2>1, <2>2, <2>3, <2>4
<1>9. TargetsBound' /\ TargetsSealed'
  BY <1>3, <1>8 DEF Inv, TargetsBound, TargetsSealed
<1> QED
  BY <1>1, <1>4, <1>6, <1>7, <1>9 DEF Inv

-----------------------------------------------------------------------------
(* Steps of channel handlers                                               *)

\* Handler t becomes s, which relies only on what is there.
LEMMA Move ==
  ASSUME Inv, UNCHANGED releaseVars, NEW t \in ChannelTasks, NEW s \in Task,
         task' = [task EXCEPT ![t] = s],
         history \subseteq history', TaskSound(s), TreeWithin(s),
         s.op = "pinned" /\ s.promised /\ SameDevice(s.row, s.target)
           => s.pc \notin {"notfound", "mismatch"}
  PROVE  /\ ReleaseInv' /\ SnapshotWithin' /\ task' \in [ChannelTasks -> Task \cup {None}]
         /\ HandlersSound' /\ ResolvedSound' /\ PinHonoured'
<1>1. ReleaseInv /\ ReleaseInv' /\ SnapshotWithin'
  BY ReleaseStutter DEF Inv, SnapshotWithin, releaseVars
<1>2. ComponentsKept /\ VehiclesKept
  BY DEF ComponentsKept, VehiclesKept, releaseVars
<1>3. /\ task' \in [ChannelTasks -> Task \cup {None}] /\ task'[t] = s
      /\ \A u \in ChannelTasks \ {t} : task'[u] = task[u]
  BY DEF Inv, TypeOK
<1>4. ASSUME NEW u \in ChannelTasks, task'[u] # None
      PROVE  TaskSound(task[u])' /\ TreeWithin(task[u])'
  <2>1. PICK r \in Task : r = task'[u]
    BY <1>3, <1>4
  <2>2. TaskSound(r) /\ TreeWithin(r)
    <3>1. CASE u = t
      BY <1>3, <2>1, <3>1
    <3>2. CASE u # t
      BY <1>3, <1>4, <2>1, <3>2 DEF Inv, HandlersSound, ResolvedSound, TreeWithin
    <3> QED
      BY <3>1, <3>2
  <2>3. TaskSound(r)' /\ TreeWithin(r)'
    BY <1>1, <1>2, <2>2, TaskKept
  <2> QED
    BY <2>1, <2>3
<1>5. HandlersSound' /\ ResolvedSound'
  BY <1>4 DEF HandlersSound, ResolvedSound, TreeWithin
<1>6. PinHonoured'
  BY <1>3 DEF Inv, PinHonoured, SameDevice
<1> QED
  BY <1>1, <1>3, <1>5, <1>6

\* ... and leaves the tables alone.
LEMMA MoveInv ==
  ASSUME Inv, UNCHANGED <<targets, history, releaseVars>>, NEW t \in ChannelTasks, NEW s \in Task,
         task' = [task EXCEPT ![t] = s], TaskSound(s), TreeWithin(s),
         s.op = "pinned" /\ s.promised /\ SameDevice(s.row, s.target)
           => s.pc \notin {"notfound", "mismatch"}
  PROVE  Inv'
<1>1. /\ ReleaseInv' /\ SnapshotWithin' /\ task' \in [ChannelTasks -> Task \cup {None}]
      /\ HandlersSound' /\ ResolvedSound' /\ PinHonoured'
  BY ZenonT(40), Move
<1>2. TypeOK'
  BY <1>1 DEF Inv, TypeOK, ReleaseInv
<1>3. \A v \in VehicleIds : Sealed(v)' = Sealed(v) /\ TreeOf(v)' = TreeOf(v)
  BY DEF releaseVars, Sealed, VehicleComplete, ComponentComplete, PathOf, TreeOf, EntityOf
<1>4. TargetsBound' /\ TargetsSealed'
  <2>1. \A k \in Target : targets[k] # None => targets[k].vehicle \in VehicleIds
    BY DEF Inv, TypeOK, TargetRow
  <2>2. vehicles' = vehicles
    BY DEF releaseVars
  <2>3. ASSUME NEW k \in Target, targets[k] # None, targets[k].sealed
        PROVE  Sealed(targets[k].vehicle)' /\ targets[k].hash = TreeHash(TreeOf(targets[k].vehicle))'
    <3>1. PICK v \in VehicleIds : v = targets[k].vehicle
      BY <2>1, <2>3
    <3>2. Sealed(v) /\ targets[k].hash = TreeHash(TreeOf(v))
      BY ZenonT(40), <2>3, <3>1 DEF Inv, TargetsBound, TargetsSealed
    <3>3. Sealed(v)' /\ targets[k].hash = TreeHash(TreeOf(v))'
      BY <1>3, <3>2 DEF TreeHash
    <3>4. v = targets[k].vehicle'
      BY ZenonT(40), <3>1
    <3> QED
      BY <3>3, <3>4
  <2> QED
    BY <2>2, <2>3 DEF Inv, TargetsBound, TargetsSealed
<1> QED
  BY <1>1, <1>2, <1>4 DEF Inv

\* A new task and a replied one have read nothing.
LEMMA NewTaskType ==
  ASSUME NEW op \in {"set", "read", "pinned"}, NEW x \in Target \cup Selector,
         NEW pc \in {"match", "select", "exists", "members"} \cup Replied
  PROVE  /\ NewTask(op, pc, x) \in Task
         /\ NewTask(op, pc, x).op = op /\ NewTask(op, pc, x).pc = pc
         /\ NewTask(op, pc, x).target = x /\ NewTask(op, pc, x).tree = EmptyTree
<1>1. EmptyTree \in Tree
  BY DEF EmptyTree, Tree
<1> QED
  BY <1>1 DEF NewTask, Task, Replied

LEMMA EmptyWithin ==
  ASSUME NEW s \in Task, s.tree = EmptyTree
  PROVE  TreeWithin(s)
  BY DEF TreeWithin, EmptyTree

LEMMA ReplyTask ==
  ASSUME Inv, NEW t \in ChannelTasks, task[t] # None, NEW pc \in Replied
  PROVE  \E s \in Task :
           /\ s = Reply(t, pc) /\ s.op = task[t].op /\ s.pc = pc /\ s.target = task[t].target
           /\ s.row = task[t].row /\ s.promised = task[t].promised
           /\ TaskSound(s) /\ TreeWithin(s)
<1>1. task[t] \in Task /\ TaskSound(task[t])
  BY DEF Inv, TypeOK, HandlersSound
<1>2. PICK n \in Task :
        /\ n = NewTask(task[t].op, pc, task[t].target)
        /\ n.op = task[t].op /\ n.pc = pc /\ n.target = task[t].target /\ n.tree = EmptyTree
  <2>1. task[t].op \in {"set", "read", "pinned"} /\ task[t].target \in Target \cup Selector
    BY <1>1 DEF Task
  <2>2. PICK op \in {"set", "read", "pinned"} : op = task[t].op
    BY <2>1
  <2>3. PICK x \in Target \cup Selector : x = task[t].target
    BY <2>1
  <2>4. pc \in {"match", "select", "exists", "members"} \cup Replied
    OBVIOUS
  <2>5. LET n == NewTask(op, pc, x)
        IN n \in Task /\ n.op = op /\ n.pc = pc /\ n.target = x /\ n.tree = EmptyTree
    BY <2>4, NewTaskType
  <2> QED
    BY ZenonT(40), <2>2, <2>3, <2>5
<1>3. PICK s \in Task : s = [n EXCEPT !.row = task[t].row, !.promised = task[t].promised]
  BY ZenonT(40), <1>1 DEF Task
<1>4. /\ s.op = task[t].op /\ s.pc = pc /\ s.target = task[t].target /\ s.tree = EmptyTree
      /\ s.row = task[t].row /\ s.promised = task[t].promised
  BY <1>2, <1>3 DEF Task
<1>5. TaskSound(s)
  BY <1>1, <1>4 DEF TaskSound, Replied
<1>6. TreeWithin(s)
  BY <1>4, EmptyWithin
<1> QED
  BY ZenonT(40), <1>2, <1>3, <1>4, <1>5, <1>6 DEF Reply

LEMMA StartSetInv ==
  ASSUME Inv, NEW t \in ChannelTasks, NEW k \in Target, NEW v \in VehicleIds, StartSet(t, k, v)
  PROVE  Inv'
<1>1. PICK n \in Task : /\ n = NewTask("set", "members", k) /\ n.op = "set" /\ n.pc = "members"
                        /\ n.target = k /\ n.tree = EmptyTree
  BY NewTaskType
<1>2. PICK s \in Task : s = [n EXCEPT !.vehicle = v]
  BY ZenonT(40) DEF Task
<1>3. s.op = "set" /\ s.pc = "members" /\ s.target = k /\ s.tree = EmptyTree /\ s.vehicle = v
  BY <1>1, <1>2 DEF Task
<1>4. TaskSound(s) /\ TreeWithin(s)
  BY <1>3, EmptyWithin DEF TaskSound
<1> QED
  BY ZenonT(40), <1>1, <1>2, <1>3, <1>4, MoveInv DEF StartSet

LEMMA StartReadInv ==
  ASSUME Inv, NEW t \in ChannelTasks, NEW sel \in Selectors,
         NEW hash \in HashesShown \cup {None}, StartRead(t, sel, hash)
  PROVE  Inv'
<1>1. PICK n \in Task : /\ n = NewTask("read", "select", sel) /\ n.op = "read" /\ n.pc = "select"
                        /\ n.tree = EmptyTree
  BY NewTaskType, ChannelAssumption
<1>2. hash \in Hash \cup {None}
  BY DEF HashesShown, Inv, TypeOK, TargetRow
<1>3. PICK s \in Task : s = [n EXCEPT !.expected = hash]
  BY ZenonT(40), <1>2 DEF Task
<1>4. s.op = "read" /\ s.pc = "select" /\ s.tree = EmptyTree
  BY <1>1, <1>3 DEF Task
<1>5. TaskSound(s) /\ TreeWithin(s)
  BY <1>4, EmptyWithin DEF TaskSound
<1> QED
  BY ZenonT(40), <1>1, <1>3, <1>4, <1>5, MoveInv DEF StartRead

\* A pin is a copy of a target row, and rows are bound.
LEMMA StartPinnedInv ==
  ASSUME Inv, NEW t \in ChannelTasks, NEW k \in Target, NEW k2 \in Target,
         NEW pc \in {"match", "exists"}, StartPinned(t, k, k2, pc)
  PROVE  Inv'
<1>1. PICK n \in Task : /\ n = NewTask("pinned", pc, k2) /\ n.op = "pinned" /\ n.pc = pc
                        /\ n.target = k2 /\ n.tree = EmptyTree
  BY NewTaskType
<1>2. PICK row \in TargetRow : row = targets[k]
  BY DEF StartPinned, Inv, TypeOK
<1>3. row.vehicle \in VehicleIds /\ row.hash \in Hash /\ row.sealed \in BOOLEAN
  BY DEF TargetRow
<1>4. PICK s \in Task : s = [n EXCEPT !.row = k, !.vehicle = row.vehicle, !.expected = row.hash,
                                      !.promised = row.sealed]
  BY ZenonT(40), <1>3 DEF Task
<1>5. /\ s.op = "pinned" /\ s.pc = pc /\ s.target = k2 /\ s.tree = EmptyTree
      /\ s.row = k /\ s.vehicle = row.vehicle /\ s.expected = row.hash /\ s.promised = row.sealed
  BY <1>1, <1>4 DEF Task
<1>6. PinSound(s)
  BY <1>2, <1>5 DEF StartPinned, Inv, TargetsBound, TargetsSealed, PinSound
<1>7. TaskSound(s) /\ TreeWithin(s)
  BY <1>3, <1>5, <1>6, EmptyWithin DEF TaskSound
<1>8. task' = [task EXCEPT ![t] = s]
  BY <1>1, <1>2, <1>4 DEF StartPinned
<1> QED
  BY ZenonT(40), <1>5, <1>7, <1>8, MoveInv DEF StartPinned

\* A handler that only goes on to another statement.
LEMMA ProceedInv ==
  ASSUME Inv, UNCHANGED <<targets, history, releaseVars>>, NEW t \in ChannelTasks,
         task[t] # None, task[t].pc \in {"match", "exists"}, NEW pc \in {"exists", "members"},
         task' = [task EXCEPT ![t] = [task[t] EXCEPT !.pc = pc]]
  PROVE  Inv'
<1>1. PICK r \in Task : r = task[t] /\ TaskSound(r)
  BY DEF Inv, TypeOK, HandlersSound
<1>2. PICK s \in Task : s = [r EXCEPT !.pc = pc]
  BY ZenonT(40) DEF Task
<1>3. /\ s.pc = pc /\ s.op = r.op /\ s.target = r.target /\ s.row = r.row /\ s.tree = r.tree
      /\ s.vehicle = r.vehicle /\ s.expected = r.expected /\ s.promised = r.promised
  BY <1>2 DEF Task
<1>4. TaskSound(s) /\ TreeWithin(s)
  BY <1>1, <1>3, EmptyWithin DEF TaskSound, PinSound
<1> QED
  BY ZenonT(40), <1>1, <1>2, <1>3, <1>4, MoveInv

\* A handler that replies, and not with a broken promise.
LEMMA ReplyInv ==
  ASSUME Inv, UNCHANGED <<targets, history, releaseVars>>, NEW t \in ChannelTasks,
         task[t] # None, NEW pc \in Replied, task' = [task EXCEPT ![t] = Reply(t, pc)],
         task[t].op = "pinned" /\ task[t].promised /\ SameDevice(task[t].row, task[t].target)
           => pc \notin {"notfound", "mismatch"}
  PROVE  Inv'
<1>1. PICK s \in Task :
        /\ s = Reply(t, pc) /\ s.op = task[t].op /\ s.pc = pc /\ s.target = task[t].target
        /\ s.row = task[t].row /\ s.promised = task[t].promised
        /\ TaskSound(s) /\ TreeWithin(s)
  BY ReplyTask
<1> QED
  BY ZenonT(40), <1>1, MoveInv

\* release_matches_target: history keeps what a target row promised.
LEMMA MatchTargetInv ==
  ASSUME Inv, NEW t \in ChannelTasks, MatchTarget(t)
  PROVE  Inv'
<1>1. task[t] # None /\ task[t].pc = "match"
  BY DEF MatchTarget, At
<1>2. task[t].op = "pinned" /\ PinSound(task[t])
  BY <1>1 DEF Inv, HandlersSound, TaskSound
<1> DEFINE known == [vehicle |-> task[t].vehicle, device |-> task[t].target.device,
                     architecture |-> task[t].target.architecture] \in history
<1>3. CASE known
  <2>1. PICK pc \in {"exists", "members"} : pc = "exists"
    OBVIOUS
  <2>2. task' = [task EXCEPT ![t] = [task[t] EXCEPT !.pc = pc]]
    BY <1>3, <2>1 DEF MatchTarget, Inv, TypeOK
  <2> QED
    BY ZenonT(40), <1>1, <2>2, ProceedInv DEF MatchTarget
<1>4. CASE ~known
  <2>1. ~SameDevice(task[t].row, task[t].target)
    BY <1>2, <1>4 DEF PinSound, SameDevice
  <2>2. PICK pc \in Replied : pc = "notfound"
    BY DEF Replied
  <2>3. task' = [task EXCEPT ![t] = Reply(t, pc)]
    BY <1>4, <2>2 DEF MatchTarget
  <2> QED
    BY ZenonT(40), <1>1, <2>1, <2>3, ReplyInv DEF MatchTarget
<1> QED
  BY <1>3, <1>4

LEMMA CheckExistsInv ==
  ASSUME Inv, NEW t \in ChannelTasks, CheckExists(t)
  PROVE  Inv'
<1>1. task[t] # None /\ task[t].pc = "exists"
  BY ZenonT(40) DEF CheckExists, At
<1>2. task[t].op = "pinned" /\ PinSound(task[t])
  BY <1>1 DEF Inv, HandlersSound, TaskSound
<1>3. PICK pc \in {"exists", "members"} : pc = "members"
  OBVIOUS
<1>4. task' = [task EXCEPT ![t] = [task[t] EXCEPT !.pc = pc]]
  BY <1>2, <1>3 DEF CheckExists, PinSound, Inv, TypeOK
<1> QED
  BY ZenonT(40), <1>1, <1>4, ProceedInv DEF CheckExists

\* channel_target_vehicle picks a row of the channel.
LEMMA SelectTargetInv ==
  ASSUME Inv, NEW t \in ChannelTasks, SelectTarget(t)
  PROVE  Inv'
<1>1. PICK r \in Task : r = task[t] /\ TaskSound(r) /\ r.pc = "select"
  BY DEF SelectTarget, At, Inv, TypeOK, HandlersSound
<1>2. PICK k \in Target :
        /\ targets[k] # None
        /\ task' = [task EXCEPT ![t].pc = "members", ![t].row = k, ![t].vehicle = targets[k].vehicle]
  BY ZenonT(40) DEF SelectTarget, ChannelTargetVehicle
<1>3. PICK v \in VehicleIds : v = targets[k].vehicle
  BY <1>2 DEF Inv, TypeOK, TargetRow
<1>4. PICK s \in Task : s = [r EXCEPT !.pc = "members", !.row = k, !.vehicle = v]
  BY ZenonT(40) DEF Task
<1>5. s.pc = "members" /\ s.op = r.op /\ s.tree = r.tree /\ s.vehicle = v /\ s.target = r.target
  BY <1>4 DEF Task
<1>6. task' = [task EXCEPT ![t] = s]
  BY ZenonT(40), <1>1, <1>2, <1>3, <1>4 DEF Inv, TypeOK
<1>7. TaskSound(s) /\ TreeWithin(s) /\ s.op = "read"
  BY <1>1, <1>5, EmptyWithin DEF TaskSound
<1> QED
  BY ZenonT(40), <1>6, <1>7, MoveInv DEF SelectTarget

LEMMA SelectNothingInv ==
  ASSUME Inv, NEW t \in ChannelTasks, SelectNothing(t)
  PROVE  Inv'
<1>1. task[t] # None /\ task[t].op = "read"
  BY DEF SelectNothing, At, Inv, HandlersSound, TaskSound
<1>2. PICK pc \in Replied : pc = "notfound"
  BY DEF Replied
<1> QED
  BY ZenonT(40), <1>1, <1>2, ReplyInv DEF SelectNothing

\* resolve_members_to_tree: the member rows of a whole release are all it will have.
LEMMA ReadMembersInv ==
  ASSUME Inv, NEW t \in ChannelTasks, ReadMembers(t)
  PROVE  Inv'
<1>1. PICK r \in Task : r = task[t] /\ TaskSound(r) /\ r.pc = "members"
  BY DEF ReadMembers, At, Inv, TypeOK, HandlersSound
<1>2. PICK v \in VehicleIds : v = r.vehicle
  BY <1>1 DEF TaskSound
<1>3. PICK ms \in SUBSET Member : ms = members[v]
  BY DEF Inv, ReleaseInv, ReleaseTypeOK
<1>4. PICK whole \in BOOLEAN : whole = Sealed(v)
  BY ZenonT(40) DEF Sealed, VehicleComplete
<1>5. PICK s \in Task : s = [r EXCEPT !.pc = "fetch", !.todo = ms, !.sealed = whole]
  BY ZenonT(40) DEF Task
<1>6. /\ s.pc = "fetch" /\ s.todo = ms /\ s.sealed = whole /\ s.op = r.op /\ s.target = r.target
      /\ s.row = r.row /\ s.tree = r.tree /\ s.vehicle = v /\ s.expected = r.expected
      /\ s.promised = r.promised
  BY <1>2, <1>5 DEF Task
<1>7. task' = [task EXCEPT ![t] = s]
  BY ZenonT(40), <1>1, <1>2, <1>3, <1>4, <1>5 DEF ReadMembers, Inv, TypeOK
<1>8. s.tree = EmptyTree /\ \A p \in Paths : s.tree[p] = None
  BY ZenonT(40), <1>1, <1>6 DEF TaskSound, EmptyTree
<1>9. s.op = "pinned" => PinSound(s)
  BY ZenonT(40), <1>1, <1>2, <1>6 DEF TaskSound, PinSound
<1>10. FetchSound(s)
  BY ZenonT(40), <1>3, <1>4, <1>6, <1>8, <1>9 DEF FetchSound, PinSound
<1>11. TaskSound(s) /\ TreeWithin(s)
  BY <1>1, <1>6, <1>8, <1>9, <1>10, EmptyWithin DEF TaskSound
<1> QED
  BY ZenonT(40), <1>6, <1>7, <1>11, MoveInv DEF ReadMembers

\* One member's entity goes to its path; in a whole release no other has that path.
LEMMA FetchMemberInv ==
  ASSUME Inv, NEW t \in ChannelTasks, NEW m \in Member, FetchMember(t, m)
  PROVE  Inv'
<1>1. PICK r \in Task : r = task[t] /\ TaskSound(r) /\ TreeWithin(r) /\ r.pc = "fetch" /\ m \in r.todo
  BY ZenonT(40) DEF FetchMember, At, Inv, TypeOK, HandlersSound, ResolvedSound, TreeWithin
<1>2. PICK v \in VehicleIds : v = r.vehicle
  BY ZenonT(40), <1>1 DEF TaskSound
<1>3. m \in members[v] /\ FetchSound(r)
  BY <1>1, <1>2 DEF TaskSound, FetchSound
<1>4. PICK e \in Entity : e = EntityOf(m)
  BY <1>3, EntityType DEF Inv
<1>5. PICK q \in Paths : q = PathOf(m)
  BY <1>3, EntityType DEF Inv
<1>6. PICK tree \in Tree : tree = [r.tree EXCEPT ![q] = e]
  BY ZenonT(40) DEF Tree, Task
<1>7. tree[q] = e /\ \A p \in Paths \ {q} : tree[p] = r.tree[p]
  BY <1>6 DEF Tree, Task
<1>8. PICK s \in Task : s = [r EXCEPT !.todo = r.todo \ {m}, !.tree = tree]
  BY ZenonT(40) DEF Task
<1>9. /\ s.pc = "fetch" /\ s.todo = r.todo \ {m} /\ s.sealed = r.sealed /\ s.op = r.op
      /\ s.target = r.target /\ s.row = r.row /\ s.tree = tree /\ s.vehicle = v
      /\ s.expected = r.expected /\ s.promised = r.promised
  BY <1>1, <1>2, <1>8 DEF Task
<1>10. task' = [task EXCEPT ![t] = s]
  BY ZenonT(40), <1>1, <1>4, <1>5, <1>6, <1>8 DEF FetchMember, Inv, TypeOK
<1>11. TreeWithin(s)
  <2> SUFFICES ASSUME NEW p \in Paths, tree[p] # None
               PROVE  \E n \in members[v] :
                        /\ PathOf(n) = p /\ tree[p].disabled = n.disabled
                        /\ tree[p].kind = EntityOf(n).kind
                        /\ tree[p].parts \subseteq parts[n.component]
    BY ZenonT(40), <1>9 DEF TreeWithin
  <2>1. CASE p = q
    BY <1>3, <1>4, <1>5, <1>7, <2>1 DEF EntityOf
  <2>2. CASE p # q
    BY SMTT(30), <1>1, <1>2, <1>7, <2>2 DEF TreeWithin
  <2> QED
    BY <2>1, <2>2
<1>12. FetchSound(s)
  <2>1. ASSUME s.sealed, NEW n \in members[v] \ s.todo PROVE tree[PathOf(n)] = EntityOf(n)
    <3>1. PathOf(n) = PathOf(m) => n = m
      BY ZenonT(40), <1>2, <1>3, <1>9, <2>1 DEF FetchSound, Sealed
    <3>2. PathOf(n) \in Paths
      BY EntityType DEF Inv
    <3> QED
      BY ZenonT(40), <1>2, <1>3, <1>4, <1>5, <1>7, <1>9, <2>1, <3>1, <3>2 DEF FetchSound
  <2>2. ASSUME s.sealed, NEW p \in Paths, tree[p] # None
        PROVE  \E n \in members[v] \ s.todo : PathOf(n) = p
    <3>1. CASE p = q
      BY ZenonT(40), <1>3, <1>5, <1>9, <3>1
    <3>2. CASE p # q
      BY ZenonT(40), <1>2, <1>3, <1>7, <1>9, <2>2, <3>2 DEF FetchSound
    <3> QED
      BY <3>1, <3>2
  <2> QED
    BY ZenonT(40), <1>2, <1>3, <1>9, <2>1, <2>2 DEF FetchSound
<1>13. TaskSound(s)
  BY ZenonT(40), <1>1, <1>2, <1>9, <1>12 DEF TaskSound, PinSound
<1> QED
  BY ZenonT(40), <1>9, <1>10, <1>11, <1>13, MoveInv DEF FetchMember

\* A whole release that is fetched to the end resolved to its tree.
LEMMA ExactTree ==
  ASSUME Inv, NEW s \in Task, TaskSound(s), s.pc = "fetch", s.todo = {}, s.sealed
  PROVE  s.tree = TreeOf(s.vehicle)
<1>1. PICK v \in VehicleIds : v = s.vehicle /\ FetchSound(s)
  BY DEF TaskSound
<1>2. Sealed(v) /\ \A m \in members[v] : s.tree[PathOf(m)] = EntityOf(m)
  BY ZenonT(40), <1>1 DEF FetchSound
<1>3. \A p \in Paths : s.tree[p] # None => \E m \in members[v] : PathOf(m) = p
  BY <1>1 DEF FetchSound
<1>4. ASSUME NEW p \in Paths PROVE s.tree[p] = TreeOf(v)[p]
  <2>1. CASE ~\E m \in members[v] : PathOf(m) = p
    BY <1>3, <2>1 DEF TreeOf
  <2>2. ASSUME NEW m \in members[v], PathOf(m) = p PROVE s.tree[p] = TreeOf(v)[p]
    <3>1. (CHOOSE n \in members[v] : PathOf(n) = p) = m
      BY <1>2, <2>2 DEF Sealed
    <3> QED
      BY <1>2, <2>2, <3>1 DEF TreeOf
  <2> QED
    BY <2>1, <2>2
<1>5. s.tree \in [Paths -> Entity \cup {None}]
  BY DEF Task, Tree
<1> QED
  BY <1>1, <1>4, <1>5 DEF TreeOf

\* The end of resolve_target: the hash that a whole release promised is found again.
LEMMA RespondInv ==
  ASSUME Inv, NEW t \in ChannelTasks, Respond(t)
  PROVE  Inv'
<1>1. PICK r \in Task : r = task[t] /\ TaskSound(r) /\ r.pc = "fetch" /\ r.todo = {}
  BY DEF Respond, At, Inv, TypeOK, HandlersSound
<1>2. PICK pc \in Replied : pc = IF r.expected \notin {None, TreeHash(r.tree)} THEN "mismatch" ELSE "ok"
  BY DEF Replied
<1>3. task' = [task EXCEPT ![t] = Reply(t, pc)]
  BY <1>1, <1>2 DEF Respond
<1>4. r.op = "pinned" /\ r.promised => pc \notin {"notfound", "mismatch"}
  <2> SUFFICES ASSUME r.op = "pinned", r.promised PROVE pc = "ok"
    OBVIOUS
  <2>1. r.sealed /\ r.expected = TreeHash(TreeOf(r.vehicle))
    BY ZenonT(40), <1>1 DEF TaskSound, FetchSound, PinSound
  <2>2. r.tree = TreeOf(r.vehicle)
    BY <1>1, <2>1, ExactTree
  <2> QED
    BY <1>2, <2>1, <2>2
<1>5. task[t] # None
  BY DEF Respond, At
<1> QED
  BY ZenonT(40), <1>1, <1>3, <1>4, <1>5, ReplyInv DEF Respond

LEMMA WriteUnknownInv ==
  ASSUME Inv, NEW t \in ChannelTasks, WriteUnknown(t) \/ StopChannel(t)
  PROVE  Inv'
<1>1. task[t] # None
  BY DEF WriteUnknown, StopChannel, At, Free
<1>2. PICK pc \in Replied : pc = "failed"
  BY ZenonT(40) DEF Replied
<1>3. task' = [task EXCEPT ![t] = Reply(t, pc)] /\ UNCHANGED <<targets, history, releaseVars>>
  BY <1>2 DEF WriteUnknown, StopChannel
<1> QED
  BY ZenonT(40), <1>1, <1>2, <1>3, ReplyInv

\* The hash of a tree is a hash.
LEMMA HashTyped ==
  ASSUME NEW tree \in Tree
  PROVE  TreeHash(tree) \in Hash
<1>1. \A p \in Paths : tree[p] # None =>
        [disabled |-> tree[p].disabled, parts |-> tree[p].parts]
          \in [disabled : BOOLEAN, parts : SUBSET Part]
  BY DEF Tree, Entity
<1> QED
  BY <1>1 DEF TreeHash, Hash

\* set_channel_target's transaction: the row and the history, with the hash of the tree
\* that was read, which for a whole release is the release's tree.
LEMMA WriteTargetInv ==
  ASSUME Inv, NEW t \in ChannelTasks, WriteTarget(t)
  PROVE  Inv'
<1>1. PICK r \in Task : /\ r = task[t] /\ TaskSound(r) /\ r.pc = "fetch" /\ r.todo = {} /\ r.op = "set"
  BY ZenonT(40) DEF WriteTarget, At, Inv, TypeOK, HandlersSound
<1>2. PICK k \in Target : k = r.target
  BY ZenonT(40), <1>1 DEF TaskSound
<1>3. PICK v \in VehicleIds : v = r.vehicle /\ vehicles[v] # None
  BY <1>1 DEF TaskSound, WriteTarget
<1>4. PICK h \in Hash : h = TreeHash(r.tree)
  BY HashTyped DEF Task
<1>5. PICK row \in TargetRow : row = [vehicle |-> v, hash |-> h, sealed |-> r.sealed]
  BY ZenonT(30) DEF TargetRow, Task
<1> DEFINE ever == [vehicle |-> v, device |-> k.device, architecture |-> k.architecture]
<1>6. ever \in [vehicle : VehicleIds, device : Devices, architecture : Architectures]
  BY ZenonT(40) DEF Target
<1>7. /\ targets' = [targets EXCEPT ![k] = row] /\ history' = history \cup {ever}
      /\ UNCHANGED releaseVars
  BY <1>1, <1>2, <1>3, <1>4, <1>5 DEF WriteTarget
<1>8. PICK s \in Task :
        /\ s = Reply(t, "set") /\ s.op = "set" /\ s.pc = "set"
        /\ TaskSound(s) /\ TreeWithin(s)
  <2>1. PICK pc \in Replied : pc = "set"
    BY SMTT(30) DEF Replied
  <2>2. task[t] # None /\ task[t].op = "set"
    BY ZenonT(40) DEF WriteTarget, At
  <2>3. PICK s \in Task :
          s = Reply(t, pc) /\ s.op = task[t].op /\ s.pc = pc /\ TaskSound(s) /\ TreeWithin(s)
    BY ZenonT(40), <2>2, ReplyTask
  <2> QED
    BY ZenonT(40), <2>1, <2>2, <2>3
<1>9. task' = [task EXCEPT ![t] = s]
  BY ZenonT(40), <1>8 DEF WriteTarget
<1>10. /\ ReleaseInv' /\ SnapshotWithin' /\ task' \in [ChannelTasks -> Task \cup {None}]
       /\ HandlersSound' /\ ResolvedSound' /\ PinHonoured'
  BY ZenonT(40), <1>7, <1>8, <1>9, Move
<1>11. /\ targets' \in [Target -> TargetRow \cup {None}] /\ targets'[k] = row
       /\ \A j \in Target \ {k} : targets'[j] = targets[j]
  BY ZenonT(40), <1>7 DEF Inv, TypeOK
<1>12. TypeOK'
  BY ZenonT(40), <1>6, <1>7, <1>10, <1>11 DEF Inv, TypeOK, ReleaseInv
<1>13. vehicles' = vehicles /\ \A u \in VehicleIds : Sealed(u)' = Sealed(u) /\ TreeOf(u)' = TreeOf(u)
  BY ZenonT(30), <1>7 DEF releaseVars, Sealed, VehicleComplete, ComponentComplete, PathOf, TreeOf, EntityOf
<1>14. row.vehicle = v /\ row.hash = h /\ row.sealed = r.sealed
  BY <1>5
<1>15. r.sealed => Sealed(v) /\ h = TreeHash(TreeOf(v))
  BY ZenonT(40), <1>1, <1>3, <1>4, ExactTree DEF TaskSound, FetchSound
<1>16. ASSUME NEW j \in Target, targets'[j] # None
       PROVE  /\ targets'[j].sealed => /\ Sealed(targets[j].vehicle)'
                                       /\ targets'[j].hash = TreeHash(TreeOf(targets[j].vehicle))'
              /\ vehicles'[targets'[j].vehicle] # None
              /\ [vehicle |-> targets'[j].vehicle, device |-> j.device,
                  architecture |-> j.architecture] \in history'
  <2>1. PICK u \in VehicleIds : u = targets'[j].vehicle
    BY ZenonT(40), <1>11, <1>16 DEF TargetRow
  <2>2. /\ vehicles[u] # None
        /\ [vehicle |-> u, device |-> j.device, architecture |-> j.architecture] \in history'
        /\ targets'[j].sealed => Sealed(u) /\ targets'[j].hash = TreeHash(TreeOf(u))
    <3>1. CASE j = k
      BY ZenonT(40), <1>3, <1>7, <1>11, <1>14, <1>15, <2>1, <3>1
    <3>2. CASE j # k
      BY ZenonT(40), <1>7, <1>11, <1>16, <2>1, <3>2 DEF Inv, TargetsBound, TargetsSealed
    <3> QED
      BY ZenonT(40), <3>1, <3>2
  <2>3. targets'[j].sealed => Sealed(u)' /\ targets'[j].hash = TreeHash(TreeOf(u))'
    BY ZenonT(40), <1>13, <2>2 DEF TreeHash
  <2>4. u = targets[j].vehicle'
    BY SMTT(30), <2>1
  <2> QED
    BY ZenonT(40), <1>13, <2>1, <2>2, <2>3, <2>4
<1>17. TargetsBound' /\ TargetsSealed'
  BY ZenonT(40), <1>16 DEF TargetsBound, TargetsSealed
<1> QED
  BY ZenonT(40), <1>10, <1>12, <1>17 DEF Inv

LEMMA InitInv == Init => Inv
<1> SUFFICES ASSUME Init PROVE Inv
  OBVIOUS
<1>1. ReleaseInv /\ SnapshotWithin
  BY ReleaseInitInv DEF Init, ReleaseInit, SnapshotWithin
<1> QED
  BY ZenonT(40), <1>1
  DEF Init, Inv, TypeOK, ReleaseInv, ResolvedSound, TargetsBound, PinHonoured, HandlersSound, TargetsSealed

LEMMA NextInv == Inv /\ [Next]_vars => Inv'
<1> SUFFICES ASSUME Inv, [Next]_vars PROVE Inv'
  OBVIOUS
<1>1. ASSUME NEW t \in ComponentTasks, ComponentStep(t), UNCHANGED channelVars PROVE Inv'
  BY <1>1, MintInv DEF ReleaseNext
<1>2. ASSUME NEW t \in VehicleTasks, VehicleStep(t), UNCHANGED channelVars PROVE Inv'
  BY ZenonT(40), <1>2, MintInv DEF ReleaseNext
<1>3. ASSUME NEW t \in ChannelTasks, ChannelStep(t) PROVE Inv'
  BY <1>3, StartSetInv, StartReadInv, StartPinnedInv, MatchTargetInv, CheckExistsInv, SelectTargetInv,
     SelectNothingInv, ReadMembersInv, FetchMemberInv, RespondInv, WriteTargetInv, WriteUnknownInv
  DEF ChannelStep
<1>4. CASE UNCHANGED vars
  BY <1>4, MintInv DEF vars
<1> QED
  BY <1>1, <1>2, <1>3, <1>4 DEF Next

-----------------------------------------------------------------------------
(* The refinement of DesiredState                                          *)

\* What a release resolves to is a tree.
LEMMA TreeTyped == ReleaseInv => \A v \in VehicleIds : TreeOf(v) \in Tree
<1> SUFFICES ASSUME ReleaseInv, NEW v \in VehicleIds, NEW p \in Paths
             PROVE  TreeOf(v)[p] \in Entity \cup {None}
  BY DEF TreeOf, Tree
<1>1. CASE ~\E m \in members[v] : PathOf(m) = p
  BY ZenonT(40), <1>1 DEF TreeOf
<1>2. CASE \E m \in members[v] : PathOf(m) = p
  <2>1. PICK m \in members[v] : m = CHOOSE n \in members[v] : PathOf(n) = p
    BY <1>2
  <2>2. TreeOf(v)[p] = EntityOf(m)
    BY <1>2, <2>1 DEF TreeOf
  <2> QED
    BY ZenonT(40), <2>2, EntityType
<1> QED
  BY ZenonT(40), <1>1, <1>2

\* ... also after a step.
LEMMA TreeTypedAfter == ReleaseInv' => \A v \in VehicleIds : TreeOf(v)' \in Tree
<1>1. (ReleaseInv => \A v \in VehicleIds : TreeOf(v) \in Tree)'
  BY TreeTyped, PTL
<1> QED
  BY <1>1

\* The release that target k points at, and the tree that release v is whole with.
PointsAt(k) == IF targets[k] = None THEN None ELSE targets[k].vehicle
WholeTree(v) == IF Sealed(v) THEN TreeOf(v) ELSE None

\* A step that mints nothing leaves them.
LEMMA WholeTreeKept ==
  ASSUME UNCHANGED releaseVars, NEW v \in VehicleIds
  PROVE  WholeTree(v)' = WholeTree(v)
  BY ZenonT(40) DEF WholeTree, Sealed, VehicleComplete, ComponentComplete, TreeOf, PathOf, EntityOf, releaseVars

\* Minting completes releases and changes no whole one.
LEMMA MintCompletes ==
  ASSUME Inv, [ReleaseNext]_releaseVars, UNCHANGED channelVars
  PROVE  Desired!Complete
<1>1. ReleaseInv /\ ReleaseInv'
  BY ReleaseNextInv DEF Inv
<1>2. ComponentsKept /\ VehiclesKept
  <2>1. CASE UNCHANGED releaseVars
    BY <2>1 DEF ComponentsKept, VehiclesKept, releaseVars
  <2> QED
    BY <2>1, ComponentStepKeeps, VehicleStepKeeps DEF Inv, ReleaseNext
<1>3. \A v \in VehicleIds : WholeTree(v)' \in Tree \cup {None}
  BY <1>1, TreeTypedAfter DEF WholeTree
<1>4. \A v \in VehicleIds : WholeTree(v) # None => WholeTree(v)' = WholeTree(v)
  BY <1>1, <1>2, SealedKept DEF WholeTree
<1>5. targets' = targets
  BY DEF channelVars
<1> QED
  BY <1>3, <1>4, <1>5 DEF Desired!Complete, WholeTree

\* A channel handler sets one target or none, and mints nothing.
LEMMA HandlerPoints ==
  ASSUME Inv, NEW t \in ChannelTasks, ChannelStep(t)
  PROVE  /\ UNCHANGED releaseVars
         /\ targets' = targets \/ \E k \in Target, v \in VehicleIds : Desired!Point(k, v)
<1>1. CASE ~WriteTarget(t)
  BY ZenonT(40), <1>1 DEF ChannelStep, StartSet, StartRead, StartPinned, MatchTarget, CheckExists, SelectTarget,
              SelectNothing, ReadMembers, FetchMember, Respond, WriteUnknown, StopChannel
<1>2. CASE WriteTarget(t)
  <2>1. task[t] \in Task /\ TaskSound(task[t]) /\ task[t].pc = "fetch" /\ task[t].op = "set"
    BY ZenonT(40), <1>2 DEF WriteTarget, At, Inv, TypeOK, HandlersSound
  <2>2. PICK k \in Target, v \in VehicleIds : k = task[t].target /\ v = task[t].vehicle
    BY <2>1 DEF TaskSound
  <2>3. UNCHANGED releaseVars
    BY ZenonT(40), <1>2 DEF WriteTarget
  <2>4. PICK row \in TargetRow : targets' = [targets EXCEPT ![k] = row] /\ row.vehicle = v
    <3>1. targets' = [targets EXCEPT ![k] = [vehicle |-> v, hash |-> TreeHash(task[t].tree),
                                             sealed |-> task[t].sealed]]
      BY ZenonT(40), <1>2, <2>2 DEF WriteTarget
    <3>2. v \in VehicleIds /\ TreeHash(task[t].tree) \in Hash /\ task[t].sealed \in BOOLEAN
      BY ZenonT(40), <2>1, HashTyped DEF Task
    <3>3. [vehicle |-> v, hash |-> TreeHash(task[t].tree), sealed |-> task[t].sealed] \in TargetRow
      BY <3>2 DEF TargetRow
    <3> QED
      BY ZenonT(40), <3>1, <3>3
  <2>5. row # None
    BY <2>4, ChannelAssumption
  <2>6. \A j \in Target : PointsAt(j)' = IF j = k THEN v ELSE PointsAt(j)
    BY <2>4, <2>5 DEF Inv, TypeOK, PointsAt
  <2>7. \A w \in VehicleIds : WholeTree(w)' = WholeTree(w)
    BY <2>3, WholeTreeKept
  <2>8. Desired!Point(k, v)
    BY ZenonT(40), <2>6, <2>7 DEF Desired!Point, PointsAt, WholeTree
  <2> QED
    BY ZenonT(40), <2>3, <2>8
<1> QED
  BY <1>1, <1>2

-----------------------------------------------------------------------------
(* Theorems                                                                *)

\* Channels over a growing release store keep their inductive invariant.
THEOREM ChannelInvariant == Spec => []Inv
  BY InitInv, NextInv, PTL DEF Spec

\* Type correctness of the tables and handlers.
THEOREM ChannelTypeOK == Spec => []TypeOK
<1>1. Inv => TypeOK
  BY DEF Inv
<1> QED
  BY <1>1, ChannelInvariant, PTL

\* A resolved tree has only members of the release, with their flags and parts, however
\* the statements of resolve_members_to_tree and of the minting handlers interleave.
THEOREM ResolutionsSound == Spec => []ResolvedSound
<1>1. Inv => ResolvedSound
  BY ZenonT(40) DEF Inv
<1> QED
  BY <1>1, ChannelInvariant, PTL

\* A release that is whole when its member rows are read resolves to exactly its tree.
THEOREM ResolutionsExact == Spec => []ResolvedExact
<1>1. Inv => ResolvedExact
  <2> SUFFICES ASSUME Inv, NEW t \in ChannelTasks, Resolved(t), task[t].sealed
               PROVE  task[t].tree = TreeOf(task[t].vehicle)
    BY ZenonT(40) DEF ResolvedExact
  <2>1. task[t] \in Task /\ TaskSound(task[t])
    BY DEF Inv, TypeOK, HandlersSound, Resolved
  <2> QED
    BY <2>1, ExactTree DEF Resolved
<1> QED
  BY <1>1, ChannelInvariant, PTL

\* The hash that set_channel_target stores for a whole release is the hash of what that
\* release resolves to for good, and every target is in its release's history.
THEOREM TargetsAlwaysBound == Spec => []TargetsBound
<1>1. Inv => TargetsBound
  BY DEF Inv
<1> QED
  BY <1>1, ChannelInvariant, PTL

\* An L1 request pinned to what a target on a whole release showed is never refused for
\* that target's device and architecture.
THEOREM PinsAlwaysHonoured == Spec => []PinHonoured
<1>1. Inv => PinHonoured
  BY DEF Inv
<1> QED
  BY <1>1, ChannelInvariant, PTL

\* Tower 2 gives out desired states as DesiredState promises: whatever is minted and set
\* at once, a whole release keeps its tree and only set_channel_target moves a target.
THEOREM DesiredRefined == Spec => ImplementsDesired
<1>1. Init => Desired!Init
  <2> SUFFICES ASSUME Init PROVE Desired!Init
    OBVIOUS
  <2>1. \A v \in VehicleIds : ~Sealed(v)
    BY DEF Init, ReleaseInit, Sealed, VehicleComplete
  <2> QED
    BY <2>1 DEF Init, Desired!Init
<1>2. Inv /\ [Next]_vars => [Desired!Next]_(Desired!desiredVars)
  <2> SUFFICES ASSUME Inv, [Next]_vars PROVE [Desired!Next]_(Desired!desiredVars)
    OBVIOUS
  <2>1. ASSUME NEW t \in ComponentTasks, ComponentStep(t), UNCHANGED channelVars
        PROVE  Desired!Complete
    BY <2>1, MintCompletes DEF ReleaseNext
  <2>2. ASSUME NEW t \in VehicleTasks, VehicleStep(t), UNCHANGED channelVars
        PROVE  Desired!Complete
    BY <2>2, MintCompletes DEF ReleaseNext
  <2>3. ASSUME NEW t \in ChannelTasks, ChannelStep(t)
        PROVE  Desired!Complete \/ \E k \in Target, v \in VehicleIds : Desired!Point(k, v)
    <3>1. CASE targets' = targets
      <4>1. \A v \in VehicleIds : WholeTree(v)' = WholeTree(v) /\ WholeTree(v) \in Tree \cup {None}
        BY <2>3, HandlerPoints, WholeTreeKept, TreeTyped DEF WholeTree, Inv
      <4> QED
        BY <3>1, <4>1 DEF Desired!Complete, WholeTree
    <3> QED
      BY ZenonT(40), <2>3, <3>1, HandlerPoints
  <2>4. CASE UNCHANGED vars
    BY <2>4, MintCompletes DEF vars, Desired!Next
  <2> QED
    BY <2>1, <2>2, <2>3, <2>4 DEF Next, Desired!Next
<1>3. Spec => Desired!Spec
  BY <1>1, <1>2, ChannelInvariant, PTL DEF Spec, Desired!Spec
<1> QED
  BY <1>3 DEF ImplementsDesired
=============================================================================
