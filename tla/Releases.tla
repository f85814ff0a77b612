------------------------------ MODULE Releases ------------------------------
(***************************************************************************)
(* Tower 2's release store: minting component (L2) and vehicle (L1)        *)
(* releases, content-addressed per entity path and per tag (releases.rs).  *)
(*                                                                         *)
(* Both handlers run as several autocommitted statements: look the         *)
(* identity up, insert the release row, then insert the child rows (parts  *)
(* or members) one statement each.  One action is one statement.  Between  *)
(* two statements any other handler runs; a handler may also stop there    *)
(* for good: its client hangs up, a statement fails, the process dies.     *)
(*                                                                         *)
(* Data.  Proposed versions, timestamps and part kinds are left out: no    *)
(* decision here turns on them.  An identity hash is the value that is     *)
(* hashed.  A new id is some unused one: the sequence may leave gaps.      *)
(***************************************************************************)
EXTENDS Naturals, Sequences, FiniteSets, Functions

CONSTANTS
  ComponentTasks,      \* POST /admin/component-releases handlers at once
  VehicleTasks,        \* POST /admin/vehicle-releases handlers at once
  ComponentIds,        \* component_releases.id values
  VehicleIds,          \* vehicle_releases.id values
  Paths, Tags,         \* entity paths, vehicle tags
  Kinds,               \* entity kinds
  PartIds, Contents,   \* part ids; part contents, by plaintext digest
  Snapshots,           \* config_snapshot values
  ComponentRequests,   \* the component requests clients may send
  VehicleRequests,     \* the vehicle requests clients may send
  Faults,              \* may a handler stop between two statements?
  None                 \* NULL, no row, no task

Part == [id : PartIds, content : Contents]

ComponentRequest == [path : Paths, kind : Kinds, parts : Seq(Part)]
VehicleRequest ==
  [tag : Tags, members : Seq(ComponentIds), disabled : SUBSET ComponentIds,
   snapshot : Snapshots \cup {None}]

\* A child row of a vehicle release.
Member == [component : ComponentIds, disabled : BOOLEAN]

-----------------------------------------------------------------------------
(* Identities                                                              *)

\* component_identity hashes the kind and the parts sorted (stably) by id.  Such
\* a list is determined by each part with its rank among the parts of its id.
Ranked(ps, i) ==
  <<ps[i], Cardinality({j \in DOMAIN ps : j < i /\ ps[j].id = ps[i].id})>>

\* Mutant of ComponentIdentity: contents are left out of the hash.
MutIdentityWithoutContent(r) ==
  [kind |-> r.kind, parts |-> {<<r.parts[i].id, 0>> : i \in DOMAIN r.parts}]

ComponentIdentity(r) ==
  [kind |-> r.kind, parts |-> {Ranked(r.parts, i) : i \in DOMAIN r.parts}]

\* Mutant of VehicleIdentity: a disable does not fold into the identity.
MutIdentityWithoutDisabled(r) ==
  [members |-> Range(r.members), disabled |-> {}]

\* vehicle_identity hashes the member ids, sorted and deduped, and those of them
\* that are disabled; a disabled id that is no member does not count.
VehicleIdentity(r) ==
  [members |-> Range(r.members), disabled |-> r.disabled \cap Range(r.members)]

-----------------------------------------------------------------------------
(* State                                                                   *)

VARIABLES
  components,   \* component_releases: id -> [path, identity] or None
  parts,        \* component_release_parts: id -> its part rows
  vehicles,     \* vehicle_releases: id -> [tag, identity] or None
  snapshot,     \* vehicle_releases.config_snapshot
  members,      \* vehicle_release_members: id -> its member rows
  ctask,        \* create_component_release handlers
  vtask         \* create_vehicle_release handlers

componentVars == <<components, parts, ctask>>
vehicleVars   == <<vehicles, snapshot, members, vtask>>
releaseVars   == <<components, parts, ctask, vehicles, snapshot, members, vtask>>

ComponentRow == [path : Paths, identity : {ComponentIdentity(r) : r \in ComponentRequests}]
VehicleRow   == [tag : Tags, identity : {VehicleIdentity(r) : r \in VehicleRequests}]

\* "fresh" and "reused" are the answers, "failed" is an error or no answer; n
\* counts the child rows inserted.
ComponentTask ==
  [pc : {"lookup", "insert", "parts", "fresh", "reused", "failed"},
   req : ComponentRequests, id : ComponentIds \cup {None}, n : Nat]
VehicleTask ==
  [pc : {"lookup", "snapshot", "insert", "members", "fresh", "reused", "failed"},
   req : VehicleRequests, id : VehicleIds \cup {None}, n : Nat]

ASSUME ReleaseAssumption ==
  /\ ComponentRequests \subseteq ComponentRequest
  /\ VehicleRequests \subseteq VehicleRequest
  /\ Faults \in BOOLEAN
  /\ None \notin ComponentIds \cup VehicleIds \cup Snapshots
  /\ None \notin ComponentRow \cup VehicleRow \cup ComponentTask \cup VehicleTask

ReleaseTypeOK ==
  /\ components \in [ComponentIds -> ComponentRow \cup {None}]
  /\ parts \in [ComponentIds -> SUBSET Part]
  /\ vehicles \in [VehicleIds -> VehicleRow \cup {None}]
  /\ snapshot \in [VehicleIds -> Snapshots \cup {None}]
  /\ members \in [VehicleIds -> SUBSET Member]
  /\ ctask \in [ComponentTasks -> ComponentTask \cup {None}]
  /\ vtask \in [VehicleTasks -> VehicleTask \cup {None}]

ReleaseInit ==
  /\ components = [c \in ComponentIds |-> None]
  /\ parts = [c \in ComponentIds |-> {}]
  /\ vehicles = [v \in VehicleIds |-> None]
  /\ snapshot = [v \in VehicleIds |-> None]
  /\ members = [v \in VehicleIds |-> {}]
  /\ ctask = [t \in ComponentTasks |-> None]
  /\ vtask = [t \in VehicleTasks |-> None]

At(task, t, pc) == task[t] # None /\ task[t].pc = pc
Answered == {"fresh", "reused", "failed"}
Idle(task, t) == task[t] # None => task[t].pc \in Answered

-----------------------------------------------------------------------------
(* create_component_release                                                *)

\* The release with the content of request r, if it has been inserted.
ComponentWith(r) ==
  {c \in ComponentIds :
     components[c] = [path |-> r.path, identity |-> ComponentIdentity(r)]}

StartComponent(t, r) ==
  /\ Idle(ctask, t)
  /\ ctask' = [ctask EXCEPT ![t] = [pc |-> "lookup", req |-> r, id |-> None, n |-> 0]]
  /\ UNCHANGED <<components, parts, vehicleVars>>

\* SELECT ... WHERE entity_path AND identity_hash: a hit is answered as reused.
LookupComponentHit(t) ==
  /\ At(ctask, t, "lookup")
  /\ \E c \in ComponentWith(ctask[t].req) :
       ctask' = [ctask EXCEPT ![t].pc = "reused", ![t].id = c]
  /\ UNCHANGED <<components, parts, vehicleVars>>

LookupComponentMiss(t) ==
  /\ At(ctask, t, "lookup")
  /\ ComponentWith(ctask[t].req) = {}
  /\ ctask' = [ctask EXCEPT ![t].pc = "insert"]
  /\ UNCHANGED <<components, parts, vehicleVars>>

\* Where a task stands once n of the child rows are in.
PartsPc(r, n) == IF n = Len(r.parts) THEN "fresh" ELSE "parts"

\* INSERT INTO component_releases, under the unique (entity_path, identity_hash).
InsertComponent(t, c) ==
  LET r == ctask[t].req IN
  /\ At(ctask, t, "insert")
  /\ ComponentWith(r) = {}
  /\ components[c] = None
  /\ components' = [components EXCEPT ![c] =
                      [path |-> r.path, identity |-> ComponentIdentity(r)]]
  /\ ctask' = [ctask EXCEPT ![t].pc = PartsPc(r, 0), ![t].id = c]
  /\ UNCHANGED <<parts, vehicleVars>>

\* The unique index refuses the row that a concurrent handler inserted first.
InsertComponentConflict(t) ==
  /\ At(ctask, t, "insert")
  /\ ComponentWith(ctask[t].req) # {}
  /\ ctask' = [ctask EXCEPT ![t].pc = "failed"]
  /\ UNCHANGED <<components, parts, vehicleVars>>

\* Mutant of InsertPart: the release keeps only the part written last.
MutInsertPartReplaces(t) ==
  LET r == ctask[t].req
      c == ctask[t].id
      p == r.parts[ctask[t].n + 1]
  IN
  /\ At(ctask, t, "parts")
  /\ \A q \in parts[c] : q.id # p.id
  /\ parts' = [parts EXCEPT ![c] = {p}]
  /\ ctask' = [ctask EXCEPT ![t].n = @ + 1, ![t].pc = PartsPc(r, ctask[t].n + 1)]
  /\ UNCHANGED <<components, vehicleVars>>

\* INSERT INTO component_release_parts, keyed by (release_id, part_id).
InsertPart(t) ==
  LET r == ctask[t].req
      c == ctask[t].id
      p == r.parts[ctask[t].n + 1]
  IN
  /\ At(ctask, t, "parts")
  /\ \A q \in parts[c] : q.id # p.id
  /\ parts' = [parts EXCEPT ![c] = @ \cup {p}]
  /\ ctask' = [ctask EXCEPT ![t].n = @ + 1, ![t].pc = PartsPc(r, ctask[t].n + 1)]
  /\ UNCHANGED <<components, vehicleVars>>

\* The primary key refuses a part id the request lists twice; the release row
\* and the parts inserted before stay.
InsertPartConflict(t) ==
  /\ At(ctask, t, "parts")
  /\ \E q \in parts[ctask[t].id] : q.id = ctask[t].req.parts[ctask[t].n + 1].id
  /\ ctask' = [ctask EXCEPT ![t].pc = "failed"]
  /\ UNCHANGED <<components, parts, vehicleVars>>

\* The handler stops between two statements: the client hangs up and the task
\* is dropped, a statement fails, or the process dies.  Nothing is undone.
StopComponent(t) ==
  /\ Faults
  /\ ~Idle(ctask, t)
  /\ ctask' = [ctask EXCEPT ![t].pc = "failed"]
  /\ UNCHANGED <<components, parts, vehicleVars>>

ComponentStep(t) ==
  \/ \E r \in ComponentRequests : StartComponent(t, r)
  \/ LookupComponentHit(t)
  \/ LookupComponentMiss(t)
  \/ \E c \in ComponentIds : InsertComponent(t, c)
  \/ InsertComponentConflict(t)
  \/ InsertPart(t)
  \/ InsertPartConflict(t)
  \/ StopComponent(t)

-----------------------------------------------------------------------------
(* create_vehicle_release                                                  *)

VehicleWith(r) ==
  {v \in VehicleIds : vehicles[v] = [tag |-> r.tag, identity |-> VehicleIdentity(r)]}

StartVehicle(t, r) ==
  /\ Idle(vtask, t)
  /\ vtask' = [vtask EXCEPT ![t] = [pc |-> "lookup", req |-> r, id |-> None, n |-> 0]]
  /\ UNCHANGED <<vehicles, snapshot, members, componentVars>>

\* A hit is answered as reused, after the snapshot update if the request has one.
LookupVehicleHit(t) ==
  LET r == vtask[t].req IN
  /\ At(vtask, t, "lookup")
  /\ \E v \in VehicleWith(r) :
       vtask' = [vtask EXCEPT
                   ![t].pc = IF r.snapshot # None THEN "snapshot" ELSE "reused",
                   ![t].id = v]
  /\ UNCHANGED <<vehicles, snapshot, members, componentVars>>

LookupVehicleMiss(t) ==
  /\ At(vtask, t, "lookup")
  /\ VehicleWith(vtask[t].req) = {}
  /\ vtask' = [vtask EXCEPT ![t].pc = "insert"]
  /\ UNCHANGED <<vehicles, snapshot, members, componentVars>>

\* UPDATE ... SET config_snapshot = COALESCE(config_snapshot, $2).
UpdateSnapshot(t) ==
  /\ At(vtask, t, "snapshot")
  /\ snapshot' = [snapshot EXCEPT ![vtask[t].id] =
                    IF @ = None THEN vtask[t].req.snapshot ELSE @]
  /\ vtask' = [vtask EXCEPT ![t].pc = "reused"]
  /\ UNCHANGED <<vehicles, members, componentVars>>

MembersPc(r, n) == IF n = Len(r.members) THEN "fresh" ELSE "members"

\* INSERT INTO vehicle_releases, under the unique (tag, identity_hash).
InsertVehicle(t, v) ==
  LET r == vtask[t].req IN
  /\ At(vtask, t, "insert")
  /\ VehicleWith(r) = {}
  /\ vehicles[v] = None
  /\ vehicles' = [vehicles EXCEPT ![v] = [tag |-> r.tag, identity |-> VehicleIdentity(r)]]
  /\ snapshot' = [snapshot EXCEPT ![v] = r.snapshot]
  /\ vtask' = [vtask EXCEPT ![t].pc = MembersPc(r, 0), ![t].id = v]
  /\ UNCHANGED <<members, componentVars>>

InsertVehicleConflict(t) ==
  /\ At(vtask, t, "insert")
  /\ VehicleWith(vtask[t].req) # {}
  /\ vtask' = [vtask EXCEPT ![t].pc = "failed"]
  /\ UNCHANGED <<vehicles, snapshot, members, componentVars>>

\* INSERT INTO vehicle_release_members, keyed by (vehicle, component) and with a
\* foreign key to component_releases.
InsertMember(t) ==
  LET r == vtask[t].req
      v == vtask[t].id
      c == r.members[vtask[t].n + 1]
  IN
  /\ At(vtask, t, "members")
  /\ components[c] # None
  /\ \A m \in members[v] : m.component # c
  /\ members' = [members EXCEPT ![v] =
                   @ \cup {[component |-> c, disabled |-> c \in r.disabled]}]
  /\ vtask' = [vtask EXCEPT ![t].n = @ + 1, ![t].pc = MembersPc(r, vtask[t].n + 1)]
  /\ UNCHANGED <<vehicles, snapshot, componentVars>>

\* An unknown component, or one the request lists twice.
InsertMemberConflict(t) ==
  LET c == vtask[t].req.members[vtask[t].n + 1] IN
  /\ At(vtask, t, "members")
  /\ \/ components[c] = None
     \/ \E m \in members[vtask[t].id] : m.component = c
  /\ vtask' = [vtask EXCEPT ![t].pc = "failed"]
  /\ UNCHANGED <<vehicles, snapshot, members, componentVars>>

StopVehicle(t) ==
  /\ Faults
  /\ ~Idle(vtask, t)
  /\ vtask' = [vtask EXCEPT ![t].pc = "failed"]
  /\ UNCHANGED <<vehicles, snapshot, members, componentVars>>

VehicleStep(t) ==
  \/ \E r \in VehicleRequests : StartVehicle(t, r)
  \/ LookupVehicleHit(t)
  \/ LookupVehicleMiss(t)
  \/ UpdateSnapshot(t)
  \/ \E v \in VehicleIds : InsertVehicle(t, v)
  \/ InsertVehicleConflict(t)
  \/ InsertMember(t)
  \/ InsertMemberConflict(t)
  \/ StopVehicle(t)

ReleaseNext ==
  \/ \E t \in ComponentTasks : ComponentStep(t)
  \/ \E t \in VehicleTasks : VehicleStep(t)

ReleaseSpec == ReleaseInit /\ [][ReleaseNext]_releaseVars

-----------------------------------------------------------------------------
(* Properties                                                              *)

\* The child rows a release's identity, and a request, stand for.
PartsOf(identity) == {x[1] : x \in identity.parts}
MembersOf(identity) ==
  {[component |-> c, disabled |-> c \in identity.disabled] : c \in identity.members}
MembersAsked(r) ==
  {[component |-> c, disabled |-> c \in r.disabled] : c \in Range(r.members)}

ComponentComplete(c) ==
  components[c] # None /\ parts[c] = PartsOf(components[c].identity)
VehicleComplete(v) ==
  vehicles[v] # None /\ members[v] = MembersOf(vehicles[v].identity)

\* What create_component_release answers is about the content asked for: a fresh
\* release holds exactly the request's parts, and a reused one, though perhaps
\* not all of them, never a part of any other content.
ComponentAnswers ==
  \A t \in ComponentTasks : ctask[t] # None =>
    LET r == ctask[t].req  c == ctask[t].id IN
    /\ ctask[t].pc \in {"fresh", "reused"} =>
         /\ components[c].path = r.path
         /\ components[c].identity.kind = r.kind
         /\ parts[c] \subseteq Range(r.parts)
    /\ ctask[t].pc = "fresh" => parts[c] = Range(r.parts)

\* What create_vehicle_release answers has the members asked for, each with the
\* disable flag asked for: a disable is a release of its own and never silently
\* reuses the enabled one.  Every member names a component release that exists.
VehicleAnswers ==
  /\ \A t \in VehicleTasks : vtask[t] # None =>
       LET r == vtask[t].req  v == vtask[t].id IN
       /\ vtask[t].pc \in {"fresh", "reused"} =>
            vehicles[v].tag = r.tag /\ members[v] \subseteq MembersAsked(r)
       /\ vtask[t].pc = "fresh" => members[v] = MembersAsked(r)
  /\ \A v \in VehicleIds : \A m \in members[v] : components[m.component] # None

\* What one step may do to the stored releases.
ComponentsKept ==
  \A c \in ComponentIds :
    /\ components[c] # None => components'[c] = components[c]
    /\ parts[c] \subseteq parts'[c]
    /\ ComponentComplete(c) => parts'[c] = parts[c]
VehiclesKept ==
  \A v \in VehicleIds :
    /\ vehicles[v] # None => vehicles'[v] = vehicles[v]
    /\ members[v] \subseteq members'[v]
    /\ VehicleComplete(v) => members'[v] = members[v]
    /\ snapshot[v] # None => snapshot'[v] = snapshot[v]

\* A release is immutable: its row never changes, once all its child rows are in
\* none is added, and the first config snapshot stored is the one that stays.
ReleasesImmutable == [][ComponentsKept /\ VehiclesKept]_releaseVars

\* "Same parts as an existing release for this entity -> that release is
\* returned" (create_component_release): a reused release has the parts asked.
ReusedComplete ==
  \A t \in ComponentTasks :
    At(ctask, t, "reused") => parts[ctask[t].id] = Range(ctask[t].req.parts)

-----------------------------------------------------------------------------
(* The inductive invariant behind the properties.  No handler is known to be *)
(* the only writer of its release; what keeps a whole release whole is that  *)
(* every child row of its identity is there already and its key refuses it.  *)

\* Child rows belong to a release row and to its identity.
ChildrenWithin ==
  /\ \A c \in ComponentIds :
       /\ components[c] = None => parts[c] = {}
       /\ components[c] # None => parts[c] \subseteq PartsOf(components[c].identity)
  /\ \A v \in VehicleIds :
       /\ vehicles[v] = None => members[v] = {}
       /\ vehicles[v] # None => members[v] \subseteq MembersOf(vehicles[v].identity)
       /\ \A m \in members[v] : components[m.component] # None

\* A component handler past its insert or its hit holds the release of its
\* request; one that inserts parts has the first n in; a fresh one has them all.
ComponentTasksSound ==
  \A t \in ComponentTasks : ctask[t] # None =>
    LET r == ctask[t].req  c == ctask[t].id IN
    /\ ctask[t].pc \in {"parts", "fresh", "reused"} =>
         /\ c \in ComponentIds
         /\ components[c] = [path |-> r.path, identity |-> ComponentIdentity(r)]
    /\ ctask[t].pc \in {"lookup", "insert"} => ctask[t].n = 0
    /\ ctask[t].pc = "parts" =>
         ctask[t].n < Len(r.parts) /\ \A i \in 1..ctask[t].n : r.parts[i] \in parts[c]
    /\ ctask[t].pc = "fresh" => Range(r.parts) \subseteq parts[c]

\* The same for a vehicle handler and its members.
VehicleTasksSound ==
  \A t \in VehicleTasks : vtask[t] # None =>
    LET r == vtask[t].req  v == vtask[t].id IN
    /\ vtask[t].pc \in {"snapshot", "members", "fresh", "reused"} =>
         /\ v \in VehicleIds
         /\ vehicles[v] = [tag |-> r.tag, identity |-> VehicleIdentity(r)]
    /\ vtask[t].pc \in {"lookup", "insert"} => vtask[t].n = 0
    /\ vtask[t].pc = "members" =>
         /\ vtask[t].n < Len(r.members)
         /\ \A i \in 1..vtask[t].n :
              [component |-> r.members[i], disabled |-> r.members[i] \in r.disabled]
                \in members[v]
    /\ vtask[t].pc = "fresh" => MembersAsked(r) \subseteq members[v]

\* A row that is absent has no snapshot, so inserting one replaces none.
SnapshotWithin == \A v \in VehicleIds : vehicles[v] = None => snapshot[v] = None

ReleaseInv ==
  /\ ReleaseTypeOK
  /\ ChildrenWithin
  /\ ComponentTasksSound
  /\ VehicleTasksSound
=============================================================================
