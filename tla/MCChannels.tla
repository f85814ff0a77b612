----------------------------- MODULE MCChannels -----------------------------
(* Channels for TLC: releases are minted while channel handlers resolve them. *)
EXTENDS Channels, TLC

CONSTANTS a, b, x, p1, p2, k1, tag1, bleeding, rig, emulated, arm64

\* A component of two parts on one path, and one without parts on the other.
MCComponentRequests ==
  {[path |-> p1, kind |-> k1,
    parts |-> <<[id |-> a, content |-> x], [id |-> b, content |-> x]>>],
   [path |-> p2, kind |-> k1, parts |-> <<>>]}

\* Both components, with the second disabled, and the first one alone.
MCVehicleRequests ==
  {[tag |-> tag1, members |-> <<1, 2>>, disabled |-> {2}, snapshot |-> None],
   [tag |-> tag1, members |-> <<1>>, disabled |-> {}, snapshot |-> None]}
OneVehicleRequest == {r \in MCVehicleRequests : r.members = <<1, 2>>}

\* A state that minting alone reaches: component 1 is whole on p1, 2 on p2.
MintedInit ==
  LET minted(c) == CHOOSE r \in MCComponentRequests : r.path = IF c = 1 THEN p1 ELSE p2 IN
  /\ components = [c \in ComponentIds |->
                     [path |-> minted(c).path, identity |-> ComponentIdentity(minted(c))]]
  /\ parts = [c \in ComponentIds |-> Range(minted(c).parts)]
  /\ vehicles = [v \in VehicleIds |-> None]
  /\ snapshot = [v \in VehicleIds |-> None]
  /\ members = [v \in VehicleIds |-> {}]
  /\ ctask = [t \in ComponentTasks |-> None]
  /\ vtask = [t \in VehicleTasks |-> None]
  /\ targets = [k \in Target |-> None]
  /\ history = {}
  /\ task = [t \in ChannelTasks |-> None]

\* The exact selector, and one by device alone, which falls back as one by channel does.
MCSelectors ==
  {[channel |-> bleeding, device |-> rig, architecture |-> arm64],
   [channel |-> bleeding, device |-> rig, architecture |-> None]}
NoSelectors == {}

\* Two instances in one run: two handlers and two vehicle releases over minted
\* components, for one device and its exact selector with a tree hash, and no failure; or
\* one handler and one vehicle release from an empty store, with components growing,
\* failures, both selectors, and a second device, whose target is set on a whole release.
OnMinted ==
  /\ \A k \in Target : targets[k] # None => k.device = rig
  /\ \A t \in ChannelTasks : task[t] # None =>
       task[t].target.device = rig /\ task[t].target.architecture = arm64
  /\ \A t \in ChannelTasks : At(task, t, "select") => task[t].expected # None
  /\ \A t \in ChannelTasks : ~At(task, t, "failed")
  /\ \A t \in VehicleTasks : ~At(vtask, t, "failed")
OnGrowing ==
  /\ \E t \in ChannelTasks : task[t] = None
  /\ \A t \in ChannelTasks : task[t] # None => task[t].vehicle # 2
  /\ \A t \in ChannelTasks : At(task, t, "select") => task[t].expected = None
  /\ \A t \in VehicleTasks : vtask[t] # None => vtask[t].req \in OneVehicleRequest
  /\ \A k \in Target : targets[k] # None /\ k.device = emulated => targets[k].sealed
  /\ vehicles[2] = None
Instances ==
  IF components[1] # None /\ \A t \in ComponentTasks : ctask[t] = None
  THEN OnMinted ELSE OnGrowing

InstanceSpec == (Init \/ MintedInit) /\ [][Next /\ Instances']_vars

Symmetry == Permutations(ChannelTasks)
=============================================================================
