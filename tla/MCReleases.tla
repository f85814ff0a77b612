----------------------------- MODULE MCReleases -----------------------------
(* Releases for TLC: small sets of requests that share and differ in content. *)
EXTENDS Releases, FiniteSets, TLC

CONSTANTS a, b, x, y, p1, p2, k1, k2, snap1, snap2, tag1

\* The same two parts in both orders, one part less, other contents, another
\* path, another kind, and a part id listed twice.
MCComponentRequests ==
  LET part(i, c) == [id |-> i, content |-> c]
      req(p, k, ps) == [path |-> p, kind |-> k, parts |-> ps]
  IN {req(p1, k1, <<part(a, x), part(b, x)>>),
      req(p1, k1, <<part(b, x), part(a, x)>>),
      req(p1, k1, <<part(a, y), part(b, x)>>),
      req(p1, k2, <<part(a, x)>>),
      req(p2, k1, <<part(a, x), part(a, y)>>),
      req(p2, k1, <<>>)}

\* One component per path, so that vehicles have something to list; their parts
\* do not matter to a vehicle release.
BareRequests == {[path |-> p, kind |-> k1, parts |-> <<>>] : p \in {p1, p2}}

AllComponentRequests == MCComponentRequests \cup BareRequests

\* Two members in both orders and with a snapshot, one of them disabled, a stray
\* disabled id, and a member listed twice.  Each id may not exist yet.
MCVehicleRequests ==
  LET req(ms, ds, sn) == [tag |-> tag1, members |-> ms, disabled |-> ds, snapshot |-> sn]
  IN {req(<<1, 2>>, {}, snap1),
      req(<<2, 1>>, {}, snap2),
      req(<<1, 2>>, {2}, None),
      req(<<1, 1>>, {2}, None)}

\* Two instances in one run: two component creators with rich requests before any
\* vehicle handler starts, or two vehicle creators over bare components.
Instances ==
  \/ \A t \in VehicleTasks : vtask[t] = None
  \/ /\ Cardinality({t \in ComponentTasks : ctask[t] # None}) < 2
     /\ \A t \in ComponentTasks : ctask[t] # None => ctask[t].req \in BareRequests
     /\ \A c \in ComponentIds : components[c] # None => PartsOf(components[c].identity) = {}
InstanceSpec == ReleaseInit /\ [][ReleaseNext /\ Instances']_releaseVars

\* Two equal requests, sent by two clients at once.
TwoPartRequest ==
  {[path |-> p1, kind |-> k1,
    parts |-> <<[id |-> a, content |-> x], [id |-> b, content |-> x]>>]}
NoRequests == {}

Symmetry == Permutations(ComponentTasks) \cup Permutations(VehicleTasks)
=============================================================================
