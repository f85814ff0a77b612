-------------------------- MODULE Releases_proofs --------------------------
(***************************************************************************)
(* Proofs about Releases, for any requests, ids and number of handlers.    *)
(***************************************************************************)
EXTENDS Releases, TLAPS

\* Time limits of the provers: the time they take varies with the length of the run.
USE SMTT(40), ZenonT(40)

\* An identity stands for exactly the parts of the request it was computed from.
LEMMA IdentityParts ==
  ASSUME NEW r \in ComponentRequest
  PROVE  PartsOf(ComponentIdentity(r)) = Range(r.parts)
<1> DEFINE D == DOMAIN r.parts
<1>1. ComponentIdentity(r).parts = {Ranked(r.parts, i) : i \in D}
  BY DEF ComponentIdentity
<1>2. \A i \in D : Ranked(r.parts, i)[1] = r.parts[i]
  BY DEF Ranked
<1>3. PartsOf(ComponentIdentity(r)) = {Ranked(r.parts, i)[1] : i \in D}
  BY <1>1 DEF PartsOf
<1> QED
  BY <1>2, <1>3 DEF Range

\* ... and for exactly the members, with their flags, of a vehicle request.
LEMMA IdentityMembers ==
  ASSUME NEW r \in VehicleRequest
  PROVE  MembersOf(VehicleIdentity(r)) = MembersAsked(r)
  BY DEF MembersOf, MembersAsked, VehicleIdentity

LEMMA ReleaseInitInv == ReleaseInit => ReleaseInv
  BY ReleaseAssumption
  DEF ReleaseInit, ReleaseInv, ReleaseTypeOK, ChildrenWithin, ComponentTasksSound,
      VehicleTasksSound

-----------------------------------------------------------------------------
(* Component handlers                                                      *)

\* A step that leaves the tables alone and moves one component handler to a
\* sound state keeps the invariant.
LEMMA ComponentMove ==
  ASSUME ReleaseInv, NEW t \in ComponentTasks, NEW s \in ComponentTask,
         ctask' = [ctask EXCEPT ![t] = s],
         UNCHANGED <<components, parts, vehicleVars>>,
         s.pc \in {"parts", "fresh", "reused"} =>
           /\ s.id \in ComponentIds
           /\ components[s.id] = [path |-> s.req.path, identity |-> ComponentIdentity(s.req)],
         s.pc \in {"lookup", "insert"} => s.n = 0,
         s.pc \notin {"parts", "fresh"}
  PROVE  ReleaseInv'
<1>1. ReleaseTypeOK'
  BY DEF ReleaseInv, ReleaseTypeOK, vehicleVars
<1>2. ChildrenWithin' /\ VehicleTasksSound'
  BY ZenonT(40) DEF ReleaseInv, ChildrenWithin, VehicleTasksSound, vehicleVars
<1>3. ctask'[t] = s /\ \A u \in ComponentTasks \ {t} : ctask'[u] = ctask[u]
  BY DEF ReleaseInv, ReleaseTypeOK
<1>4. ComponentTasksSound'
  BY ZenonT(40), <1>3 DEF ReleaseInv, ComponentTasksSound
<1> QED
  BY <1>1, <1>2, <1>4 DEF ReleaseInv

\* A handler between two statements has a task record.
LEMMA ComponentAt ==
  ASSUME ReleaseTypeOK, NEW t \in ComponentTasks, NEW pc, At(ctask, t, pc)
  PROVE  /\ ctask[t] \in ComponentTask /\ ctask[t].pc = pc
         /\ ctask[t].req \in ComponentRequests /\ ctask[t].req \in ComponentRequest
         /\ ctask[t].req.parts \in Seq(Part) /\ ctask[t].n \in Nat
  BY ReleaseAssumption DEF ReleaseTypeOK, At, ComponentTask, ComponentRequest

\* The handlers' statements that write no table.
LEMMA ComponentReads ==
  ASSUME ReleaseInv, NEW t \in ComponentTasks,
         \/ \E r \in ComponentRequests : StartComponent(t, r)
         \/ LookupComponentHit(t)
         \/ LookupComponentMiss(t)
         \/ InsertComponentConflict(t)
         \/ InsertPartConflict(t)
         \/ StopComponent(t)
  PROVE  ReleaseInv'
<1>0. ReleaseTypeOK
  BY DEF ReleaseInv
<1>1. ASSUME NEW r \in ComponentRequests, StartComponent(t, r) PROVE ReleaseInv'
  <2> DEFINE s == [pc |-> "lookup", req |-> r, id |-> None, n |-> 0]
  <2>1. s \in ComponentTask
    BY DEF ComponentTask
  <2> QED
    BY ZenonT(40), <1>1, <2>1, ComponentMove DEF StartComponent
<1>2. ASSUME LookupComponentHit(t) PROVE ReleaseInv'
  <2>1. ctask[t] \in ComponentTask
    BY <1>0, <1>2, ComponentAt DEF LookupComponentHit
  <2>2. PICK c \in ComponentWith(ctask[t].req) :
          ctask' = [ctask EXCEPT ![t].pc = "reused", ![t].id = c]
    BY ZenonT(40), <1>2 DEF LookupComponentHit
  <2> DEFINE s == [ctask[t] EXCEPT !.pc = "reused", !.id = c]
  <2>3. /\ s \in ComponentTask /\ s.pc = "reused" /\ c \in ComponentIds
        /\ s.id = c /\ s.req = ctask[t].req
        /\ components[c] = [path |-> s.req.path, identity |-> ComponentIdentity(s.req)]
    BY ZenonT(40), <2>1, <2>2 DEF ComponentTask, ComponentWith
  <2>4. ctask' = [ctask EXCEPT ![t] = s]
    BY ZenonT(40), <1>0, <2>2 DEF ReleaseTypeOK
  <2> HIDE DEF s
  <2> QED
    BY ZenonT(40), <1>2, <2>2, <2>3, <2>4, ComponentMove DEF LookupComponentHit
<1>3. ASSUME LookupComponentMiss(t) PROVE ReleaseInv'
  <2>1. ctask[t] \in ComponentTask /\ ctask[t].n = 0
    BY ZenonT(40), <1>0, <1>3, ComponentAt DEF LookupComponentMiss, ReleaseInv, ComponentTasksSound, At
  <2> DEFINE s == [ctask[t] EXCEPT !.pc = "insert"]
  <2>2. s \in ComponentTask /\ s.pc = "insert" /\ s.n = 0
    BY <2>1 DEF ComponentTask
  <2>3. ctask' = [ctask EXCEPT ![t] = s]
    BY <1>0, <1>3 DEF ReleaseTypeOK, LookupComponentMiss
  <2> HIDE DEF s
  <2> QED
    BY ZenonT(40), <1>3, <2>2, <2>3, ComponentMove DEF LookupComponentMiss
<1>4. ASSUME InsertComponentConflict(t) \/ InsertPartConflict(t) \/ StopComponent(t)
      PROVE  ReleaseInv'
  <2>1. ctask[t] \in ComponentTask
    BY <1>0, <1>4, ComponentAt
    DEF InsertComponentConflict, InsertPartConflict, StopComponent, Idle, ReleaseTypeOK
  <2> DEFINE s == [ctask[t] EXCEPT !.pc = "failed"]
  <2>2. s \in ComponentTask /\ s.pc = "failed"
    BY ZenonT(40), <2>1 DEF ComponentTask
  <2>3. ctask' = [ctask EXCEPT ![t] = s] /\ UNCHANGED <<components, parts, vehicleVars>>
    BY <1>0, <1>4
    DEF ReleaseTypeOK, InsertComponentConflict, InsertPartConflict, StopComponent
  <2> HIDE DEF s
  <2> QED
    BY ZenonT(40), <2>2, <2>3, ComponentMove
<1> QED
  BY <1>1, <1>2, <1>3, <1>4

\* Inserting a release row: no other row changes, and the new one has no parts.
LEMMA InsertComponentInv ==
  ASSUME ReleaseInv, NEW t \in ComponentTasks, NEW c \in ComponentIds, InsertComponent(t, c)
  PROVE  ReleaseInv'
<1> USE ReleaseAssumption
<1> DEFINE r == ctask[t].req
           row == [path |-> r.path, identity |-> ComponentIdentity(r)]
<1>1. /\ ctask[t] \in ComponentTask /\ ctask[t].pc = "insert"
      /\ r \in ComponentRequests /\ r \in ComponentRequest
      /\ r.parts \in Seq(Part) /\ ctask[t].n = 0
  BY ZenonT(40), ComponentAt DEF InsertComponent, ReleaseInv, ComponentTasksSound, At
<1>2. row \in ComponentRow /\ row # None
  BY <1>1 DEF ComponentRow, ComponentRequest
<1>3. /\ components[c] = None /\ components'[c] = row
      /\ \A d \in ComponentIds \ {c} : components'[d] = components[d]
      /\ parts' = parts /\ parts[c] = {} /\ UNCHANGED vehicleVars
  BY DEF InsertComponent, ReleaseInv, ReleaseTypeOK, ChildrenWithin
<1>4. /\ ctask'[t] \in ComponentTask /\ ctask'[t].req = r /\ ctask'[t].id = c
      /\ ctask'[t].pc = PartsPc(r, 0) /\ ctask'[t].n = 0
      /\ \A u \in ComponentTasks \ {t} : ctask'[u] = ctask[u]
  BY ZenonT(40), <1>1 DEF InsertComponent, ReleaseInv, ReleaseTypeOK, ComponentTask, PartsPc
<1>5. ReleaseTypeOK'
  BY <1>2, <1>3, <1>4 DEF InsertComponent, ReleaseInv, ReleaseTypeOK, vehicleVars
<1>6. ChildrenWithin'
  <2>1. \A d \in ComponentIds :
          /\ components'[d] = None => parts'[d] = {}
          /\ components'[d] # None => parts'[d] \subseteq PartsOf(components'[d].identity)
    BY <1>2, <1>3 DEF ReleaseInv, ChildrenWithin
  <2>2. \A d \in ComponentIds : components[d] # None => components'[d] # None
    BY <1>2, <1>3
  <2> QED
    BY <1>3, <2>1, <2>2
    DEF ReleaseInv, ReleaseTypeOK, ChildrenWithin, Member, vehicleVars
<1>7. VehicleTasksSound'
  BY <1>3 DEF ReleaseInv, VehicleTasksSound, vehicleVars
<1>8. ComponentTasksSound'
  <2> SUFFICES ASSUME NEW u \in ComponentTasks, ctask'[u] # None
               PROVE  LET q == ctask'[u].req  d == ctask'[u].id IN
                      /\ ctask'[u].pc \in {"parts", "fresh", "reused"} =>
                           /\ d \in ComponentIds
                           /\ components'[d] = [path |-> q.path, identity |-> ComponentIdentity(q)]
                      /\ ctask'[u].pc \in {"lookup", "insert"} => ctask'[u].n = 0
                      /\ ctask'[u].pc = "parts" =>
                           /\ ctask'[u].n < Len(q.parts)
                           /\ \A i \in 1..ctask'[u].n : q.parts[i] \in parts'[d]
                      /\ ctask'[u].pc = "fresh" => Range(q.parts) \subseteq parts'[d]
    BY DEF ComponentTasksSound
  <2>1. CASE u = t
    <3>1. PartsPc(r, 0) = "fresh" => Range(r.parts) = {}
      BY <1>1 DEF PartsPc, Range
    <3>2. PartsPc(r, 0) = "parts" => 0 < Len(r.parts)
      BY <1>1 DEF PartsPc
    <3> QED
      BY <1>3, <1>4, <2>1, <3>1, <3>2 DEF PartsPc
  <2>2. CASE u # t
    <3>1. \A d \in ComponentIds : components[d] # None => components'[d] = components[d]
      BY <1>3
    <3>2. \A q \in ComponentRequests :
            [path |-> q.path, identity |-> ComponentIdentity(q)] \in ComponentRow
      BY DEF ComponentRow, ComponentRequest
    <3>3. ctask[u] \in ComponentTask /\ ctask[u].req \in ComponentRequests
      BY <1>4, <2>2 DEF ReleaseInv, ReleaseTypeOK, ComponentTask
    <3> QED
      BY <1>3, <1>4, <2>2, <3>1, <3>2, <3>3 DEF ReleaseInv, ComponentTasksSound
  <2> QED
    BY <2>1, <2>2
<1> QED
  BY <1>5, <1>6, <1>7, <1>8 DEF ReleaseInv

\* Inserting a part: it is one the release's identity names.
LEMMA InsertPartInv ==
  ASSUME ReleaseInv, NEW t \in ComponentTasks, InsertPart(t)
  PROVE  /\ ReleaseInv'
         /\ \A c \in ComponentIds : ComponentComplete(c) => parts'[c] = parts[c]
<1> USE ReleaseAssumption
<1> DEFINE r == ctask[t].req
           c == ctask[t].id
           p == r.parts[ctask[t].n + 1]
<1>1. /\ ctask[t] \in ComponentTask /\ ctask[t].pc = "parts"
      /\ r \in ComponentRequests /\ r \in ComponentRequest
      /\ r.parts \in Seq(Part) /\ ctask[t].n \in Nat
  BY ComponentAt DEF InsertPart, ReleaseInv
<1>2. /\ c \in ComponentIds /\ ctask[t].n < Len(r.parts)
      /\ components[c] = [path |-> r.path, identity |-> ComponentIdentity(r)]
      /\ \A i \in 1..ctask[t].n : r.parts[i] \in parts[c]
  BY <1>1 DEF InsertPart, At, ReleaseInv, ComponentTasksSound
<1>3. ctask[t].n + 1 \in DOMAIN r.parts /\ p \in Part /\ p \in Range(r.parts)
  BY <1>1, <1>2 DEF Range
<1>4. [path |-> r.path, identity |-> ComponentIdentity(r)] # None
  BY <1>1 DEF ComponentRow, ComponentRequest
<1>5. p \in PartsOf(components[c].identity)
  BY <1>1, <1>2, <1>3, IdentityParts
<1>6. /\ parts'[c] = parts[c] \cup {p}
      /\ \A d \in ComponentIds \ {c} : parts'[d] = parts[d]
      /\ components' = components /\ UNCHANGED vehicleVars
  BY <1>2 DEF InsertPart, ReleaseInv, ReleaseTypeOK
<1>7. \A d \in ComponentIds : ComponentComplete(d) => parts'[d] = parts[d]
  <2>1. p \notin parts[c]
    BY DEF InsertPart
  <2> QED
    BY <1>5, <1>6, <2>1 DEF ComponentComplete
<1>8. /\ ctask'[t] \in ComponentTask /\ ctask'[t].req = r /\ ctask'[t].id = c
      /\ ctask'[t].pc = PartsPc(r, ctask[t].n + 1) /\ ctask'[t].n = ctask[t].n + 1
      /\ \A u \in ComponentTasks \ {t} : ctask'[u] = ctask[u]
  <2> DEFINE pc == PartsPc(r, ctask[t].n + 1)
             s == [ctask[t] EXCEPT !.n = ctask[t].n + 1, !.pc = pc]
  <2>1. pc \in {"fresh", "parts"} /\ ctask[t].n + 1 \in Nat
    BY <1>1 DEF PartsPc
  <2>2. ctask' = [ctask EXCEPT ![t] = s]
    BY ZenonT(30) DEF InsertPart, ReleaseInv, ReleaseTypeOK
  <2> HIDE DEF pc
  <2>3. /\ s \in ComponentTask /\ s.req = r /\ s.id = c
        /\ s.pc = pc /\ s.n = ctask[t].n + 1
    BY ZenonT(40), <1>1, <2>1 DEF ComponentTask
  <2> QED
    BY <2>2, <2>3 DEF ReleaseInv, ReleaseTypeOK, pc
<1>9. ReleaseTypeOK'
  BY <1>2, <1>3, <1>6, <1>8 DEF InsertPart, ReleaseInv, ReleaseTypeOK, vehicleVars
<1>10. ChildrenWithin'
  <2>1. \A d \in ComponentIds :
          /\ components'[d] = None => parts'[d] = {}
          /\ components'[d] # None => parts'[d] \subseteq PartsOf(components'[d].identity)
    BY <1>2, <1>4, <1>5, <1>6 DEF ReleaseInv, ChildrenWithin
  <2> QED
    BY ZenonT(40), <1>6, <2>1 DEF ReleaseInv, ChildrenWithin, vehicleVars
<1>11. VehicleTasksSound'
  BY ZenonT(40), <1>6 DEF ReleaseInv, VehicleTasksSound, vehicleVars
<1>12. ComponentTasksSound'
  <2> SUFFICES ASSUME NEW u \in ComponentTasks, ctask'[u] # None
               PROVE  LET q == ctask'[u].req  d == ctask'[u].id IN
                      /\ ctask'[u].pc \in {"parts", "fresh", "reused"} =>
                           /\ d \in ComponentIds
                           /\ components[d] = [path |-> q.path, identity |-> ComponentIdentity(q)]
                      /\ ctask'[u].pc \in {"lookup", "insert"} => ctask'[u].n = 0
                      /\ ctask'[u].pc = "parts" =>
                           /\ ctask'[u].n < Len(q.parts)
                           /\ \A i \in 1..ctask'[u].n : q.parts[i] \in parts'[d]
                      /\ ctask'[u].pc = "fresh" => Range(q.parts) \subseteq parts'[d]
    BY ZenonT(40), <1>6 DEF ComponentTasksSound
  <2>1. CASE u = t
    <3>1. \A i \in 1..(ctask[t].n + 1) : r.parts[i] \in parts'[c]
      BY SMTT(30), <1>1, <1>2, <1>6
    <3>2. PartsPc(r, ctask[t].n + 1) = "fresh" => Range(r.parts) \subseteq parts'[c]
      <4>1. PartsPc(r, ctask[t].n + 1) = "fresh" => DOMAIN r.parts = 1..(ctask[t].n + 1)
        BY <1>1 DEF PartsPc
      <4> QED
        BY ZenonT(40), <3>1, <4>1 DEF Range
    <3>3. PartsPc(r, ctask[t].n + 1) = "parts" => ctask[t].n + 1 < Len(r.parts)
      BY <1>1, <1>2 DEF PartsPc
    <3> QED
      BY ZenonT(40), <1>2, <1>8, <2>1, <3>1, <3>2, <3>3 DEF PartsPc
  <2>2. CASE u # t
    <3>1. \A d \in ComponentIds : parts[d] \subseteq parts'[d]
      BY <1>6
    <3> QED
      BY ZenonT(40), <1>8, <2>2, <3>1 DEF ReleaseInv, ComponentTasksSound
  <2> QED
    BY ZenonT(40), <2>1, <2>2
<1> QED
  BY <1>7, <1>9, <1>10, <1>11, <1>12 DEF ReleaseInv

-----------------------------------------------------------------------------
(* Vehicle handlers                                                        *)

LEMMA VehicleMove ==
  ASSUME ReleaseInv, NEW t \in VehicleTasks, NEW s \in VehicleTask,
         vtask' = [vtask EXCEPT ![t] = s],
         UNCHANGED <<vehicles, members, componentVars>>,
         snapshot' \in [VehicleIds -> Snapshots \cup {None}],
         s.pc \in {"snapshot", "reused"} =>
           /\ s.id \in VehicleIds
           /\ vehicles[s.id] = [tag |-> s.req.tag, identity |-> VehicleIdentity(s.req)],
         s.pc \in {"lookup", "insert"} => s.n = 0,
         s.pc \notin {"members", "fresh"}
  PROVE  ReleaseInv'
<1>1. ReleaseTypeOK'
  BY ZenonT(40) DEF ReleaseInv, ReleaseTypeOK, componentVars
<1>2. ChildrenWithin' /\ ComponentTasksSound'
  BY DEF ReleaseInv, ChildrenWithin, ComponentTasksSound, componentVars
<1>3. vtask'[t] = s /\ \A u \in VehicleTasks \ {t} : vtask'[u] = vtask[u]
  BY DEF ReleaseInv, ReleaseTypeOK
<1>4. VehicleTasksSound'
  BY ZenonT(40), <1>3 DEF ReleaseInv, VehicleTasksSound
<1> QED
  BY <1>1, <1>2, <1>4 DEF ReleaseInv

LEMMA VehicleAt ==
  ASSUME ReleaseTypeOK, NEW t \in VehicleTasks, NEW pc, At(vtask, t, pc)
  PROVE  /\ vtask[t] \in VehicleTask /\ vtask[t].pc = pc
         /\ vtask[t].req \in VehicleRequests /\ vtask[t].req \in VehicleRequest
         /\ vtask[t].req.members \in Seq(ComponentIds) /\ vtask[t].n \in Nat
         /\ vtask[t].req.snapshot \in Snapshots \cup {None}
  BY ReleaseAssumption DEF ReleaseTypeOK, At, VehicleTask, VehicleRequest

\* The statements that insert no row.
LEMMA VehicleReads ==
  ASSUME ReleaseInv, NEW t \in VehicleTasks,
         \/ \E r \in VehicleRequests : StartVehicle(t, r)
         \/ LookupVehicleHit(t)
         \/ LookupVehicleMiss(t)
         \/ UpdateSnapshot(t)
         \/ InsertVehicleConflict(t)
         \/ InsertMemberConflict(t)
         \/ StopVehicle(t)
  PROVE  ReleaseInv'
<1>0. ReleaseTypeOK /\ snapshot \in [VehicleIds -> Snapshots \cup {None}]
  BY DEF ReleaseInv, ReleaseTypeOK
<1>1. ASSUME NEW r \in VehicleRequests, StartVehicle(t, r) PROVE ReleaseInv'
  <2> DEFINE s == [pc |-> "lookup", req |-> r, id |-> None, n |-> 0]
  <2>1. s \in VehicleTask
    BY DEF VehicleTask
  <2> QED
    BY ZenonT(40), <1>0, <1>1, <2>1, VehicleMove DEF StartVehicle
<1>2. ASSUME LookupVehicleHit(t) PROVE ReleaseInv'
  <2> DEFINE pc == IF vtask[t].req.snapshot # None THEN "snapshot" ELSE "reused"
  <2>1. vtask[t] \in VehicleTask
    BY <1>0, <1>2, VehicleAt DEF LookupVehicleHit
  <2>2. PICK v \in VehicleWith(vtask[t].req) :
          vtask' = [vtask EXCEPT ![t].pc = pc, ![t].id = v]
    BY ZenonT(40), <1>2 DEF LookupVehicleHit
  <2>3. pc \in {"snapshot", "reused"}
    OBVIOUS
  <2> HIDE DEF pc
  <2> DEFINE s == [vtask[t] EXCEPT !.pc = pc, !.id = v]
  <2>4. /\ s \in VehicleTask /\ s.pc = pc /\ v \in VehicleIds
        /\ s.id = v /\ s.req = vtask[t].req
        /\ vehicles[v] = [tag |-> s.req.tag, identity |-> VehicleIdentity(s.req)]
    BY ZenonT(40), <2>1, <2>2, <2>3 DEF VehicleTask, VehicleWith
  <2>5. vtask' = [vtask EXCEPT ![t] = s]
    BY ZenonT(40), <1>0, <2>2 DEF ReleaseTypeOK
  <2> HIDE DEF s
  <2> QED
    BY ZenonT(40), <1>0, <1>2, <2>3, <2>4, <2>5, VehicleMove DEF LookupVehicleHit
<1>3. ASSUME LookupVehicleMiss(t) PROVE ReleaseInv'
  <2>1. vtask[t] \in VehicleTask /\ vtask[t].n = 0
    BY ZenonT(40), <1>0, <1>3, VehicleAt DEF LookupVehicleMiss, ReleaseInv, VehicleTasksSound, At
  <2> DEFINE s == [vtask[t] EXCEPT !.pc = "insert"]
  <2>2. s \in VehicleTask /\ s.pc = "insert" /\ s.n = 0
    BY <2>1 DEF VehicleTask
  <2>3. vtask' = [vtask EXCEPT ![t] = s]
    BY <1>0, <1>3 DEF ReleaseTypeOK, LookupVehicleMiss
  <2> HIDE DEF s
  <2> QED
    BY ZenonT(40), <1>0, <1>3, <2>2, <2>3, VehicleMove DEF LookupVehicleMiss
<1>4. ASSUME UpdateSnapshot(t) PROVE ReleaseInv'
  <2>1. /\ vtask[t] \in VehicleTask /\ vtask[t].pc = "snapshot"
        /\ vtask[t].req.snapshot \in Snapshots \cup {None}
    BY <1>0, <1>4, VehicleAt DEF UpdateSnapshot
  <2>2. /\ vtask[t].id \in VehicleIds
        /\ vehicles[vtask[t].id] =
             [tag |-> vtask[t].req.tag, identity |-> VehicleIdentity(vtask[t].req)]
    BY <1>4, <2>1 DEF ReleaseInv, VehicleTasksSound, UpdateSnapshot, At
  <2> DEFINE s == [vtask[t] EXCEPT !.pc = "reused"]
  <2>3. s \in VehicleTask /\ s.pc = "reused" /\ s.id = vtask[t].id /\ s.req = vtask[t].req
    BY <2>1 DEF VehicleTask
  <2>4. vtask' = [vtask EXCEPT ![t] = s]
    BY <1>0, <1>4 DEF ReleaseTypeOK, UpdateSnapshot
  <2>5. snapshot' \in [VehicleIds -> Snapshots \cup {None}]
    BY <1>0, <1>4, <2>1, <2>2 DEF UpdateSnapshot
  <2> HIDE DEF s
  <2> QED
    BY ZenonT(30), <1>4, <2>2, <2>3, <2>4, <2>5, VehicleMove DEF UpdateSnapshot
<1>5. ASSUME InsertVehicleConflict(t) \/ InsertMemberConflict(t) \/ StopVehicle(t)
      PROVE  ReleaseInv'
  <2>1. vtask[t] \in VehicleTask
    BY <1>0, <1>5, VehicleAt
    DEF InsertVehicleConflict, InsertMemberConflict, StopVehicle, Idle, ReleaseTypeOK
  <2> DEFINE s == [vtask[t] EXCEPT !.pc = "failed"]
  <2>2. s \in VehicleTask /\ s.pc = "failed"
    BY ZenonT(40), <2>1 DEF VehicleTask
  <2>3. /\ vtask' = [vtask EXCEPT ![t] = s]
        /\ UNCHANGED <<vehicles, snapshot, members, componentVars>>
    BY <1>0, <1>5
    DEF ReleaseTypeOK, InsertVehicleConflict, InsertMemberConflict, StopVehicle
  <2> HIDE DEF s
  <2> QED
    BY ZenonT(40), <1>0, <2>2, <2>3, VehicleMove
<1> QED
  BY <1>1, <1>2, <1>3, <1>4, <1>5

LEMMA InsertVehicleInv ==
  ASSUME ReleaseInv, NEW t \in VehicleTasks, NEW v \in VehicleIds, InsertVehicle(t, v)
  PROVE  ReleaseInv'
<1> USE ReleaseAssumption
<1> DEFINE r == vtask[t].req
           row == [tag |-> r.tag, identity |-> VehicleIdentity(r)]
<1>1. /\ vtask[t] \in VehicleTask /\ vtask[t].pc = "insert"
      /\ r \in VehicleRequests /\ r \in VehicleRequest
      /\ r.members \in Seq(ComponentIds) /\ vtask[t].n = 0
      /\ r.snapshot \in Snapshots \cup {None}
  BY ZenonT(40), VehicleAt DEF InsertVehicle, ReleaseInv, VehicleTasksSound, At
<1>2. row \in VehicleRow /\ row # None
  BY <1>1 DEF VehicleRow, VehicleRequest
<1>3. /\ vehicles[v] = None /\ vehicles'[v] = row
      /\ \A w \in VehicleIds \ {v} : vehicles'[w] = vehicles[w]
      /\ members' = members /\ members[v] = {} /\ UNCHANGED componentVars
  BY DEF InsertVehicle, ReleaseInv, ReleaseTypeOK, ChildrenWithin
<1>4. /\ vtask'[t] \in VehicleTask /\ vtask'[t].req = r /\ vtask'[t].id = v
      /\ vtask'[t].pc = MembersPc(r, 0) /\ vtask'[t].n = 0
      /\ \A u \in VehicleTasks \ {t} : vtask'[u] = vtask[u]
  BY ZenonT(40), <1>1 DEF InsertVehicle, ReleaseInv, ReleaseTypeOK, VehicleTask, MembersPc
<1>5. ReleaseTypeOK'
  BY <1>1, <1>2, <1>3, <1>4 DEF InsertVehicle, ReleaseInv, ReleaseTypeOK, componentVars
<1>6. ChildrenWithin'
  <2>1. \A w \in VehicleIds :
          /\ vehicles'[w] = None => members'[w] = {}
          /\ vehicles'[w] # None => members'[w] \subseteq MembersOf(vehicles'[w].identity)
    BY ZenonT(40), <1>2, <1>3 DEF ReleaseInv, ChildrenWithin
  <2> QED
    BY <1>3, <2>1 DEF ReleaseInv, ChildrenWithin, componentVars
<1>7. ComponentTasksSound'
  BY ZenonT(40), <1>3 DEF ReleaseInv, ComponentTasksSound, componentVars
<1>8. VehicleTasksSound'
  <2> SUFFICES ASSUME NEW u \in VehicleTasks, vtask'[u] # None
               PROVE  LET q == vtask'[u].req  w == vtask'[u].id IN
                      /\ vtask'[u].pc \in {"snapshot", "members", "fresh", "reused"} =>
                           /\ w \in VehicleIds
                           /\ vehicles'[w] = [tag |-> q.tag, identity |-> VehicleIdentity(q)]
                      /\ vtask'[u].pc \in {"lookup", "insert"} => vtask'[u].n = 0
                      /\ vtask'[u].pc = "members" =>
                           /\ vtask'[u].n < Len(q.members)
                           /\ \A i \in 1..vtask'[u].n :
                                [component |-> q.members[i],
                                 disabled |-> q.members[i] \in q.disabled] \in members'[w]
                      /\ vtask'[u].pc = "fresh" => MembersAsked(q) \subseteq members'[w]
    BY ZenonT(40) DEF VehicleTasksSound
  <2>1. CASE u = t
    <3>1. MembersPc(r, 0) = "fresh" => MembersAsked(r) = {}
      BY <1>1 DEF MembersPc, MembersAsked, Range
    <3>2. MembersPc(r, 0) = "members" => 0 < Len(r.members)
      BY <1>1 DEF MembersPc
    <3> QED
      BY <1>3, <1>4, <2>1, <3>1, <3>2 DEF MembersPc
  <2>2. CASE u # t
    <3>1. \A w \in VehicleIds : vehicles[w] # None => vehicles'[w] = vehicles[w]
      BY <1>3
    <3>2. \A q \in VehicleRequests :
            [tag |-> q.tag, identity |-> VehicleIdentity(q)] \in VehicleRow
      BY DEF VehicleRow, VehicleRequest
    <3>3. vtask[u] \in VehicleTask /\ vtask[u].req \in VehicleRequests
      BY ZenonT(40), <1>4, <2>2 DEF ReleaseInv, ReleaseTypeOK, VehicleTask
    <3>4. vtask'[u] = vtask[u] /\ members' = members
      BY ZenonT(40), <1>3, <1>4, <2>2
    <3>5. vtask[u].pc \in {"snapshot", "members", "fresh", "reused"} =>
            /\ vtask[u].id \in VehicleIds
            /\ vehicles'[vtask[u].id] =
                 [tag |-> vtask[u].req.tag, identity |-> VehicleIdentity(vtask[u].req)]
      BY <3>1, <3>2, <3>3 DEF ReleaseInv, VehicleTasksSound
    <3> QED
      BY ZenonT(40), <3>3, <3>4, <3>5 DEF ReleaseInv, VehicleTasksSound
  <2> QED
    BY ZenonT(40), <2>1, <2>2
<1> QED
  BY <1>5, <1>6, <1>7, <1>8 DEF ReleaseInv

\* Inserting a member: it is one the release's identity names, with its flag.
LEMMA InsertMemberInv ==
  ASSUME ReleaseInv, NEW t \in VehicleTasks, InsertMember(t)
  PROVE  /\ ReleaseInv'
         /\ \A v \in VehicleIds : members[v] \subseteq members'[v]
         /\ \A v \in VehicleIds : VehicleComplete(v) => members'[v] = members[v]
<1> USE ReleaseAssumption
<1> DEFINE r == vtask[t].req
           v == vtask[t].id
           c == r.members[vtask[t].n + 1]
           m == [component |-> c, disabled |-> c \in r.disabled]
<1>1. /\ vtask[t] \in VehicleTask /\ vtask[t].pc = "members"
      /\ r \in VehicleRequests /\ r \in VehicleRequest
      /\ r.members \in Seq(ComponentIds) /\ vtask[t].n \in Nat
  BY ZenonT(40), VehicleAt DEF InsertMember, ReleaseInv
<1>2. /\ v \in VehicleIds /\ vtask[t].n < Len(r.members)
      /\ vehicles[v] = [tag |-> r.tag, identity |-> VehicleIdentity(r)]
      /\ \A i \in 1..vtask[t].n :
           [component |-> r.members[i], disabled |-> r.members[i] \in r.disabled] \in members[v]
  BY ZenonT(40), <1>1 DEF InsertMember, At, ReleaseInv, VehicleTasksSound
<1>3. vtask[t].n + 1 \in DOMAIN r.members /\ c \in ComponentIds /\ c \in Range(r.members)
  BY <1>1, <1>2 DEF Range
<1>4. m \in Member /\ m \in MembersAsked(r)
  BY SMTT(30), <1>3 DEF Member, MembersAsked
<1>5. m \in MembersOf(vehicles[v].identity) /\ vehicles[v] # None
  <2>1. [tag |-> r.tag, identity |-> VehicleIdentity(r)] \in VehicleRow
    BY ZenonT(40), <1>1 DEF VehicleRow, VehicleRequest
  <2> QED
    BY <1>1, <1>2, <1>4, <2>1, IdentityMembers
<1>6. /\ members'[v] = members[v] \cup {m} /\ components[c] # None
      /\ \A w \in VehicleIds \ {v} : members'[w] = members[w]
      /\ vehicles' = vehicles /\ UNCHANGED componentVars
  BY ZenonT(40), <1>2 DEF InsertMember, ReleaseInv, ReleaseTypeOK
<1>7. /\ \A w \in VehicleIds : members[w] \subseteq members'[w]
      /\ \A w \in VehicleIds : VehicleComplete(w) => members'[w] = members[w]
  <2>1. m \notin members[v]
    BY DEF InsertMember
  <2> QED
    BY ZenonT(40), <1>5, <1>6, <2>1 DEF VehicleComplete
<1>8. /\ vtask'[t] \in VehicleTask /\ vtask'[t].req = r /\ vtask'[t].id = v
      /\ vtask'[t].pc = MembersPc(r, vtask[t].n + 1) /\ vtask'[t].n = vtask[t].n + 1
      /\ \A u \in VehicleTasks \ {t} : vtask'[u] = vtask[u]
  <2> DEFINE pc == MembersPc(r, vtask[t].n + 1)
             s == [vtask[t] EXCEPT !.n = vtask[t].n + 1, !.pc = pc]
  <2>1. pc \in {"fresh", "members"} /\ vtask[t].n + 1 \in Nat
    BY <1>1 DEF MembersPc
  <2>2. vtask' = [vtask EXCEPT ![t] = s]
    BY ZenonT(40) DEF InsertMember, ReleaseInv, ReleaseTypeOK
  <2> HIDE DEF pc
  <2>3. /\ s \in VehicleTask /\ s.req = r /\ s.id = v
        /\ s.pc = pc /\ s.n = vtask[t].n + 1
    BY ZenonT(40), <1>1, <2>1 DEF VehicleTask
  <2> QED
    BY <2>2, <2>3 DEF ReleaseInv, ReleaseTypeOK, pc
<1> HIDE DEF m
<1>9. ReleaseTypeOK'
  <2>1. members' = [members EXCEPT ![v] = members[v] \cup {m}] /\ snapshot' = snapshot
    BY ZenonT(40) DEF InsertMember, m
  <2>2. members' \in [VehicleIds -> SUBSET Member]
    BY ZenonT(40), <1>2, <1>4, <2>1 DEF ReleaseInv, ReleaseTypeOK
  <2>3. vtask' \in [VehicleTasks -> VehicleTask \cup {None}]
    BY ZenonT(40), <1>8 DEF InsertMember, ReleaseInv, ReleaseTypeOK
  <2> QED
    BY ZenonT(40), <1>6, <2>1, <2>2, <2>3 DEF ReleaseInv, ReleaseTypeOK, componentVars
<1>10. ChildrenWithin'
  <2>1. m.component = c
    BY ZenonT(40) DEF m
  <2>2. \A w \in VehicleIds :
          /\ vehicles'[w] = None => members'[w] = {}
          /\ vehicles'[w] # None => members'[w] \subseteq MembersOf(vehicles'[w].identity)
          /\ \A n \in members'[w] : components'[n.component] # None
    BY <1>2, <1>5, <1>6, <2>1 DEF ReleaseInv, ChildrenWithin, componentVars
  <2> QED
    BY <1>6, <2>2 DEF ReleaseInv, ChildrenWithin, componentVars
<1>11. ComponentTasksSound'
  BY <1>6 DEF ReleaseInv, ComponentTasksSound, componentVars
<1>12. VehicleTasksSound'
  <2> SUFFICES ASSUME NEW u \in VehicleTasks, vtask'[u] # None
               PROVE  LET q == vtask'[u].req  w == vtask'[u].id IN
                      /\ vtask'[u].pc \in {"snapshot", "members", "fresh", "reused"} =>
                           /\ w \in VehicleIds
                           /\ vehicles[w] = [tag |-> q.tag, identity |-> VehicleIdentity(q)]
                      /\ vtask'[u].pc \in {"lookup", "insert"} => vtask'[u].n = 0
                      /\ vtask'[u].pc = "members" =>
                           /\ vtask'[u].n < Len(q.members)
                           /\ \A i \in 1..vtask'[u].n :
                                [component |-> q.members[i],
                                 disabled |-> q.members[i] \in q.disabled] \in members'[w]
                      /\ vtask'[u].pc = "fresh" => MembersAsked(q) \subseteq members'[w]
    BY ZenonT(40), <1>6 DEF VehicleTasksSound
  <2>1. CASE u = t
    <3>1. \A i \in 1..(vtask[t].n + 1) :
            [component |-> r.members[i], disabled |-> r.members[i] \in r.disabled]
              \in members'[v]
      <4> TAKE i \in 1..(vtask[t].n + 1)
      <4>1. CASE i \in 1..vtask[t].n
        BY <1>2, <1>6, <4>1
      <4>2. CASE i = vtask[t].n + 1
        BY ZenonT(40), <1>6, <4>2 DEF m
      <4>3. i \in 1..vtask[t].n \/ i = vtask[t].n + 1
        BY <1>1
      <4> QED
        BY <4>1, <4>2, <4>3
    <3>2. MembersPc(r, vtask[t].n + 1) = "fresh" => MembersAsked(r) \subseteq members'[v]
      <4>1. MembersPc(r, vtask[t].n + 1) = "fresh" => DOMAIN r.members = 1..(vtask[t].n + 1)
        BY <1>1 DEF MembersPc
      <4> QED
        BY ZenonT(40), <3>1, <4>1 DEF MembersAsked, Range
    <3>3. MembersPc(r, vtask[t].n + 1) = "members" => vtask[t].n + 1 < Len(r.members)
      BY <1>1, <1>2 DEF MembersPc
    <3> QED
      BY ZenonT(30), <1>2, <1>8, <2>1, <3>1, <3>2, <3>3 DEF MembersPc
  <2>2. CASE u # t
    <3>1. vtask'[u] = vtask[u]
      BY ZenonT(40), <1>8, <2>2
    <3>2. vtask[u].pc \in {"snapshot", "members", "fresh", "reused"} =>
            members[vtask[u].id] \subseteq members'[vtask[u].id]
      BY ZenonT(30), <1>7, <3>1 DEF ReleaseInv, VehicleTasksSound
    <3> QED
      BY <3>1, <3>2 DEF ReleaseInv, VehicleTasksSound
  <2> QED
    BY ZenonT(40), <2>1, <2>2
<1> QED
  BY ZenonT(40), <1>7, <1>9, <1>10, <1>11, <1>12 DEF ReleaseInv

-----------------------------------------------------------------------------
(* Theorems                                                                *)

\* Every statement of either handler preserves the invariant.
LEMMA ComponentStepInv ==
  ASSUME ReleaseInv, NEW t \in ComponentTasks, ComponentStep(t)
  PROVE  ReleaseInv'
  BY ComponentReads, InsertComponentInv, InsertPartInv DEF ComponentStep

LEMMA VehicleStepInv ==
  ASSUME ReleaseInv, NEW t \in VehicleTasks, VehicleStep(t)
  PROVE  ReleaseInv'
  BY VehicleReads, InsertVehicleInv, InsertMemberInv DEF VehicleStep

LEMMA ReleaseStutter == ReleaseInv /\ UNCHANGED releaseVars => ReleaseInv'
  BY DEF ReleaseInv, ReleaseTypeOK, ChildrenWithin, ComponentTasksSound, VehicleTasksSound,
         releaseVars

LEMMA ReleaseNextInv == ReleaseInv /\ [ReleaseNext]_releaseVars => ReleaseInv'
  BY ComponentStepInv, VehicleStepInv, ReleaseStutter DEF ReleaseNext

\* The release store keeps its inductive invariant.
THEOREM ReleaseInvariant == ReleaseSpec => []ReleaseInv
  BY ReleaseInitInv, ReleaseNextInv, PTL DEF ReleaseSpec

\* Type correctness of the release store.
THEOREM ReleaseTypes == ReleaseSpec => []ReleaseTypeOK
<1>1. ReleaseInv => ReleaseTypeOK
  BY DEF ReleaseInv
<1> QED
  BY <1>1, ReleaseInvariant, PTL

\* create_component_release answers with the content asked for: all of it when
\* fresh, and nothing else when reused, over all interleavings and faults.
THEOREM ComponentAnswersHold == ReleaseSpec => []ComponentAnswers
<1>1. ReleaseInv => ComponentAnswers
  <2> SUFFICES ASSUME ReleaseInv, NEW t \in ComponentTasks, ctask[t] # None,
                      ctask[t].pc \in {"fresh", "reused"}
               PROVE  /\ components[ctask[t].id].path = ctask[t].req.path
                      /\ components[ctask[t].id].identity.kind = ctask[t].req.kind
                      /\ parts[ctask[t].id] \subseteq Range(ctask[t].req.parts)
                      /\ ctask[t].pc = "fresh" =>
                           Range(ctask[t].req.parts) \subseteq parts[ctask[t].id]
    BY ZenonT(40) DEF ComponentAnswers
  <2> DEFINE r == ctask[t].req
             c == ctask[t].id
  <2>1. r \in ComponentRequests /\ r \in ComponentRequest
    BY ZenonT(40), ReleaseAssumption DEF ReleaseInv, ReleaseTypeOK, ComponentTask
  <2>2. /\ c \in ComponentIds
        /\ components[c] = [path |-> r.path, identity |-> ComponentIdentity(r)]
        /\ ctask[t].pc = "fresh" => Range(r.parts) \subseteq parts[c]
    BY DEF ReleaseInv, ComponentTasksSound
  <2>3. [path |-> r.path, identity |-> ComponentIdentity(r)] # None
    BY <2>1, ReleaseAssumption DEF ComponentRow, ComponentRequest
  <2>4. parts[c] \subseteq PartsOf(ComponentIdentity(r))
    BY <2>2, <2>3 DEF ReleaseInv, ChildrenWithin
  <2>5. PartsOf(ComponentIdentity(r)) = Range(r.parts)
    BY <2>1, IdentityParts
  <2>6. ComponentIdentity(r).kind = r.kind
    BY ZenonT(40) DEF ComponentIdentity
  <2>7. components[c].path = r.path /\ components[c].identity.kind = r.kind
    BY <2>2, <2>6
  <2> QED
    BY <2>2, <2>4, <2>5, <2>7
<1> QED
  BY <1>1, ReleaseInvariant, PTL

\* create_vehicle_release answers with the members and disable flags asked for.
THEOREM VehicleAnswersHold == ReleaseSpec => []VehicleAnswers
<1>1. ReleaseInv => VehicleAnswers
  <2> SUFFICES ASSUME ReleaseInv
               PROVE  VehicleAnswers
    OBVIOUS
  <2>1. ASSUME NEW t \in VehicleTasks, vtask[t] # None,
               vtask[t].pc \in {"fresh", "reused"}
        PROVE  /\ vehicles[vtask[t].id].tag = vtask[t].req.tag
               /\ members[vtask[t].id] \subseteq MembersAsked(vtask[t].req)
               /\ vtask[t].pc = "fresh" =>
                    MembersAsked(vtask[t].req) \subseteq members[vtask[t].id]
    <3> DEFINE r == vtask[t].req
               v == vtask[t].id
    <3>1. r \in VehicleRequests /\ r \in VehicleRequest
      BY ZenonT(40), <2>1, ReleaseAssumption DEF ReleaseInv, ReleaseTypeOK, VehicleTask
    <3>2. /\ v \in VehicleIds
          /\ vehicles[v] = [tag |-> r.tag, identity |-> VehicleIdentity(r)]
          /\ vtask[t].pc = "fresh" => MembersAsked(r) \subseteq members[v]
      BY <2>1 DEF ReleaseInv, VehicleTasksSound
    <3>3. [tag |-> r.tag, identity |-> VehicleIdentity(r)] # None
      BY <3>1, ReleaseAssumption DEF VehicleRow, VehicleRequest
    <3>4. members[v] \subseteq MembersOf(VehicleIdentity(r))
      BY <3>2, <3>3 DEF ReleaseInv, ChildrenWithin
    <3> QED
      BY <3>1, <3>2, <3>4, IdentityMembers
  <2>2. \A v \in VehicleIds : \A m \in members[v] : components[m.component] # None
    BY DEF ReleaseInv, ChildrenWithin
  <2>3. \A t \in VehicleTasks : vtask[t] # None =>
          /\ vtask[t].pc \in {"fresh", "reused"} =>
               /\ vehicles[vtask[t].id].tag = vtask[t].req.tag
               /\ members[vtask[t].id] \subseteq MembersAsked(vtask[t].req)
          /\ vtask[t].pc = "fresh" => members[vtask[t].id] = MembersAsked(vtask[t].req)
    BY ZenonT(40), <2>1
  <2> QED
    BY <2>2, <2>3 DEF VehicleAnswers
<1> QED
  BY <1>1, ReleaseInvariant, PTL

LEMMA ComponentStepKeeps ==
  ASSUME ReleaseInv, NEW t \in ComponentTasks, ComponentStep(t)
  PROVE  ComponentsKept /\ VehiclesKept
<1>1. VehiclesKept
  BY ZenonT(40) DEF ComponentStep, StartComponent, LookupComponentHit, LookupComponentMiss,
         InsertComponent, InsertComponentConflict, InsertPart, InsertPartConflict,
         StopComponent, VehiclesKept, vehicleVars
<1>2. ASSUME NEW c \in ComponentIds, InsertComponent(t, c) PROVE ComponentsKept
  BY ZenonT(40), <1>2 DEF InsertComponent, ComponentsKept, ReleaseInv, ReleaseTypeOK
<1>3. ASSUME InsertPart(t) PROVE ComponentsKept
  <2>1. \A c \in ComponentIds : ComponentComplete(c) => parts'[c] = parts[c]
    BY <1>3, InsertPartInv
  <2>2. \A c \in ComponentIds : parts[c] \subseteq parts'[c]
    BY ZenonT(40), <1>3 DEF InsertPart, ReleaseInv, ReleaseTypeOK
  <2> QED
    BY <1>3, <2>1, <2>2 DEF InsertPart, ComponentsKept
<1> QED
  BY <1>1, <1>2, <1>3
  DEF ComponentStep, StartComponent, LookupComponentHit, LookupComponentMiss,
      InsertComponentConflict, InsertPartConflict, StopComponent, ComponentsKept

LEMMA VehicleStepKeeps ==
  ASSUME ReleaseInv, SnapshotWithin, NEW t \in VehicleTasks, VehicleStep(t)
  PROVE  ComponentsKept /\ VehiclesKept
<1>1. ComponentsKept
  BY ZenonT(40) DEF VehicleStep, StartVehicle, LookupVehicleHit, LookupVehicleMiss, UpdateSnapshot,
         InsertVehicle, InsertVehicleConflict, InsertMember, InsertMemberConflict,
         StopVehicle, ComponentsKept, componentVars
<1>2. ASSUME NEW v \in VehicleIds, InsertVehicle(t, v) PROVE VehiclesKept
  BY <1>2 DEF InsertVehicle, VehiclesKept, SnapshotWithin, ReleaseInv, ReleaseTypeOK
<1>3. ASSUME InsertMember(t) PROVE VehiclesKept
  BY ZenonT(40), <1>3, InsertMemberInv DEF InsertMember, VehiclesKept
<1>4. ASSUME UpdateSnapshot(t) PROVE VehiclesKept
  BY <1>4 DEF UpdateSnapshot, VehiclesKept, ReleaseInv, ReleaseTypeOK
<1> QED
  BY <1>1, <1>2, <1>3, <1>4
  DEF VehicleStep, StartVehicle, LookupVehicleHit, LookupVehicleMiss,
      InsertVehicleConflict, InsertMemberConflict, StopVehicle, VehiclesKept

LEMMA SnapshotStep ==
  ReleaseInv /\ SnapshotWithin /\ [ReleaseNext]_releaseVars => SnapshotWithin'
<1> SUFFICES ASSUME ReleaseInv, SnapshotWithin, [ReleaseNext]_releaseVars
             PROVE  SnapshotWithin'
  OBVIOUS
<1> USE ReleaseAssumption
<1>1. ASSUME NEW t \in ComponentTasks, ComponentStep(t) PROVE SnapshotWithin'
  BY ZenonT(40), <1>1 DEF ComponentStep, StartComponent, LookupComponentHit, LookupComponentMiss,
         InsertComponent, InsertComponentConflict, InsertPart, InsertPartConflict,
         StopComponent, SnapshotWithin, vehicleVars
<1>2. ASSUME NEW t \in VehicleTasks, NEW v \in VehicleIds, InsertVehicle(t, v)
      PROVE  SnapshotWithin'
  <2>1. vtask[t].req \in VehicleRequests
    BY <1>2, VehicleAt DEF InsertVehicle, ReleaseInv
  <2>2. [tag |-> vtask[t].req.tag, identity |-> VehicleIdentity(vtask[t].req)] \in VehicleRow
    BY <2>1 DEF VehicleRow, VehicleRequest
  <2> QED
    BY <1>2, <2>2 DEF InsertVehicle, SnapshotWithin, ReleaseInv, ReleaseTypeOK
<1>3. ASSUME NEW t \in VehicleTasks, UpdateSnapshot(t) PROVE SnapshotWithin'
  <2>1. vtask[t].id \in VehicleIds /\ vehicles[vtask[t].id] # None
    <3>1. /\ vtask[t].req \in VehicleRequests /\ vtask[t].id \in VehicleIds
          /\ vehicles[vtask[t].id] =
               [tag |-> vtask[t].req.tag, identity |-> VehicleIdentity(vtask[t].req)]
      BY ZenonT(40), <1>3, VehicleAt DEF UpdateSnapshot, At, ReleaseInv, VehicleTasksSound
    <3> QED
      BY <3>1 DEF VehicleRow, VehicleRequest
  <2> QED
    BY <1>3, <2>1 DEF UpdateSnapshot, SnapshotWithin, ReleaseInv, ReleaseTypeOK
<1> QED
  BY ZenonT(40), <1>1, <1>2, <1>3
  DEF ReleaseNext, VehicleStep, StartVehicle, LookupVehicleHit, LookupVehicleMiss,
      InsertVehicleConflict, InsertMember, InsertMemberConflict, StopVehicle,
      SnapshotWithin, releaseVars

\* Releases are immutable: rows stay, whole releases gain no child row, and the
\* first config snapshot stays.
THEOREM ReleasesNeverChange == ReleaseSpec => ReleasesImmutable
<1>1. ReleaseSpec => []SnapshotWithin
  <2>1. ReleaseInit => SnapshotWithin
    BY DEF ReleaseInit, SnapshotWithin
  <2> QED
    BY <2>1, SnapshotStep, ReleaseInvariant, PTL DEF ReleaseSpec
<1>2. ReleaseInv /\ SnapshotWithin /\ [ReleaseNext]_releaseVars =>
        [ComponentsKept /\ VehiclesKept]_releaseVars
  BY ComponentStepKeeps, VehicleStepKeeps DEF ReleaseNext
<1>3. ReleaseSpec => [][ComponentsKept /\ VehiclesKept]_releaseVars
  BY <1>1, <1>2, ReleaseInvariant, PTL DEF ReleaseSpec
<1> QED
  BY <1>3 DEF ReleasesImmutable
=============================================================================
