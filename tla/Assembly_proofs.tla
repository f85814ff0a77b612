-------------------------- MODULE Assembly_proofs --------------------------
(***************************************************************************)
(* Proofs about Assembly: what a signed L1 carries, that its payloads are  *)
(* served, and that Tower 2's partition, the orchestrator's jobs and the   *)
(* convergence assessment decide alike, for all trees and reports.         *)
(***************************************************************************)
EXTENDS Assembly, TLAPS

\* Time limits of the provers: the time they take varies with the length of the run.
USE SMTT(40), ZenonT(40)

-----------------------------------------------------------------------------
(* The trees.                                                              *)

\* A tree maps paths to entities, and the parts of an entity are contents by part id.
LEMMA TreeFacts ==
  ASSUME NEW t \in Tree
  PROVE  /\ DOMAIN t \subseteq Paths
         /\ \A p \in DOMAIN t : /\ t[p] \in Entity
                                /\ t[p].parts \in Parts
                                /\ DOMAIN t[p].parts \subseteq PartIds
                                /\ \A i \in DOMAIN t[p].parts : t[p].parts[i] \in Contents
PROOF
  <1>1. PICK D \in SUBSET Paths : t \in [D -> Entity]
    BY DEF Tree
  <1>2. DOMAIN t \subseteq Paths /\ \A p \in DOMAIN t : t[p] \in Entity
    BY <1>1
  <1>3. ASSUME NEW p \in DOMAIN t
        PROVE  /\ t[p].parts \in Parts
               /\ DOMAIN t[p].parts \subseteq PartIds
               /\ \A i \in DOMAIN t[p].parts : t[p].parts[i] \in Contents
    <2>1. t[p].parts \in Parts
      BY <1>2, <1>3 DEF Entity
    <2>2. PICK I \in SUBSET PartIds : t[p].parts \in [I -> Contents]
      BY <2>1 DEF Parts
    <2> QED BY <2>1, <2>2
  <1> QED BY <1>2, <1>3

\* The empty function is a tree, and the parts of an entity.
LEMMA NoPartsTyped == NoParts \in Tree /\ NoParts \in Parts /\ DOMAIN NoParts = {}
PROOF
  <1>1. NoParts \in [{} -> Entity] /\ NoParts \in [{} -> Contents]
    BY DEF NoParts
  <1>2. {} \in SUBSET Paths /\ {} \in SUBSET PartIds
    OBVIOUS
  <1> QED BY ZenonT(40), <1>1, <1>2 DEF Tree, Parts, NoParts

-----------------------------------------------------------------------------
(* Tower 2's partition and the L1 (releases.rs).                           *)

\* The three classes are disjoint parts of the target; a component is built or
\* disabled, never both.
LEMMA PartitionFacts ==
  ASSUME NEW t, NEW r
  PROVE  LET parts == Partition(t, r)
         IN /\ parts.included \subseteq {p \in DOMAIN t : ~t[p].disabled}
            /\ parts.disabled \subseteq {p \in DOMAIN t : t[p].disabled}
            /\ \A p \in parts.included : DOMAIN t[p].parts # {}
PROOF BY DEF Partition

\* An L1 is an L2 per component that is built or disabled.
LEMMA L1Typed ==
  ASSUME NEW t \in Tree, NEW r
  PROVE  L1Of(t, Partition(t, r)) \in UNION {[D -> L2] : D \in SUBSET Paths}
PROOF
  <1> DEFINE P == Partition(t, r)
             D == P.included \cup P.disabled
             l1 == L1Of(t, P)
  <1>1. D \subseteq DOMAIN t
    BY PartitionFacts
  <1>2. D \in SUBSET Paths
    BY <1>1, TreeFacts
  <1>3. l1 = [p \in D |-> [disable |-> p \in P.disabled,
                           parts |-> IF p \in P.disabled THEN NoParts ELSE t[p].parts]]
    BY DEF L1Of
  <1> HIDE DEF P, l1
  <1>4. ASSUME NEW p \in D
        PROVE  [disable |-> p \in P.disabled,
                parts |-> IF p \in P.disabled THEN NoParts ELSE t[p].parts] \in L2
    <2>1. t[p].parts \in Parts /\ NoParts \in Parts
      BY <1>1, TreeFacts, NoPartsTyped
    <2>2. (p \in P.disabled) \in BOOLEAN
      OBVIOUS
    <2> QED BY <2>1, <2>2 DEF L2
  <1>5. l1 \in [D -> L2]
    BY <1>3, <1>4
  <1> QED BY <1>2, <1>5 DEF l1, P

\* Tower 2 and the assessment agree: what the partition builds or disables for an
\* observed state, assess_tree calls actionable.
LEMMA PartitionWithinAssessment ==
  ASSUME NEW t, NEW r, r # None
  PROVE  LET parts == Partition(t, r)
         IN parts.included \cup parts.disabled \subseteq AssessTree(r, t).components
PROOF
  <1> DEFINE P == Partition(t, r)
  <1> SUFFICES ASSUME NEW p \in P.included \cup P.disabled
               PROVE  p \in AssessComponents(r, t)
    BY DEF AssessTree
  <1>1. CASE p \in P.disabled
    <2>1. p \in DOMAIN t /\ t[p].disabled /\ AdminAt(r, p) = "enabled"
      BY <1>1 DEF Partition
    <2> QED BY <2>1 DEF AssessComponents
  <1>2. CASE p \in P.included
    <2>1. /\ p \in DOMAIN t /\ ~t[p].disabled
          /\ ~ (AdminAt(r, p) # "disabled" /\ EntityAgreed(r, p, t[p]))
      BY <1>2 DEF Partition
    <2>2. CASE AdminAt(r, p) = "disabled"
      BY <2>1, <2>2 DEF AssessComponents
    <2>3. CASE p \notin DOMAIN r
      BY <2>1, <2>3 DEF AssessComponents, Diff
    <2>4. CASE p \in DOMAIN r /\ AdminAt(r, p) # "disabled"
      <3>1. PICK i \in DOMAIN t[p].parts : t[p].parts[i] \notin ContentsAt(r, p)
        BY <2>1, <2>4 DEF EntityAgreed
      <3>2. i \notin DOMAIN PartsAt(r, p) \/ PartsAt(r, p)[i] # t[p].parts[i]
        BY <3>1 DEF ContentsAt
      <3>3. PartsAt(t, p) = t[p].parts
        BY <2>1 DEF PartsAt
      <3>4. i \in DiffParts(PartsAt(r, p), PartsAt(t, p))
        BY <3>1, <3>2, <3>3 DEF DiffParts
      <3>5. Diff(r, t).parts[p] # {}
        BY <2>1, <3>4 DEF Diff
      <3> QED BY <2>1, <3>5 DEF AssessComponents
    <2> QED BY <2>2, <2>3, <2>4
  <1> QED BY <1>1, <1>2

\* A job pushed manifest-only is of a component that the vehicle reports disabled: any
\* other one whose digests it holds is agreed, and left out of the L1.
LEMMA ManifestOnlyDisabled ==
  ASSUME NEW t, NEW r, r # None,
         NEW p \in DOMAIN L1Jobs(FanOut(L1Of(t, Partition(t, r))), r, None),
         L1Jobs(FanOut(L1Of(t, Partition(t, r))), r, None)[p].manifestOnly
  PROVE  r[p].admin = "disabled"
PROOF
  <1> DEFINE P == Partition(t, r)
             fan == FanOut(L1Of(t, P))
  <1>1. /\ DOMAIN fan = P.included \cup P.disabled
        /\ \A q \in DOMAIN fan :
             fan[q].parts = IF q \in P.disabled THEN NoParts ELSE t[q].parts
    BY ZenonT(40) DEF FanOut, L1Of
  <1> HIDE DEF fan, P
  <1>2. p \in DOMAIN fan /\ p \in DOMAIN r /\ ComponentUnchanged(fan[p], r, p)
    BY DEF L1Jobs, fan, P
  <1>3. p \notin P.disabled
    BY <1>1, <1>2, NoPartsTyped DEF ComponentUnchanged
  <1>4. p \in P.included /\ fan[p].parts = t[p].parts
    BY <1>1, <1>2, <1>3
  <1>5. EntityAgreed(r, p, t[p])
    BY <1>2, <1>4 DEF ComponentUnchanged, EntityAgreed
  <1>6. AdminAt(r, p) = "disabled"
    BY <1>4, <1>5 DEF Partition, P
  <1> QED BY <1>2, <1>6 DEF AdminAt

\* What is pushed in full is of a component that the L1 builds.
LEMMA PushedIncluded ==
  ASSUME NEW t, NEW r, NEW o,
         NEW p \in DOMAIN L1Jobs(FanOut(L1Of(t, Partition(t, r))), o, None),
         ~L1Jobs(FanOut(L1Of(t, Partition(t, r))), o, None)[p].removal
  PROVE  p \in Partition(t, r).included
PROOF
  <1> DEFINE P == Partition(t, r)
             fan == FanOut(L1Of(t, P))
  <1>1. /\ DOMAIN fan = P.included \cup P.disabled
        /\ \A q \in DOMAIN fan : q \in P.disabled => fan[q].removal
    BY ZenonT(40), NoPartsTyped DEF FanOut, L1Of
  <1> HIDE DEF fan, P
  <1>2. p \in DOMAIN fan /\ ~fan[p].removal
    BY DEF L1Jobs, fan, P
  <1> QED BY <1>1, <1>2 DEF P

\* The jobs made of an L1 for the observed state, and the rig that took them.
JobsOf(t, r, only) == L1Jobs(FanOut(L1Of(t, Partition(t, r))), r, only)
RigAfter(t, r, only) == Flashed(r, JobsOf(t, r, only))

\* A job removes what the partition disables and brings the target's parts otherwise.
LEMMA JobFacts ==
  ASSUME NEW t, NEW r, NEW only
  PROVE  LET P == Partition(t, r)
             jobs == JobsOf(t, r, only)
         IN /\ DOMAIN jobs = (P.included \cup P.disabled) \cap Allowed(only) \cap DOMAIN r
            /\ \A p \in DOMAIN jobs :
                 /\ p \in P.disabled => jobs[p].removal /\ jobs[p].parts = NoParts
                 /\ p \in P.included =>
                      /\ ~jobs[p].removal /\ jobs[p].parts = t[p].parts
                      /\ jobs[p].manifestOnly => EntityAgreed(r, p, t[p])
PROOF
  <1> DEFINE P == Partition(t, r)
             fan == FanOut(L1Of(t, P))
             jobs == JobsOf(t, r, only)
  <1>1. /\ DOMAIN fan = P.included \cup P.disabled
        /\ \A p \in DOMAIN fan :
             /\ p \in P.disabled => fan[p].removal /\ fan[p].parts = NoParts
             /\ p \notin P.disabled => ~fan[p].removal /\ fan[p].parts = t[p].parts
    BY ZenonT(40), NoPartsTyped DEF FanOut, L1Of
  <1>2. \A p \in P.included : p \notin P.disabled
    BY PartitionFacts
  <1>3. jobs = L1Jobs(fan, r, only)
    BY DEF JobsOf
  <1> HIDE DEF fan, P, jobs
  <1>4. /\ DOMAIN jobs = DOMAIN fan \cap Allowed(only) \cap DOMAIN r
        /\ \A p \in DOMAIN jobs :
             /\ jobs[p].removal = fan[p].removal /\ jobs[p].parts = fan[p].parts
             /\ jobs[p].manifestOnly = ComponentUnchanged(fan[p], r, p)
    BY <1>3 DEF L1Jobs
  <1>5. ASSUME NEW p \in DOMAIN jobs, p \in P.included, jobs[p].manifestOnly
        PROVE  EntityAgreed(r, p, t[p])
    BY ZenonT(40), <1>1, <1>2, <1>4, <1>5 DEF ComponentUnchanged, EntityAgreed
  <1>6. \A p \in DOMAIN jobs :
          /\ p \in P.disabled => jobs[p].removal /\ jobs[p].parts = NoParts
          /\ p \in P.included => ~jobs[p].removal /\ jobs[p].parts = t[p].parts
    BY <1>1, <1>2, <1>4
  <1>7. DOMAIN jobs = (P.included \cup P.disabled) \cap Allowed(only) \cap DOMAIN r
    BY <1>1, <1>4
  <1> QED BY <1>5, <1>6, <1>7 DEF P, jobs

\* An entity that is disabled, and one whose parts and admin state are replaced.
Removed(e) == [e EXCEPT !.admin = "disabled"]
Replaced(e, ps, a) == [e EXCEPT !.parts = ps, !.admin = a]

\* Both are entities, with the admin state and the parts they were given.
LEMMA EntityEdited ==
  ASSUME NEW e \in Entity, NEW ps \in Parts, NEW a \in Admins
  PROVE  /\ Removed(e) \in Entity /\ Removed(e).admin = "disabled"
         /\ Replaced(e, ps, a) \in Entity
         /\ Replaced(e, ps, a).admin = a /\ Replaced(e, ps, a).parts = ps
PROOF
  <1>1. Removed(e) \in Entity /\ Removed(e).admin = "disabled"
    BY DEF Removed, Entity, Admins
  <1>2. [e EXCEPT !.parts = ps] \in Entity /\ [e EXCEPT !.parts = ps].parts = ps
    BY DEF Entity
  <1> QED BY ZenonT(40), <1>1, <1>2 DEF Entity, Replaced

\* A bank seeded from the active one has all parts that the update carries.
LEMMA SeededFacts ==
  ASSUME NEW ps \in Parts, NEW active \in Parts
  PROVE  /\ Seeded(ps, active) \in Parts
         /\ \A i \in DOMAIN ps : i \in DOMAIN Seeded(ps, active) /\ Seeded(ps, active)[i] = ps[i]
PROOF
  <1>1. PICK D \in SUBSET PartIds : ps \in [D -> Contents]
    BY DEF Parts
  <1>2. PICK E \in SUBSET PartIds : active \in [E -> Contents]
    BY DEF Parts
  <1>3. Seeded(ps, active) \in [D \cup E -> Contents] /\ D \cup E \in SUBSET PartIds
    BY <1>1, <1>2 DEF Seeded
  <1>4. Seeded(ps, active) \in Parts
    BY <1>3 DEF Parts
  <1> QED BY <1>1, <1>4 DEF Seeded

\* What a rig reports of a component after the jobs.
LEMMA AfterFacts ==
  ASSUME NEW t \in Tree, NEW r \in Tree, NEW only, NEW p \in DOMAIN r
  PROVE  LET jobs == JobsOf(t, r, only)
             after == RigAfter(t, r, only)
         IN /\ after[p] \in Entity
            /\ p \notin DOMAIN jobs => after[p] = r[p]
            /\ p \in DOMAIN jobs /\ jobs[p].removal => after[p].admin = "disabled"
            /\ p \in DOMAIN jobs /\ ~jobs[p].removal =>
                 /\ after[p].admin # "disabled"
                 /\ after[p].parts = IF jobs[p].manifestOnly THEN r[p].parts
                                     ELSE Seeded(jobs[p].parts, r[p].parts)
PROOF
  <1> DEFINE jobs == JobsOf(t, r, only)
             after == RigAfter(t, r, only)
  <1>1. r[p] \in Entity
    BY TreeFacts
  <1>2. p \in DOMAIN jobs => jobs[p].parts \in Parts
    <2>1. SUFFICES ASSUME p \in DOMAIN jobs PROVE jobs[p].parts \in Parts
      OBVIOUS
    <2>0. DOMAIN jobs = (Partition(t, r).included \cup Partition(t, r).disabled)
                          \cap Allowed(only) \cap DOMAIN r
      BY ZenonT(40), JobFacts
    <2>2. p \in Partition(t, r).included \/ p \in Partition(t, r).disabled
      BY <2>0, <2>1
    <2>3. CASE p \in Partition(t, r).included
      <3>1. p \in DOMAIN t /\ jobs[p].parts = t[p].parts
        BY ZenonT(40), <2>1, <2>3, JobFacts, PartitionFacts
      <3>2. t[p].parts \in Parts
        BY <3>1, TreeFacts
      <3> QED BY <3>1, <3>2
    <2>4. CASE p \in Partition(t, r).disabled
      <3>1. jobs[p].parts = NoParts
        BY ZenonT(40), <2>1, <2>4, JobFacts
      <3> QED BY <3>1, NoPartsTyped
    <2> QED BY <2>2, <2>3, <2>4
  <1>3. after[p] = IF p \notin DOMAIN jobs THEN r[p]
                   ELSE IF jobs[p].removal THEN [r[p] EXCEPT !.admin = "disabled"]
                   ELSE [r[p] EXCEPT
                           !.parts = IF jobs[p].manifestOnly THEN @ ELSE Seeded(jobs[p].parts, @),
                           !.admin = IF @ = "disabled" THEN "enabled" ELSE @]
    BY DEF RigAfter, Flashed
  <1> HIDE DEF jobs, after
  <1>4. r[p].parts \in Parts /\ r[p].admin \in Admins
    BY <1>1 DEF Entity
  <1>5. CASE p \notin DOMAIN jobs
    BY <1>1, <1>3, <1>5 DEF jobs, after
  <1>6. CASE p \in DOMAIN jobs /\ jobs[p].removal
    <2>1. after[p] = Removed(r[p])
      BY <1>3, <1>6 DEF Removed
    <2>2. Removed(r[p]) \in Entity /\ Removed(r[p]).admin = "disabled"
      BY <1>1, <1>4, EntityEdited
    <2> QED BY <1>6, <2>1, <2>2 DEF jobs, after
  <1>7. CASE p \in DOMAIN jobs /\ ~jobs[p].removal
    <2> DEFINE ps == IF jobs[p].manifestOnly THEN r[p].parts
                     ELSE Seeded(jobs[p].parts, r[p].parts)
               a == IF r[p].admin = "disabled" THEN "enabled" ELSE r[p].admin
    <2>1. after[p] = Replaced(r[p], ps, a)
      BY <1>3, <1>7 DEF Replaced
    <2>2. ps \in Parts /\ a \in Admins /\ a # "disabled"
      BY <1>2, <1>4, <1>7, SeededFacts DEF Admins
    <2> HIDE DEF a, ps
    <2>3. after[p] \in Entity /\ after[p].admin = a /\ after[p].parts = ps
      BY <1>1, <2>1, <2>2, EntityEdited
    <2> QED BY <1>7, <2>2, <2>3 DEF jobs, after, ps
  <1> QED BY <1>5, <1>6, <1>7

\* A rig that took the jobs is left alone: what it advertises of the target and --only
\* lets through is agreed, or is disabled as wanted.
LEMMA FlashedSettled ==
  ASSUME NEW t \in Tree, NEW r \in Tree, NEW only, NEW p \in DOMAIN r, p \in Allowed(only)
  PROVE  LET parts == Partition(t, RigAfter(t, r, only))
         IN p \notin parts.included \cup parts.disabled
PROOF
  <1> DEFINE P == Partition(t, r)
             jobs == JobsOf(t, r, only)
             after == RigAfter(t, r, only)
  <1>1. DOMAIN after = DOMAIN r
    BY DEF RigAfter, Flashed
  <1>2. r # None /\ after # None
    <2>1. after \in [DOMAIN r -> Entity]
      <3>1. after = [q \in DOMAIN r |-> after[q]]
        BY DEF RigAfter, Flashed
      <3> QED BY <3>1, AfterFacts
    <2>2. after \in Tree
      BY <2>1, TreeFacts DEF Tree
    <2> QED BY <2>2, AssemblyAssumption
  <1>0. DOMAIN jobs = (P.included \cup P.disabled) \cap Allowed(only) \cap DOMAIN r
    BY ZenonT(40), JobFacts
  <1>3. p \notin DOMAIN jobs => p \notin P.included /\ p \notin P.disabled
    BY <1>0
  <1>4. p \in DOMAIN jobs => p \in P.included \/ p \in P.disabled
    BY <1>0
  <1> HIDE DEF jobs, after
  <1>5. CASE p \notin DOMAIN jobs
    <2>1. after[p] = r[p]
      BY <1>5, AfterFacts DEF jobs, after
    <2>2. AdminAt(after, p) = AdminAt(r, p) /\ ContentsAt(after, p) = ContentsAt(r, p)
      BY <1>1, <2>1 DEF AdminAt, ContentsAt, PartsAt
    <2> QED BY <1>1, <1>2, <1>3, <1>5, <2>2 DEF Partition, EntityAgreed, after
  <1>6. CASE p \in DOMAIN jobs /\ p \in P.disabled
    <2>1. AdminAt(after, p) = "disabled"
      BY ZenonT(40), <1>1, <1>6, JobFacts, AfterFacts DEF jobs, after, AdminAt
    <2>2. p \in DOMAIN t /\ t[p].disabled
      BY <1>6, PartitionFacts
    <2> QED BY <1>2, <2>1, <2>2 DEF Partition, after
  <1>7. CASE p \in DOMAIN jobs /\ p \in P.included
    <2>1. /\ ~jobs[p].removal /\ jobs[p].parts = t[p].parts
          /\ jobs[p].manifestOnly => EntityAgreed(r, p, t[p])
      BY ZenonT(40), <1>7, JobFacts DEF jobs
    <2>2. /\ after[p].admin # "disabled"
          /\ after[p].parts = IF jobs[p].manifestOnly THEN r[p].parts
                              ELSE Seeded(t[p].parts, r[p].parts)
      BY <1>7, <2>1, AfterFacts DEF jobs, after
    <2>3. AdminAt(after, p) # "disabled" /\ PartsAt(after, p) = after[p].parts
      BY <1>1, <2>2 DEF AdminAt, PartsAt
    <2>4. \A i \in DOMAIN t[p].parts : t[p].parts[i] \in ContentsAt(after, p)
      <3>1. CASE jobs[p].manifestOnly
        <4>1. ContentsAt(after, p) = ContentsAt(r, p)
          BY <2>2, <2>3, <3>1 DEF ContentsAt, PartsAt
        <4> QED BY <2>1, <3>1, <4>1 DEF EntityAgreed
      <3>2. CASE ~jobs[p].manifestOnly
        <4>1. t[p].parts \in Parts /\ r[p].parts \in Parts
          BY <1>7, PartitionFacts, TreeFacts DEF Entity
        <4>2. \A i \in DOMAIN t[p].parts :
                i \in DOMAIN PartsAt(after, p) /\ PartsAt(after, p)[i] = t[p].parts[i]
          BY <2>2, <2>3, <3>2, <4>1, SeededFacts
        <4> QED BY <4>2 DEF ContentsAt
      <3> QED BY <3>1, <3>2
    <2>5. EntityAgreed(after, p, t[p])
      BY <1>1, <2>4 DEF EntityAgreed
    <2>6. p \in DOMAIN t /\ ~t[p].disabled
      BY <1>7, PartitionFacts
    <2> QED BY <1>2, <2>3, <2>5, <2>6 DEF Partition, after
  <1> QED BY <1>4, <1>5, <1>6, <1>7

-----------------------------------------------------------------------------
(* The content core.                                                       *)

ContentTyped ==
  /\ catalog \in [Contents -> (Contents \X Keys) \cup {None}]
  /\ served \subseteq Contents \X Keys

\* Publishing keeps every row of the index as it is, and every row served.
LEMMA PublishKeeps ==
  ASSUME ContentTyped, RowsServed, Core!Next
  PROVE  /\ ContentTyped' /\ RowsServed'
         /\ \A i \in Contents : catalog[i] # None => catalog'[i] = catalog[i]
PROOF
  <1> USE DEF ContentTyped, RowsServed
  <1>1. ASSUME NEW o \in Contents \X Keys, Core!Store(o)
        PROVE  /\ ContentTyped' /\ RowsServed'
               /\ \A i \in Contents : catalog[i] # None => catalog'[i] = catalog[i]
    BY <1>1 DEF Core!Store
  <1>2. ASSUME NEW i \in Contents, NEW k \in Keys, Core!Offer(i, k)
        PROVE  /\ ContentTyped' /\ RowsServed'
               /\ \A j \in Contents : catalog[j] # None => catalog'[j] = catalog[j]
    BY <1>2 DEF Core!Offer
  <1>3. ASSUME NEW i \in Contents, Core!Reuse(i)
        PROVE  /\ ContentTyped' /\ RowsServed'
               /\ \A j \in Contents : catalog[j] # None => catalog'[j] = catalog[j]
    BY <1>3 DEF Core!Reuse
  <1> QED BY <1>1, <1>2, <1>3 DEF Core!Next

-----------------------------------------------------------------------------
(* A request.                                                              *)

\* One more value makes a partial function over a larger domain.
LEMMA WithTyped ==
  ASSUME NEW A, NEW B, NEW f \in UNION {[D -> B] : D \in SUBSET A}, NEW s \in A, NEW v \in B
  PROVE  With(f, s, v) \in UNION {[D -> B] : D \in SUBSET A}
PROOF
  <1>1. PICK D \in SUBSET A : f \in [D -> B]
    OBVIOUS
  <1>2. D \cup {s} \in SUBSET A /\ With(f, s, v) \in [D \cup {s} -> B]
    BY <1>1 DEF With
  <1> QED BY <1>2

\* So it is for the ciphertexts found.
LEMMA OuterWith ==
  ASSUME NEW f \in UNION {[D -> Contents \X Keys] : D \in SUBSET Slot},
         NEW s \in Slot, NEW v \in Contents \X Keys
  PROVE  With(f, s, v) \in UNION {[D -> Contents \X Keys] : D \in SUBSET Slot}
PROOF
  <1> DEFINE B == Contents \X Keys
  <1>1. f \in UNION {[D -> B] : D \in SUBSET Slot} /\ v \in B
    OBVIOUS
  <1> HIDE DEF B
  <1>2. With(f, s, v) \in UNION {[D -> B] : D \in SUBSET Slot}
    BY <1>1, WithTyped, Zenon
  <1> QED BY <1>2 DEF B

\* The slots of some components of a tree are slots, each with a content.
LEMMA SlotFacts ==
  ASSUME NEW t \in Tree, NEW S \in SUBSET DOMAIN t, NEW s \in SlotsOf(t, S)
  PROVE  s \in Slot /\ s[1] \in S /\ t[s[1]].parts[s[2]] \in Contents
PROOF
  <1>1. s \in S \X PartIds /\ s[2] \in DOMAIN t[s[1]].parts
    BY DEF SlotsOf
  <1>2. s[1] \in S /\ s[1] \in DOMAIN t
    BY <1>1
  <1>3. t[s[1]].parts[s[2]] \in Contents
    BY <1>1, <1>2, TreeFacts
  <1>4. S \subseteq Paths
    BY TreeFacts
  <1> QED BY <1>1, <1>2, <1>3, <1>4 DEF Slot

\* So are those that a bundle ships.
LEMMA ShippedFacts ==
  ASSUME NEW r, r.tree \in Tree, NEW s \in Shipped(r)
  PROVE  s \in Slot /\ r.tree[s[1]].parts[s[2]] \in Contents
PROOF
  <1>1. s \in Slot /\ s[1] \in DOMAIN r.tree /\ s[2] \in FlashPlan(r.report, r.tree)[s[1]]
    BY DEF Shipped
  <1>2. s[2] \in DOMAIN r.tree[s[1]].parts
    BY <1>1 DEF FlashPlan
  <1> QED BY <1>1, <1>2, TreeFacts

\* No request is a request.
LEMMA IdleTyped == Idle \in Request
PROOF
  <1>1. /\ NoParts \in [{} -> L2] /\ NoParts \in [{} -> Contents \X Keys]
        /\ NoParts \in [{} -> Bound]
    BY DEF NoParts
  <1>2. {} \in SUBSET Paths /\ {} \in SUBSET Slot
    OBVIOUS
  <1>3. /\ NoParts \in UNION {[D -> L2] : D \in SUBSET Paths}
        /\ NoParts \in UNION {[D -> Contents \X Keys] : D \in SUBSET Slot}
        /\ NoParts \in UNION {[D -> Bound] : D \in SUBSET Paths}
    BY ZenonT(40), <1>1, <1>2
  <1> QED BY ZenonT(40), <1>3, NoPartsTyped DEF Idle, Request, Bound

\* The first state has an empty index and no request.
LEMMA InitInv == Init => Inv
PROOF
  <1> SUFFICES ASSUME Init PROVE Inv
    OBVIOUS
  <1>1. /\ catalog = [i \in Contents |-> None] /\ served = {}
        /\ req = Idle
    BY DEF Init, Core!Init
  <1>2. TypeOK /\ RowsServed
    BY <1>1, IdleTyped DEF TypeOK, RowsServed
  <1>3. req.pc = "idle"
    BY <1>1 DEF Idle
  <1> QED BY <1>2, <1>3 DEF Inv, LookupsSound, EnvelopesSound, AnswerSound, PayloadsServed

-----------------------------------------------------------------------------
(* The steps.                                                              *)

Content(s) == req.tree[s[1]].parts[s[2]]
Building == {"l1", "signed", "jobs", "payload_missing"}
Bundling == {"exists", "bundle"}

\* The parts a request looks up have contents, and what was found is a ciphertext.
LEMMA LookupFacts ==
  ASSUME Inv
  PROVE  /\ req.pc \in Building =>
              \A s \in req.todo \cup DOMAIN req.outer : s \in Slot /\ Content(s) \in Contents
         /\ req.pc \in Bundling =>
              \A s \in req.todo \cup DOMAIN req.outer : s \in Slot /\ Content(s) \in Contents
         /\ \A s \in DOMAIN req.outer : req.outer[s] \in Contents \X Keys /\ req.outer[s] # None
PROOF
  <1>1. /\ req.tree \in Tree
        /\ req.outer \in UNION {[D -> Contents \X Keys] : D \in SUBSET Slot}
    BY DEF Inv, TypeOK, Request, Bound
  <1>2. ASSUME req.pc \in Building
        PROVE  \A s \in req.todo \cup DOMAIN req.outer : s \in Slot /\ Content(s) \in Contents
    <2>1. Partition(req.tree, req.report).included \in SUBSET DOMAIN req.tree
      BY PartitionFacts
    <2>2. req.todo \cup DOMAIN req.outer
            = SlotsOf(req.tree, Partition(req.tree, req.report).included)
      BY <1>2 DEF Inv, LookupsSound, Building
    <2> QED BY <1>1, <2>1, <2>2, SlotFacts DEF Content
  <1>3. ASSUME req.pc \in Bundling
        PROVE  \A s \in req.todo \cup DOMAIN req.outer : s \in Slot /\ Content(s) \in Contents
    <2>1. req.todo \cup DOMAIN req.outer \subseteq Shipped(req)
      BY <1>3 DEF Inv, LookupsSound, Bundling
    <2> QED BY <1>1, <2>1, ShippedFacts DEF Content
  <1>4. \A s \in DOMAIN req.outer : req.outer[s] \in Contents \X Keys /\ req.outer[s] # None
    BY <1>1, AssemblyAssumption
  <1> QED BY <1>2, <1>3, <1>4

\* What an envelope has for a part is a ciphertext's key.
LEMMA EnvelopeBound ==
  ASSUME Inv, NEW p \in DOMAIN req.envelopes, NEW s \in DOMAIN req.envelopes[p]
  PROVE  req.envelopes[p][s] \in Contents \X Keys
PROOF
  <1>1. req.envelopes \in UNION {[D -> Bound] : D \in SUBSET Paths}
    BY DEF Inv, TypeOK, Request
  <1>2. req.envelopes[p] \in Bound
    BY <1>1
  <1> QED BY <1>2 DEF Bound

\* Publishing changes nothing that a request has found.
LEMMA PublishInv ==
  ASSUME Inv, Publish
  PROVE  Inv'
PROOF
  <1>1. ContentTyped /\ RowsServed /\ Core!Next /\ req' = req
    BY DEF Inv, TypeOK, ContentTyped, Publish
  <1>2. /\ ContentTyped' /\ RowsServed'
        /\ \A i \in Contents : catalog[i] # None => catalog'[i] = catalog[i]
    BY <1>1, PublishKeeps
  <1>3. TypeOK'
    BY ZenonT(40), <1>1, <1>2 DEF Inv, TypeOK, ContentTyped
  <1>4. ASSUME req.pc \in Building \cup Bundling, NEW s \in DOMAIN req.outer
        PROVE  req.outer[s] = Wanted(s)'
    <2>1. Content(s) \in Contents /\ req.outer[s] # None
      BY ZenonT(40), <1>4, LookupFacts
    <2>2. req.outer[s] = catalog[Content(s)]
      BY <1>4 DEF Inv, LookupsSound, Wanted, Content, Building, Bundling
    <2> QED BY <1>1, <1>2, <2>1, <2>2 DEF Wanted, Content
  <1>5. LookupsSound'
    BY ZenonT(40), <1>1, <1>4 DEF Inv, LookupsSound, Building, Bundling, Shipped
  <1>7. ASSUME req.pc \in Bundling, NEW p \in DOMAIN req.envelopes, NEW s \in DOMAIN req.envelopes[p]
        PROVE  req.envelopes[p][s] = Wanted(s)'
    <2>1. s \in Shipped(req) /\ req.envelopes[p][s] = catalog[Content(s)]
      BY ZenonT(40), <1>7 DEF Inv, EnvelopesSound, Wanted, Content, Bundling
    <2>2. Content(s) \in Contents
      BY <2>1, ShippedFacts DEF Inv, TypeOK, Request, Content
    <2>3. req.envelopes[p][s] # None
      BY <1>7, EnvelopeBound, AssemblyAssumption
    <2> QED BY <1>1, <1>2, <2>1, <2>2, <2>3 DEF Wanted, Content
  <1>8. EnvelopesSound'
    BY <1>1, <1>7 DEF Inv, EnvelopesSound, Bundling, Shipped
  <1>6. AnswerSound' /\ PayloadsServed'
    BY <1>1 DEF Inv, AnswerSound, PayloadsServed
  <1> QED BY <1>2, <1>3, <1>5, <1>6, <1>8 DEF Inv

\* The index does not change in a step of the request.
LEMMA ContentKept ==
  ASSUME Inv, UNCHANGED content
  PROVE  /\ ContentTyped' /\ RowsServed'
         /\ \A s : req'.tree = req.tree => Wanted(s)' = Wanted(s)
PROOF BY DEF Inv, TypeOK, ContentTyped, RowsServed, content, Wanted

\* The request is over, without a campaign.
LEMMA OverInv ==
  ASSUME Inv, UNCHANGED content, NEW pc \in {"not_found", "no_content"},
         req' \in Request, req'.pc = pc
  PROVE  Inv'
PROOF
  <1>1. TypeOK' /\ RowsServed'
    BY ContentKept DEF TypeOK, ContentTyped
  <1>2. LookupsSound' /\ EnvelopesSound' /\ AnswerSound' /\ PayloadsServed'
    BY DEF LookupsSound, EnvelopesSound, AnswerSound, PayloadsServed
  <1> QED BY <1>1, <1>2 DEF Inv

\* A new request has everything to look up.
LEMMA StartL1Inv ==
  ASSUME Inv, NEW r \in Requests, StartL1(r)
  PROVE  Inv'
PROOF
  <1> DEFINE P == Partition(r.tree, r.report)
  <1>1. r.tree \in Tree /\ r.report \in Tree \cup {None}
    BY AssemblyAssumption
  <1>2. P.included \in SUBSET DOMAIN r.tree
    BY PartitionFacts
  <1>3. SlotsOf(r.tree, P.included) \subseteq Slot
    BY <1>1, <1>2, SlotFacts
  <1>4. req' = [Idle EXCEPT !.pc = "l1", !.tree = r.tree, !.report = r.report,
                            !.todo = SlotsOf(r.tree, P.included)]
    BY DEF StartL1
  <1> HIDE DEF P
  <1>5. Idle \in Request
    BY IdleTyped
  <1>6. /\ req' \in Request
        /\ req'.pc = "l1" /\ req'.tree = r.tree /\ req'.report = r.report
        /\ req'.todo = SlotsOf(r.tree, P.included) /\ req'.outer = NoParts
    BY ZenonT(40), <1>1, <1>3, <1>4, <1>5 DEF Request, Idle
  <1>7. TypeOK' /\ RowsServed'
    BY <1>6, ContentKept DEF TypeOK, ContentTyped, StartL1
  <1>8. LookupsSound'
    BY <1>6, NoPartsTyped DEF LookupsSound, P
  <1>9. EnvelopesSound' /\ AnswerSound' /\ PayloadsServed'
    BY <1>6 DEF EnvelopesSound, AnswerSound, PayloadsServed
  <1> QED BY <1>7, <1>8, <1>9 DEF Inv

\* So has a new bundle.
LEMMA StartBundleInv ==
  ASSUME Inv, NEW r \in Requests, StartBundle(r)
  PROVE  Inv'
PROOF
  <1>1. r.tree \in Tree /\ r.report \in Tree \cup {None}
    BY AssemblyAssumption
  <1>2. Shipped(r) \subseteq Slot
    BY DEF Shipped
  <1>3. /\ req' \in Request
        /\ req'.pc = "exists" /\ req'.tree = r.tree /\ req'.report = r.report
        /\ req'.todo = Shipped(r) /\ req'.outer = NoParts /\ req'.envelopes = NoParts
    BY ZenonT(40), <1>1, <1>2, IdleTyped DEF StartBundle, Request, Idle
  <1>4. TypeOK' /\ RowsServed'
    BY <1>3, ContentKept DEF TypeOK, ContentTyped, StartBundle
  <1>5. AnswerSound' /\ PayloadsServed'
    BY <1>3 DEF AnswerSound, PayloadsServed
  <1>6. LookupsSound' /\ EnvelopesSound'
    BY <1>3, NoPartsTyped DEF LookupsSound, EnvelopesSound, Shipped
  <1> QED BY <1>4, <1>5, <1>6 DEF Inv

\* A lookup that hits binds the part to what the index has, for good.
LEMMA LookupInv ==
  ASSUME Inv, NEW s \in Slot, Lookup(s)
  PROVE  Inv'
PROOF
  <1>1. req.pc = "l1" /\ s \in req.todo /\ req \in Request /\ UNCHANGED content
    BY DEF Lookup, Inv, TypeOK
  <1>2. CASE Wanted(s) = None
    <2>1. req' \in Request /\ req'.pc = "not_found"
      BY <1>1, <1>2 DEF Lookup, Request
    <2> QED BY <1>1, <2>1, OverInv
  <1>3. CASE Wanted(s) # None
    <2> DEFINE found == With(req.outer, s, Wanted(s))
    <2>1. Wanted(s) \in Contents \X Keys
      <3>1. Content(s) \in Contents
        BY <1>1, LookupFacts DEF Building
      <3> QED BY <1>3, <3>1 DEF Inv, TypeOK, Wanted, Content
    <2>2. req.outer \in UNION {[D -> Contents \X Keys] : D \in SUBSET Slot}
      BY <1>1 DEF Request, Bound
    <2>3. found \in UNION {[D -> Contents \X Keys] : D \in SUBSET Slot}
      BY <2>1, <2>2, OuterWith, Zenon
    <2>4. /\ DOMAIN found = DOMAIN req.outer \cup {s}
          /\ found[s] = Wanted(s)
          /\ \A t \in DOMAIN req.outer : t # s => found[t] = req.outer[t]
      BY DEF With
    <2>5. req' = [req EXCEPT !.todo = @ \ {s}, !.outer = found]
      BY <1>3 DEF Lookup
    <2> HIDE DEF found
    <2>6. /\ req' \in Request
          /\ req'.pc = "l1" /\ req'.tree = req.tree /\ req'.report = req.report
          /\ req'.todo = req.todo \ {s} /\ req'.outer = found
      BY ZenonT(40), <1>1, <2>3, <2>5 DEF Request, Bound
    <2>7. TypeOK' /\ RowsServed'
      BY <1>1, <2>6, ContentKept DEF TypeOK, ContentTyped
    <2>8. req.todo \cup DOMAIN req.outer
            = SlotsOf(req.tree, Partition(req.tree, req.report).included)
      BY <1>1 DEF Inv, LookupsSound
    <2>9. req'.todo \cup DOMAIN req'.outer
            = SlotsOf(req'.tree, Partition(req'.tree, req'.report).included)
      BY <1>1, <2>4, <2>6, <2>8
    <2>10. \A t \in DOMAIN req'.outer : req'.outer[t] = Wanted(t)'
      <3>1. \A t \in DOMAIN found : found[t] = Wanted(t)
        BY <1>1, <2>4 DEF Inv, LookupsSound
      <3> QED BY <1>1, <2>6, <3>1, ContentKept
    <2>11. LookupsSound'
      BY <2>6, <2>9, <2>10 DEF LookupsSound
    <2>12. EnvelopesSound' /\ AnswerSound' /\ PayloadsServed'
      BY <2>6 DEF EnvelopesSound, AnswerSound, PayloadsServed
    <2> QED BY ZenonT(40), <2>7, <2>11, <2>12 DEF Inv
  <1> QED BY <1>2, <1>3

\* The campaign is built when nothing is left to look up.
LEMMA AnswerL1Inv ==
  ASSUME Inv, AnswerL1
  PROVE  Inv'
PROOF
  <1> DEFINE P == Partition(req.tree, req.report)
             l1 == L1Of(req.tree, P)
  <1>1. req.pc = "l1" /\ req.todo = {} /\ req \in Request /\ UNCHANGED content
    BY DEF AnswerL1, Inv, TypeOK
  <1>2. PICK pc \in {"signed", "no_content", "not_found"} :
          /\ pc = IF DOMAIN l1 # {} THEN "signed"
                  ELSE IF P.skipped # {} THEN "no_content" ELSE "not_found"
          /\ req' = [req EXCEPT !.l1 = l1, !.pc = pc]
    BY ZenonT(40) DEF AnswerL1
  <1>3. l1 \in UNION {[D -> L2] : D \in SUBSET Paths}
    BY <1>1, L1Typed DEF Request
  <1>4. (pc = "signed") = (DOMAIN l1 # {})
    BY <1>2
  <1>5. req'.l1 = l1 => req'.l1 = L1Of(req.tree, Partition(req.tree, req.report))
    OBVIOUS
  <1> HIDE DEF l1, P
  <1>6. /\ req' \in Request /\ req'.pc = pc
        /\ req'.tree = req.tree /\ req'.report = req.report /\ req'.todo = {}
        /\ req'.outer = req.outer /\ req'.l1 = l1
    BY ZenonT(40), <1>1, <1>2, <1>3 DEF Request
  <1>7. CASE pc # "signed"
    BY <1>1, <1>6, <1>7, OverInv
  <1>8. CASE pc = "signed"
    <2>1. TypeOK' /\ RowsServed'
      BY <1>1, <1>6, ContentKept DEF TypeOK, ContentTyped
    <2>2. \A t \in DOMAIN req.outer : req.outer[t] = Wanted(t)'
      BY <1>1, <1>6, ContentKept DEF Inv, LookupsSound
    <2>3. LookupsSound'
      BY <1>1, <1>6, <1>8, <2>2 DEF Inv, LookupsSound
    <2>4. EnvelopesSound' /\ AnswerSound' /\ PayloadsServed'
      BY <1>4, <1>5, <1>6, <1>8 DEF EnvelopesSound, AnswerSound, PayloadsServed
    <2> QED BY <2>1, <2>3, <2>4 DEF Inv
  <1> QED BY <1>7, <1>8

\* Every blob that is fetched is served: it is of a part that the L1 builds, so it was
\* found in the index, and the index names served blobs only.
LEMMA FetchBlobsInv ==
  ASSUME Inv, FetchBlobs
  PROVE  Inv'
PROOF
  <1> DEFINE pushed == {p \in DOMAIN Jobs : ~Jobs[p].removal /\ ~Jobs[p].manifestOnly}
             wanted == SlotsOf(req.tree, pushed)
             fetched == {s \in wanted : req.outer[s] \in served}
  <1>1. req.pc = "signed" /\ req.report # None /\ req \in Request /\ UNCHANGED content
    BY DEF FetchBlobs, Inv, TypeOK
  <1>2. req' = [req EXCEPT !.pc = IF fetched = wanted THEN "jobs" ELSE "payload_missing"]
    BY DEF FetchBlobs
  <1>3. /\ req.todo = {} /\ DOMAIN req.l1 # {}
        /\ req.l1 = L1Of(req.tree, Partition(req.tree, req.report))
        /\ DOMAIN req.outer = SlotsOf(req.tree, Partition(req.tree, req.report).included)
        /\ \A s \in DOMAIN req.outer : req.outer[s] = Wanted(s)
    BY <1>1 DEF Inv, AnswerSound, LookupsSound
  <1>4. pushed \subseteq Partition(req.tree, req.report).included
    BY <1>3, PushedIncluded DEF Jobs
  <1> HIDE DEF pushed
  <1>5. wanted \subseteq DOMAIN req.outer
    BY <1>3, <1>4 DEF SlotsOf
  <1>6. \A s \in DOMAIN req.outer : req.outer[s] \in served
    <2> TAKE s \in DOMAIN req.outer
    <2>1. Content(s) \in Contents /\ req.outer[s] # None
      BY <1>1, LookupFacts DEF Building
    <2>2. req.outer[s] = catalog[Content(s)]
      BY <1>3 DEF Wanted, Content
    <2> QED BY <2>1, <2>2 DEF Inv, RowsServed
  <1>7. fetched = wanted
    BY <1>5, <1>6
  <1> HIDE DEF wanted, fetched
  <1>8. /\ req' \in Request /\ req'.pc = "jobs"
        /\ req'.tree = req.tree /\ req'.report = req.report /\ req'.todo = req.todo
        /\ req'.outer = req.outer /\ req'.l1 = req.l1
    BY <1>1, <1>2, <1>7 DEF Request
  <1>9. TypeOK' /\ RowsServed'
    BY <1>1, <1>8, ContentKept DEF TypeOK, ContentTyped
  <1>10. \A t \in DOMAIN req.outer : req.outer[t] = Wanted(t)'
    BY <1>1, <1>3, <1>8, ContentKept
  <1>11. LookupsSound'
    BY <1>3, <1>8, <1>10 DEF LookupsSound
  <1>12. EnvelopesSound' /\ AnswerSound' /\ PayloadsServed'
    BY <1>1, <1>3, <1>8 DEF EnvelopesSound, AnswerSound, PayloadsServed
  <1> QED BY <1>9, <1>11, <1>12 DEF Inv

\* A part that is looked up for a bundle is kept only when the index has it.
LEMMA ArtifactExistsInv ==
  ASSUME Inv, NEW s \in Slot, ArtifactExists(s)
  PROVE  Inv'
PROOF
  <1> DEFINE found == IF Wanted(s) = None THEN req.outer ELSE With(req.outer, s, Wanted(s))
  <1>1. req.pc = "exists" /\ s \in req.todo /\ req \in Request /\ UNCHANGED content
    BY DEF ArtifactExists, Inv, TypeOK
  <1>2. req' = [req EXCEPT !.todo = @ \ {s}, !.outer = found]
    BY DEF ArtifactExists
  <1>3. found \in UNION {[D -> Contents \X Keys] : D \in SUBSET Slot}
    <2>1. req.outer \in UNION {[D -> Contents \X Keys] : D \in SUBSET Slot}
      BY <1>1 DEF Request, Bound
    <2>2. Content(s) \in Contents
      BY ZenonT(40), <1>1, LookupFacts DEF Bundling
    <2>3. Wanted(s) # None => Wanted(s) \in Contents \X Keys
      BY <2>2 DEF Inv, TypeOK, Wanted, Content
    <2>4. CASE Wanted(s) = None
      BY <2>1, <2>4
    <2>5. CASE Wanted(s) # None
      BY <2>1, <2>3, <2>5, OuterWith
    <2> QED BY <2>4, <2>5
  <1>4. /\ req.todo \cup DOMAIN req.outer \subseteq Shipped(req)
        /\ \A t \in DOMAIN req.outer : req.outer[t] = Wanted(t)
    BY <1>1 DEF Inv, LookupsSound
  <1>5. /\ DOMAIN found \subseteq Shipped(req)
        /\ \A t \in DOMAIN found : found[t] = Wanted(t)
    BY <1>1, <1>4 DEF With
  <1> HIDE DEF found
  <1>6. /\ req' \in Request /\ req'.pc = "exists"
        /\ req'.tree = req.tree /\ req'.report = req.report /\ req'.todo = req.todo \ {s}
        /\ req'.outer = found /\ req'.envelopes = req.envelopes
    BY ZenonT(40), <1>1, <1>2, <1>3 DEF Request, Bound
  <1>7. TypeOK' /\ RowsServed'
    BY <1>1, <1>6, ContentKept DEF TypeOK, ContentTyped
  <1>8. Shipped(req') = Shipped(req) /\ \A t : Wanted(t)' = Wanted(t)
    BY <1>1, <1>6, ContentKept DEF Shipped
  <1>9. LookupsSound'
    BY <1>4, <1>5, <1>6, <1>8 DEF LookupsSound
  <1>10. EnvelopesSound'
    BY <1>1, <1>6, <1>8 DEF Inv, EnvelopesSound
  <1>11. AnswerSound' /\ PayloadsServed'
    BY <1>6 DEF AnswerSound, PayloadsServed
  <1> QED BY <1>7, <1>9, <1>10, <1>11 DEF Inv

\* An envelope is made of parts to ship, or the bundle ends.
LEMMA CreateEnvelopeInv ==
  ASSUME Inv, NEW p \in Paths, CreateEnvelope(p)
  PROVE  Inv'
PROOF
  <1> DEFINE ship == {s \in Shipped(req) : s[1] = p}
  <1>1. req.pc = "exists" /\ req.todo = {} /\ req \in Request /\ UNCHANGED content
    BY DEF CreateEnvelope, Inv, TypeOK
  <1>2. CASE \E s \in ship : Wanted(s) = None
    <2>1. req' \in Request /\ req'.pc = "not_found"
      BY <1>1, <1>2 DEF CreateEnvelope, Request
    <2> QED BY <1>1, <2>1, OverInv
  <1>3. CASE ~ \E s \in ship : Wanted(s) = None
    <2> DEFINE bound == [s \in ship |-> Wanted(s)]
               made == With(req.envelopes, p, bound)
    <2>1. req' = [req EXCEPT !.envelopes = made]
      BY <1>3 DEF CreateEnvelope
    <2>2. bound \in Bound
      <3>1. ASSUME NEW s \in ship PROVE s \in Slot /\ Wanted(s) \in Contents \X Keys
        <4>1. s \in Slot /\ Content(s) \in Contents
          BY <1>1, <3>1, ShippedFacts DEF Request, Content
        <4> QED BY <1>3, <3>1, <4>1 DEF Inv, TypeOK, Wanted, Content
      <3>2. ship \in SUBSET Slot /\ bound \in [ship -> Contents \X Keys]
        BY <3>1
      <3> QED BY ZenonT(40), <3>2 DEF Bound
    <2>3. made \in UNION {[D -> Bound] : D \in SUBSET Paths}
      <3>1. req.envelopes \in UNION {[D -> Bound] : D \in SUBSET Paths}
        BY <1>1 DEF Request
      <3> HIDE DEF bound
      <3> QED BY <2>2, <3>1, WithTyped, Zenon
    <2>4. /\ DOMAIN made = DOMAIN req.envelopes \cup {p} /\ made[p] = bound
          /\ \A q \in DOMAIN req.envelopes : q # p => made[q] = req.envelopes[q]
      BY DEF With
    <2>5. DOMAIN bound = ship /\ \A s \in ship : bound[s] = Wanted(s)
      OBVIOUS
    <2> HIDE DEF made, bound
    <2>6. /\ req' \in Request /\ req'.pc = "exists" /\ req'.todo = {} /\ req'.outer = req.outer
          /\ req'.tree = req.tree /\ req'.report = req.report /\ req'.envelopes = made
      BY <1>1, <2>1, <2>3 DEF Request
    <2>7. TypeOK' /\ RowsServed'
      BY <1>1, <2>6, ContentKept DEF TypeOK, ContentTyped
    <2>8. Shipped(req') = Shipped(req) /\ \A t : Wanted(t)' = Wanted(t)
      BY <1>1, <2>6, ContentKept DEF Shipped
    <2>9. LookupsSound'
      BY <1>1, <2>6, <2>8 DEF Inv, LookupsSound
    <2>10. ASSUME NEW q \in DOMAIN made
           PROVE  /\ DOMAIN made[q] = {s \in Shipped(req) : s[1] = q}
                  /\ \A s \in DOMAIN made[q] : made[q][s] = Wanted(s)
      <3>1. CASE q = p
        BY <2>4, <2>5, <3>1
      <3>2. CASE q # p
        BY <1>1, <2>4, <2>10, <3>2 DEF Inv, EnvelopesSound
      <3> QED BY <3>1, <3>2
    <2>11. EnvelopesSound'
      BY <2>6, <2>8, <2>10 DEF EnvelopesSound
    <2>12. AnswerSound' /\ PayloadsServed'
      BY <2>6 DEF AnswerSound, PayloadsServed
    <2> QED BY <2>7, <2>9, <2>11, <2>12 DEF Inv
  <1> QED BY <1>2, <1>3

\* A bundle is finished with an envelope for every component that ships.
LEMMA FinishBundleInv ==
  ASSUME Inv, FinishBundle
  PROVE  Inv'
PROOF
  <1>1. /\ req.pc = "exists" /\ req.todo = {} /\ req \in Request /\ UNCHANGED content
        /\ DOMAIN req.envelopes = {s[1] : s \in Shipped(req)}
    BY DEF FinishBundle, Inv, TypeOK
  <1>2. /\ req' \in Request /\ req'.pc = "bundle" /\ req'.todo = {} /\ req'.outer = req.outer
        /\ req'.tree = req.tree /\ req'.report = req.report /\ req'.envelopes = req.envelopes
    BY <1>1 DEF FinishBundle, Request
  <1>3. TypeOK' /\ RowsServed'
    BY <1>1, <1>2, ContentKept DEF TypeOK, ContentTyped
  <1>4. Shipped(req') = Shipped(req) /\ \A t : Wanted(t)' = Wanted(t)
    BY <1>1, <1>2, ContentKept DEF Shipped
  <1>5. LookupsSound'
    BY <1>1, <1>2, <1>4 DEF Inv, LookupsSound
  <1>6. EnvelopesSound'
    BY <1>1, <1>2, <1>4 DEF Inv, EnvelopesSound
  <1>7. AnswerSound' /\ PayloadsServed'
    BY <1>2 DEF AnswerSound, PayloadsServed
  <1> QED BY <1>3, <1>5, <1>6, <1>7 DEF Inv

\* A step of Next preserves the invariant.
LEMMA NextInv ==
  ASSUME Inv, [Next]_vars
  PROVE  Inv'
PROOF
  <1>1. CASE Publish
    BY <1>1, PublishInv
  <1>2. ASSUME NEW r \in Requests, StartL1(r) \/ StartBundle(r) PROVE Inv'
    BY <1>2, StartL1Inv, StartBundleInv
  <1>3. ASSUME NEW s \in Slot, Lookup(s) \/ ArtifactExists(s) PROVE Inv'
    BY <1>3, LookupInv, ArtifactExistsInv
  <1>4. CASE AnswerL1 \/ FetchBlobs
    BY ZenonT(40), <1>4, AnswerL1Inv, FetchBlobsInv
  <1>5. CASE FinishBundle
    BY <1>5, FinishBundleInv
  <1>6. CASE Again
    <2>1. req' = Idle /\ UNCHANGED content
      BY <1>6 DEF Again
    <2>2. TypeOK' /\ RowsServed'
      BY <2>1, ContentKept, IdleTyped DEF TypeOK, ContentTyped
    <2>3. req'.pc = "idle"
      BY <2>1 DEF Idle
    <2> QED BY <2>2, <2>3 DEF Inv, LookupsSound, EnvelopesSound, AnswerSound, PayloadsServed
  <1>7. ASSUME NEW p \in Paths, CreateEnvelope(p) PROVE Inv'
    BY <1>7, CreateEnvelopeInv
  <1>8. CASE UNCHANGED vars
    <2>1. UNCHANGED <<catalog, served, req>>
      BY <1>8 DEF vars
    <2>2. \A s : Wanted(s)' = Wanted(s)
      BY ZenonT(40), <2>1 DEF Wanted
    <2>3. TypeOK' /\ RowsServed' /\ AnswerSound' /\ PayloadsServed'
      BY ZenonT(40), <2>1 DEF Inv, TypeOK, RowsServed, AnswerSound, PayloadsServed
    <2>4. LookupsSound' /\ EnvelopesSound'
      BY <2>1, <2>2 DEF Inv, LookupsSound, EnvelopesSound, Shipped
    <2> QED BY <2>3, <2>4 DEF Inv
  <1> QED BY <1>1, <1>2, <1>3, <1>4, <1>5, <1>6, <1>7, <1>8 DEF Next

-----------------------------------------------------------------------------
(* The theorems.                                                           *)

\* Every state that Assembly reaches satisfies the inductive invariant.
THEOREM AssemblyInvariant == Spec => []Inv
PROOF BY InitInv, NextInv, PTL DEF Spec

\* The request and the content core keep their types.
THEOREM AssemblyTypeOK == Spec => []TypeOK
PROOF
  <1>1. Inv => TypeOK
    BY DEF Inv
  <1> QED BY <1>1, AssemblyInvariant, PTL

\* channel_target_l1 signs whole campaigns only: every component that its partition
\* builds or disables, every part bound to the index's ciphertext, however the
\* lookups interleave with publications.
THEOREM CampaignsAlwaysWhole == Spec => []CampaignWhole
PROOF
  <1>1. ASSUME Inv PROVE CampaignWhole
    <2> SUFFICES ASSUME req.pc \in {"signed", "jobs"}
                 PROVE  LET parts == Partition(req.tree, req.report)
                        IN /\ DOMAIN req.l1 = parts.included \cup parts.disabled
                           /\ DOMAIN req.outer = SlotsOf(req.tree, parts.included)
                           /\ \A s \in DOMAIN req.outer : req.outer[s] = Wanted(s)
      BY DEF CampaignWhole
    <2>1. req.l1 = L1Of(req.tree, Partition(req.tree, req.report)) /\ req.todo = {}
      BY <1>1 DEF Inv, AnswerSound
    <2>2. DOMAIN req.l1 = Partition(req.tree, req.report).included
                            \cup Partition(req.tree, req.report).disabled
      BY <2>1 DEF L1Of
    <2> QED BY <1>1, <2>1, <2>2 DEF Inv, LookupsSound
  <1> QED BY <1>1, AssemblyInvariant, PTL

\* The orchestrator never meets PayloadMissing on a signed L1.
THEOREM PayloadsAlwaysServed == Spec => []PayloadsServed
PROOF
  <1>1. Inv => PayloadsServed
    BY DEF Inv
  <1> QED BY <1>1, AssemblyInvariant, PTL

\* A signed L1 carries components that assess_tree calls actionable, and no other.
THEOREM DispatchAlwaysAssessed == Spec => []DispatchWithinAssessment
PROOF
  <1>1. ASSUME Inv PROVE DispatchWithinAssessment
    <2> SUFFICES ASSUME req.pc = "signed", req.report # None
                 PROVE  DOMAIN req.l1 \subseteq AssessTree(req.report, req.tree).components
      BY DEF DispatchWithinAssessment
    <2>1. DOMAIN req.l1 = Partition(req.tree, req.report).included
                            \cup Partition(req.tree, req.report).disabled
      BY ZenonT(40), <1>1 DEF Inv, AnswerSound, L1Of
    <2> QED BY <2>1, PartitionWithinAssessment
  <1> QED BY <1>1, AssemblyInvariant, PTL

\* Neither gate of `rig campaign` hides work, for any --only: what Tower 2 signs is in
\* the assessment, and what the rig advertises of it is not on other components only.
THEOREM GatesAlwaysOpen == Spec => []GatesHideNoWork
PROOF
  <1>1. ASSUME Inv PROVE GatesHideNoWork
    <2> SUFFICES ASSUME req.pc = "signed", req.report # None,
                        NEW only \in (SUBSET Paths) \cup {None}
                 PROVE  LET plan == ApplyPlan(req.report, req.tree, None)
                        IN /\ DOMAIN req.l1 \cap Allowed(only) # {} => CampaignHasWork(plan, only)
                           /\ DOMAIN L1Jobs(FanOut(req.l1), req.report, only) # {} =>
                                ~CampaignDeferred(plan, only)
      BY DEF GatesHideNoWork
    <2> DEFINE plan == ApplyPlan(req.report, req.tree, None)
               actionable == AssessTree(req.report, req.tree).components
    <2>1. DOMAIN req.l1 = Partition(req.tree, req.report).included
                            \cup Partition(req.tree, req.report).disabled
      BY <1>1 DEF Inv, AnswerSound, L1Of
    <2>2. DOMAIN req.l1 \subseteq actionable
      BY <2>1, PartitionWithinAssessment
    <2>3. plan.assessment = AssessTree(req.report, req.tree)
      BY DEF ApplyPlan
    <2>4. DOMAIN req.l1 \cap Allowed(only) # {} => CampaignHasWork(plan, only)
      BY <2>2, <2>3 DEF CampaignHasWork
    <2>5. ASSUME NEW p \in DOMAIN L1Jobs(FanOut(req.l1), req.report, only)
          PROVE  ~CampaignDeferred(plan, only)
      <3>1. p \in DOMAIN req.l1 /\ p \in DOMAIN req.report
        BY <2>5 DEF L1Jobs, FanOut
      <3>2. p \in actionable \cap DOMAIN req.report
        BY ZenonT(40), <2>2, <3>1
      <3>3. AssessTree(req.report, req.tree).outcome = "actionable"
        BY <3>2 DEF AssessTree
      <3> QED BY ZenonT(40), <2>3, <3>3 DEF CampaignDeferred
    <2> QED BY ZenonT(40), <2>4, <2>5
  <1> QED BY <1>1, AssemblyInvariant, PTL

\* A manifest-only push only brings a disabled component back.
THEOREM ManifestOnlyAlwaysReenables == Spec => []ManifestOnlyReenables
PROOF
  <1>1. ASSUME Inv PROVE ManifestOnlyReenables
    <2> SUFFICES ASSUME req.pc = "jobs", NEW p \in DOMAIN Jobs, Jobs[p].manifestOnly
                 PROVE  req.report[p].admin = "disabled"
      BY DEF ManifestOnlyReenables
    <2>1. /\ req.l1 = L1Of(req.tree, Partition(req.tree, req.report))
          /\ req.report # None
      BY <1>1 DEF Inv, AnswerSound
    <2> QED BY <2>1, ManifestOnlyDisabled DEF Jobs
  <1> QED BY <1>1, AssemblyInvariant, PTL

\* A rig that took the jobs of an L1 gets nothing more for what it advertises and --only
\* lets through, for all targets and observed states.
THEOREM OneFlashAlwaysSettles == Spec => []OneFlashSettles
PROOF
  <1>1. ASSUME Inv PROVE OneFlashSettles
    <2> SUFFICES ASSUME req.pc = "jobs", NEW only \in (SUBSET Paths) \cup {None}
                 PROVE  LET after == Flashed(req.report, L1Jobs(FanOut(req.l1), req.report, only))
                            parts == Partition(req.tree, after)
                        IN (parts.included \cup parts.disabled) \cap Allowed(only)
                             \cap DOMAIN after = {}
      BY DEF OneFlashSettles
    <2> DEFINE after == RigAfter(req.tree, req.report, only)
    <2>1. /\ req.l1 = L1Of(req.tree, Partition(req.tree, req.report))
          /\ req.tree \in Tree /\ req.report \in Tree
      BY <1>1 DEF Inv, AnswerSound, TypeOK, Request
    <2>2. after = Flashed(req.report, L1Jobs(FanOut(req.l1), req.report, only))
      BY <2>1 DEF RigAfter, JobsOf
    <2>3. DOMAIN after = DOMAIN req.report
      BY DEF RigAfter, Flashed
    <2> HIDE DEF after
    <2>4. \A p \in DOMAIN req.report \cap Allowed(only) :
            p \notin Partition(req.tree, after).included \cup Partition(req.tree, after).disabled
      BY <2>1, FlashedSettled DEF after
    <2> QED BY ZenonT(40), <2>2, <2>3, <2>4
  <1> QED BY <1>1, AssemblyInvariant, PTL

\* Every payload of a bundle is the ciphertext that its envelope has the key of, and is
\* served, however publications fall between the two lookups of its part.
THEOREM BundlesDecrypt == Spec => []BundleDecrypts
PROOF
  <1>1. ASSUME Inv PROVE BundleDecrypts
    <2> SUFFICES ASSUME req.pc = "bundle", NEW s \in DOMAIN req.outer
                 PROVE  /\ s[1] \in DOMAIN req.envelopes
                        /\ s \in DOMAIN req.envelopes[s[1]]
                        /\ req.outer[s] = req.envelopes[s[1]][s]
                        /\ req.outer[s] \in served
      BY DEF BundleDecrypts
    <2>1. s \in Shipped(req) /\ req.outer[s] = Wanted(s)
      BY <1>1 DEF Inv, LookupsSound
    <2>2. s[1] \in DOMAIN req.envelopes
      BY <1>1, <2>1 DEF Inv, EnvelopesSound
    <2>3. s \in DOMAIN req.envelopes[s[1]] /\ req.envelopes[s[1]][s] = Wanted(s)
      BY <1>1, <2>1, <2>2 DEF Inv, EnvelopesSound
    <2>4. Content(s) \in Contents /\ req.outer[s] # None
      BY ZenonT(40), <1>1, LookupFacts DEF Bundling
    <2>5. req.outer[s] \in served
      BY <1>1, <2>1, <2>4 DEF Inv, RowsServed, Wanted, Content
    <2> QED BY <2>1, <2>2, <2>3, <2>5
  <1> QED BY <1>1, AssemblyInvariant, PTL
=============================================================================
