-------------------------- MODULE Campaign_proofs --------------------------
(***************************************************************************)
(* Proofs about Campaign, for any operators: the rig and the commands keep *)
(* their types, and the rig is updated as RigUpdates promises.  On a rig   *)
(* that serves x-update-state, of the campaigns that no other operator     *)
(* disturbed: transactions are of one release, steps start on a resolved   *)
(* node, and aborted steps are undone.                                     *)
(***************************************************************************)
EXTENDS Campaign, TLAPS

\* Time limits of the provers: the time they take varies with the length of the run.
USE SMTT(40), ZenonT(40)

-----------------------------------------------------------------------------
(* The rig and its engine calls.                                           *)

\* What is staged or in trial.
Pending == Staged \cup rig.trial

\* The fields of the rig.
LEMMA RigFields ==
  ASSUME rig \in Rig
  PROVE  /\ rig.active \in [Paths -> Images] /\ rig.committed \in [Paths -> Images]
         /\ rig.staged \in [Paths -> Images] /\ rig.admin \in [Paths -> Admins]
         /\ rig.trial \subseteq Paths /\ rig.trial \cap Irreversible = {}
PROOF BY DEF Rig

\* The node is idle when nothing is pending.
LEMMA PhaseIdle == (Phase = "Idle") <=> (Pending = {})
PROOF BY DEF Phase, Pending

\* A reset puts what it boots in trial, and leaves what is committed.
LEMMA ActivateRig ==
  ASSUME rig \in Rig, RigSound, NEW S \in SUBSET Staged, rig' = Activate(S),
         UNCHANGED <<offered, origin>>
  PROVE  /\ rig' \in Rig /\ RigSound' /\ Pending' = Pending
         /\ Staged' = Staged \ S /\ rig'.committed = rig.committed
         /\ rig'.active = [p \in Paths |-> IF p \in S THEN rig.staged[p] ELSE rig.active[p]]
PROOF
  <1>1. /\ S \subseteq Paths /\ S \cap Irreversible = {}
        /\ \A p \in Paths : p \in Staged <=> rig.staged[p] # None
    BY DEF Staged, RigSound
  <1>2. /\ rig'.active = [p \in Paths |-> IF p \in S THEN rig.staged[p] ELSE rig.active[p]]
        /\ rig'.staged = [p \in Paths |-> IF p \in S THEN None ELSE rig.staged[p]]
        /\ rig'.committed = rig.committed
        /\ rig'.trial = rig.trial \cup S
        /\ rig'.admin = [p \in Paths |-> IF p \in S /\ rig.admin[p] = "disabled" THEN "enabled"
                                         ELSE rig.admin[p]]
    BY DEF Activate, Rig
  <1>3. rig' \in Rig
    <2>1. /\ rig'.active \in [Paths -> Images] /\ rig'.staged \in [Paths -> Images]
          /\ rig'.committed \in [Paths -> Images] /\ rig'.admin \in [Paths -> Admins]
      BY <1>2, RigFields DEF Images, Admins
    <2>2. rig'.trial \in SUBSET (Paths \ Irreversible)
      BY <1>1, <1>2, RigFields
    <2>3. rig' = [active |-> rig'.active, committed |-> rig'.committed, staged |-> rig'.staged,
                  trial |-> rig'.trial, admin |-> rig'.admin]
      BY ZenonT(40) DEF Activate, Rig
    <2> QED BY <2>1, <2>2, <2>3 DEF Rig
  <1>4. Staged' = Staged \ S
    BY <1>1, <1>2 DEF Staged
  <1>5. Pending' = Pending
    BY <1>2, <1>4 DEF Pending
  <1>6. RigSound'
    <2>1. \A p \in Staged' : p \notin Irreversible /\ \E r \in offered' : rig'.staged[p] = Image(r, p)
      BY <1>2, <1>4 DEF RigSound, Staged
    <2>2. \A p \in Paths \ rig'.trial : rig'.active[p] = rig'.committed[p]
      BY <1>2 DEF RigSound
    <2>3. \A p \in Staged' \cup rig'.trial : origin'[p] # None
      BY <1>2, <1>4 DEF RigSound
    <2> QED BY <2>1, <2>2, <2>3 DEF RigSound
  <1> QED BY <1>2, <1>3, <1>4, <1>5, <1>6

\* A commit settles what runs.
LEMMA CommitRig ==
  ASSUME rig \in Rig, RigSound, NEW S \in SUBSET Paths, rig' = CommitTrial(S),
         UNCHANGED <<offered, origin>>
  PROVE  /\ rig' \in Rig /\ RigSound' /\ Pending' \subseteq Pending
         /\ Staged' = Staged /\ rig'.trial = rig.trial \ S /\ rig'.active = rig.active
         /\ rig'.committed = [p \in Paths |-> IF p \in S THEN rig.active[p] ELSE rig.committed[p]]
PROOF
  <1>1. /\ rig'.active = rig.active /\ rig'.staged = rig.staged /\ rig'.admin = rig.admin
        /\ rig'.committed = [p \in Paths |-> IF p \in S THEN rig.active[p] ELSE rig.committed[p]]
        /\ rig'.trial = rig.trial \ S
    BY DEF CommitTrial, Rig
  <1>2. rig' \in Rig
    <2>1. rig'.committed \in [Paths -> Images]
      BY <1>1, RigFields
    <2>2. rig'.trial \in SUBSET (Paths \ Irreversible)
      BY <1>1, RigFields
    <2>3. rig' = [active |-> rig'.active, committed |-> rig'.committed, staged |-> rig'.staged,
                  trial |-> rig'.trial, admin |-> rig'.admin]
      BY ZenonT(40) DEF CommitTrial, Rig
    <2> QED BY <1>1, <2>1, <2>2, <2>3, RigFields DEF Rig
  <1>3. Staged' = Staged
    BY <1>1 DEF Staged
  <1>4. RigSound' /\ Pending' \subseteq Pending
    BY <1>1, <1>3 DEF RigSound, Pending
  <1> QED BY <1>1, <1>2, <1>3, <1>4

\* A rollback brings back what is committed, and drops what is only staged.
LEMMA RollbackRig ==
  ASSUME rig \in Rig, RigSound, NEW S \in SUBSET Paths, rig' = RollbackTrial(S),
         UNCHANGED <<offered, origin>>
  PROVE  /\ rig' \in Rig /\ RigSound' /\ Pending' \subseteq Pending
         /\ Staged' \subseteq Staged /\ rig'.trial = rig.trial \ S
         /\ rig'.committed = rig.committed
         /\ rig'.active = [p \in Paths |-> IF p \in S THEN rig.committed[p] ELSE rig.active[p]]
PROOF
  <1>1. /\ rig'.active = [p \in Paths |-> IF p \in S THEN rig.committed[p] ELSE rig.active[p]]
        /\ rig'.staged = [p \in Paths |-> IF p \in S THEN None ELSE rig.staged[p]]
        /\ rig'.committed = rig.committed /\ rig'.admin = rig.admin
        /\ rig'.trial = rig.trial \ S
    BY DEF RollbackTrial, Rig
  <1>2. rig' \in Rig
    <2>1. rig'.active \in [Paths -> Images] /\ rig'.staged \in [Paths -> Images]
      BY <1>1, RigFields DEF Images
    <2>2. rig'.trial \in SUBSET (Paths \ Irreversible)
      BY <1>1, RigFields
    <2>3. rig' = [active |-> rig'.active, committed |-> rig'.committed, staged |-> rig'.staged,
                  trial |-> rig'.trial, admin |-> rig'.admin]
      BY ZenonT(40) DEF RollbackTrial, Rig
    <2> QED BY <1>1, <2>1, <2>2, <2>3, RigFields DEF Rig
  <1>3. Staged' \subseteq Staged /\ \A p \in Staged' : rig'.staged[p] = rig.staged[p]
    BY <1>1 DEF Staged
  <1>4. RigSound' /\ Pending' \subseteq Pending
    BY <1>1, <1>3 DEF RigSound, Pending
  <1> QED BY <1>1, <1>2, <1>3, <1>4

\* The image among some parts is an image.
LEMMA ImageTyped ==
  ASSUME NEW parts \in Parts
  PROVE  ImageOf(parts) \in Images
PROOF
  <1>1. PICK I \in SUBSET PartIds : parts \in [I -> Contents]
    BY DEF Parts
  <1> QED BY <1>1 DEF ImageOf, Images

\* What Stage records of a staged component.
Recorded(p, by) ==
  [q \in Paths |-> IF q = p THEN by ELSE IF q \in Pending THEN origin[q] ELSE None]

\* Staging for an offered release writes through on a singleshot, and otherwise leaves
\* what runs and what is committed.
LEMMA StageRig ==
  ASSUME rig \in Rig, RigSound, origin \in [Paths -> Origin \cup {None}],
         NEW p \in Paths, NEW job \in Job, NEW r \in offered, NEW by \in Origin,
         ~job.removal => ImageOf(job.parts) = Image(r, p),
         rig' = StageOn(p, job), origin' = Recorded(p, by), UNCHANGED offered
  PROVE  /\ rig' \in Rig /\ RigSound' /\ origin' \in [Paths -> Origin \cup {None}]
         /\ Staged' \subseteq Staged \cup {p}
         /\ p \in Irreversible => Pending' = Pending
         /\ p \notin Irreversible => /\ Pending' \subseteq Pending \cup {p}
                                    /\ rig'.committed = rig.committed
         /\ \A q \in Paths \ {p} : rig'.committed[q] = rig.committed[q]
PROOF
  <1> DEFINE image == ImageOf(job.parts)
  <1>1. image \in Images
    BY ImageTyped DEF Job
  <1>2. origin' \in [Paths -> Origin \cup {None}] /\ origin'[p] # None
    BY CampaignAssumption DEF Recorded
  <1>3. \A q \in Pending : origin'[q] # None
    BY <1>2 DEF Recorded, Pending, RigSound, Staged, Rig
  <1>4. p \in Irreversible <=> Mode[p] = "singleshot"
    BY DEF Irreversible
  <1> HIDE DEF image
  <1>5. CASE job.removal
    <2>1. rig' = [rig EXCEPT !.admin[p] = "disabled"]
      BY <1>5 DEF StageOn
    <2>2. /\ rig' \in Rig
          /\ rig'.active = rig.active /\ rig'.committed = rig.committed
          /\ rig'.staged = rig.staged /\ rig'.trial = rig.trial
      BY <2>1 DEF Rig, Admins
    <2>3. Staged' = Staged /\ Pending' = Pending
      BY <2>2 DEF Staged, Pending
    <2>4. RigSound'
      BY <1>3, <2>2, <2>3 DEF RigSound, Pending
    <2> QED BY <1>2, <1>5, <2>2, <2>3, <2>4
  <1>6. CASE ~job.removal /\ p \in Irreversible
    <2>1. PICK admin \in Admins :
            rig' = [rig EXCEPT !.active[p] = image, !.committed[p] = image, !.admin[p] = admin]
      <3>1. rig' = [rig EXCEPT !.active[p] = image, !.committed[p] = image,
                               !.admin[p] = IF @ = "disabled" THEN "enabled" ELSE @]
        BY <1>4, <1>6 DEF StageOn, image
      <3>2. (IF rig.admin[p] = "disabled" THEN "enabled" ELSE rig.admin[p]) \in Admins
        BY RigFields DEF Admins
      <3> QED BY ZenonT(40), <3>1, <3>2
    <2>2. image = Image(r, p)
      BY <1>6 DEF image
    <2>3. /\ rig'.active = [rig.active EXCEPT ![p] = image]
          /\ rig'.committed = [rig.committed EXCEPT ![p] = image]
          /\ rig'.staged = rig.staged /\ rig'.trial = rig.trial
          /\ rig' \in Rig
      <3>1. /\ rig'.active = [rig.active EXCEPT ![p] = image]
            /\ rig'.committed = [rig.committed EXCEPT ![p] = image]
            /\ rig'.staged = rig.staged /\ rig'.trial = rig.trial
            /\ rig'.admin = [rig.admin EXCEPT ![p] = admin]
        BY <2>1 DEF Rig
      <3>2. /\ rig'.active \in [Paths -> Images] /\ rig'.committed \in [Paths -> Images]
            /\ rig'.admin \in [Paths -> Admins]
        BY <1>1, <2>1, <3>1, RigFields
      <3>3. rig' = [active |-> rig'.active, committed |-> rig'.committed, staged |-> rig'.staged,
                    trial |-> rig'.trial, admin |-> rig'.admin]
        BY ZenonT(40), <2>1 DEF Rig
      <3> QED BY <3>1, <3>2, <3>3 DEF Rig
    <2>4. Staged' = Staged /\ Pending' = Pending
      BY <2>3 DEF Staged, Pending
    <2>5. \A q \in Paths \ rig'.trial : rig'.active[q] = rig'.committed[q]
      BY <2>3 DEF RigSound, Rig
    <2>6. RigSound'
      BY <1>3, <2>3, <2>4, <2>5 DEF RigSound, Pending
    <2>7. \A q \in Paths \ {p} : rig'.committed[q] = rig.committed[q]
      BY <2>3, RigFields
    <2> QED BY <1>2, <1>6, <2>2, <2>3, <2>4, <2>6, <2>7
  <1>7. CASE ~job.removal /\ p \notin Irreversible
    <2>1. rig' = [rig EXCEPT !.staged[p] = image]
      BY <1>4, <1>7 DEF StageOn, image
    <2>2. image = Image(r, p)
      BY <1>7 DEF image
    <2>3. /\ rig'.staged = [rig.staged EXCEPT ![p] = image]
          /\ rig'.active = rig.active /\ rig'.committed = rig.committed
          /\ rig'.trial = rig.trial /\ rig' \in Rig
      BY <1>1, <2>1 DEF Rig
    <2>4. /\ Staged' \subseteq Staged \cup {p}
          /\ \A q \in Staged' : q # p => rig'.staged[q] = rig.staged[q]
          /\ rig'.staged[p] = Image(r, p)
      BY <2>2, <2>3, RigFields DEF Staged
    <2>5. \A q \in Staged' : q \notin Irreversible /\ \E s \in offered : rig'.staged[q] = Image(s, q)
      BY <1>7, <2>4 DEF RigSound
    <2>6. RigSound' /\ Pending' \subseteq Pending \cup {p}
      BY <1>2, <1>3, <2>3, <2>4, <2>5 DEF RigSound, Pending
    <2> QED BY <1>2, <1>7, <2>3, <2>4, <2>6
  <1> QED BY <1>5, <1>6, <1>7

\* Only a singleshot runs what is staged on it, and has it committed, at once.
LEMMA StageImages ==
  ASSUME rig \in Rig, NEW p \in Paths, NEW job \in Job, rig' = StageOn(p, job)
  PROVE  /\ job.removal \/ p \notin Irreversible =>
              rig'.active = rig.active /\ rig'.committed = rig.committed
         /\ ~job.removal /\ p \in Irreversible =>
              /\ rig'.active = [rig.active EXCEPT ![p] = ImageOf(job.parts)]
              /\ rig'.committed = [rig.committed EXCEPT ![p] = ImageOf(job.parts)]
PROOF
  <1> DEFINE image == ImageOf(job.parts)
  <1>1. p \in Irreversible <=> Mode[p] = "singleshot"
    BY DEF Irreversible
  <1> HIDE DEF image
  <1>2. CASE job.removal
    <2>1. rig' = [rig EXCEPT !.admin[p] = "disabled"]
      BY <1>2 DEF StageOn
    <2> QED BY <1>2, <2>1 DEF Rig
  <1>3. CASE ~job.removal /\ p \notin Irreversible
    <2>1. rig' = [rig EXCEPT !.staged[p] = image]
      BY <1>1, <1>3 DEF StageOn, image
    <2> QED BY <1>3, <2>1 DEF Rig
  <1>4. CASE ~job.removal /\ p \in Irreversible
    <2>1. rig' = [rig EXCEPT !.active[p] = image, !.committed[p] = image,
                             !.admin[p] = IF @ = "disabled" THEN "enabled" ELSE @]
      BY <1>1, <1>4 DEF StageOn, image
    <2>2. /\ rig'.active = [rig.active EXCEPT ![p] = image]
          /\ rig'.committed = [rig.committed EXCEPT ![p] = image]
      BY <2>1 DEF Rig
    <2> QED BY <1>4, <2>2 DEF image
  <1> QED BY <1>2, <1>3, <1>4

-----------------------------------------------------------------------------
(* The trees and plans.                                                    *)

\* A tree maps paths to entities.
LEMMA TreeFacts ==
  ASSUME NEW t \in Tree
  PROVE  DOMAIN t \subseteq Paths /\ \A p \in DOMAIN t : t[p] \in Entity /\ t[p].parts \in Parts
PROOF
  <1>1. PICK D \in SUBSET Paths : t \in [D -> Entity]
    BY DEF Tree
  <1> QED BY <1>1 DEF Entity

\* The empty function is a tree without entities, and jobs for nothing.
LEMMA NoPartsTyped ==
  /\ NoParts \in Tree /\ NoParts \in Parts /\ DOMAIN NoParts = {}
  /\ NoParts \in UNION {[D -> Job] : D \in SUBSET Paths}
PROOF
  <1>1. NoParts \in [{} -> Entity] /\ NoParts \in [{} -> Contents] /\ NoParts \in [{} -> Job]
    BY DEF NoParts
  <1>2. {} \in SUBSET Paths /\ {} \in SUBSET PartIds
    OBVIOUS
  <1> QED BY ZenonT(40), <1>1, <1>2 DEF Tree, Parts, NoParts

\* The jobs of a plan are of components that the target has and the rig showed; a push
\* that is not a removal carries the target's parts.
LEMMA PlanFacts ==
  ASSUME NEW t \in Tree, NEW observed \in Tree, NEW only
  PROVE  LET jobs == L1Jobs(FanOut(L1Of(t, Partition(t, observed))), observed, only)
         IN /\ jobs \in UNION {[D -> Job] : D \in SUBSET Paths}
            /\ DOMAIN jobs \subseteq DOMAIN t \cap DOMAIN observed
            /\ \A p \in DOMAIN jobs : ~jobs[p].removal => jobs[p].parts = t[p].parts
PROOF
  <1> DEFINE P == Partition(t, observed)
             fan == FanOut(L1Of(t, P))
             jobs == L1Jobs(fan, observed, only)
             D == DOMAIN jobs
  <1>1. P.included \cup P.disabled \subseteq DOMAIN t
    BY DEF Partition
  <1>2. DOMAIN fan = P.included \cup P.disabled
    BY DEF FanOut, L1Of
  <1>3. \A p \in DOMAIN fan :
          fan[p] = IF p \in P.disabled THEN [removal |-> TRUE, parts |-> NoParts]
                   ELSE [removal |-> FALSE, parts |-> t[p].parts]
    BY ZenonT(40), NoPartsTyped DEF FanOut, L1Of
  <1> HIDE DEF P, fan
  <1>4. /\ D = DOMAIN fan \cap Allowed(only) \cap DOMAIN observed
        /\ jobs = [p \in D |-> [removal |-> fan[p].removal, parts |-> fan[p].parts,
                                manifestOnly |-> ComponentUnchanged(fan[p], observed, p)]]
    BY DEF L1Jobs
  <1> HIDE DEF jobs, D
  <1>5. D \in SUBSET Paths /\ D \subseteq DOMAIN t \cap DOMAIN observed
    BY <1>1, <1>2, <1>4, TreeFacts
  <1>6. ASSUME NEW p \in D
        PROVE  /\ fan[p].removal \in BOOLEAN /\ fan[p].parts \in Parts
               /\ ~fan[p].removal => fan[p].parts = t[p].parts
    <2>1. p \in DOMAIN fan /\ p \in DOMAIN t
      BY <1>4, <1>5
    <2>2. CASE p \in P.disabled
      <3>1. fan[p] = [removal |-> TRUE, parts |-> NoParts]
        BY <1>3, <2>1, <2>2
      <3>2. fan[p].removal = TRUE
        BY <3>1
      <3>3. fan[p].removal \in BOOLEAN /\ fan[p].removal
        BY ZenonT(40), <3>2
      <3>4. fan[p].parts = NoParts
        BY <3>1
      <3> QED BY <3>3, <3>4, NoPartsTyped
    <2>3. CASE p \notin P.disabled
      <3>1. fan[p] = [removal |-> FALSE, parts |-> t[p].parts]
        BY <1>3, <2>1, <2>3
      <3>2. fan[p].removal \in BOOLEAN
        BY <3>1
      <3>3. fan[p].parts = t[p].parts
        BY <3>1
      <3> QED BY <2>1, <3>2, <3>3, TreeFacts
    <2> QED BY <2>2, <2>3
  <1>7. ASSUME NEW p \in D PROVE ComponentUnchanged(fan[p], observed, p) \in BOOLEAN
    BY DEF ComponentUnchanged
  <1>8. jobs \in [D -> Job]
    BY <1>4, <1>6, <1>7 DEF Job
  <1>9. D = DOMAIN jobs /\ \A p \in D : ~jobs[p].removal => jobs[p].parts = t[p].parts
    BY <1>4, <1>6 DEF D
  <1>10. jobs \in UNION {[E -> Job] : E \in SUBSET Paths}
    BY <1>5, <1>8
  <1> QED BY <1>5, <1>9, <1>10 DEF jobs, fan, P

-----------------------------------------------------------------------------
(* The commands.                                                           *)

Node ==
  /\ rig \in Rig /\ RigSound
  /\ channel \in offered /\ offered \subseteq Releases
  /\ origin \in [Paths -> Origin \cup {None}]

CommandSound(c) == c \in Command /\ JobsSound(c) /\ StepsSound(c)

\* The invariant is one of the node and of each command.
LEMMA InvParts ==
  Inv <=> Node /\ op \in [Operators -> Command] /\ \A o \in Operators : CommandSound(op[o])
PROOF BY DEF Inv, TypeOK, Node, CommandSound

\* What is known of the node.
LEMMA NodeFacts ==
  ASSUME Inv
  PROVE  /\ rig \in Rig /\ RigSound /\ rig.trial \in SUBSET Paths
         /\ channel \in offered /\ offered \subseteq Releases /\ channel \in Releases
         /\ origin \in [Paths -> Origin \cup {None}]
PROOF
  <1>1. Node
    BY InvParts
  <1> QED BY <1>1, RigFields DEF Node

\* A command that moves on soundly leaves the others sound.
LEMMA CommandMove ==
  ASSUME Inv, Node', offered' = offered, NEW o \in Operators, NEW c, CommandSound(c),
         op' = [op EXCEPT ![o] = c]
  PROVE  Inv' /\ op'[o] = c
PROOF
  <1>1. op \in [Operators -> Command] /\ \A q \in Operators : CommandSound(op[q])
    BY InvParts
  <1>2. c \in Command
    BY DEF CommandSound
  <1>3. op' \in [Operators -> Command] /\ op'[o] = c
    BY <1>1, <1>2
  <1>4. \A q \in Operators : CommandSound(op'[q])
    BY <1>1
  <1>5. \A q \in Operators : CommandSound(op[q])'
    <2> TAKE q \in Operators
    <2>1. PICK d \in Command : d = op'[q]
      BY <1>3
    <2>2. CommandSound(d)
      BY <1>4, <2>1
    <2>3. CommandSound(d)'
      BY <2>2 DEF CommandSound, JobsSound, StepsSound
    <2> QED BY <2>1, <2>3 DEF CommandSound, JobsSound, StepsSound
  <1> QED BY <1>3, <1>5 DEF Inv, TypeOK, Node, CommandSound

\* A command that only reads leaves the node as it is.
LEMMA QuietMove ==
  ASSUME Inv, UNCHANGED <<rig, channel, offered, origin>>, NEW o \in Operators, NEW c,
         CommandSound(c), op' = [op EXCEPT ![o] = c],
         ServesState /\ CampaignAlone(op[o]) => CampaignAlone(c)
  PROVE  /\ Inv' /\ op'[o] = c
         /\ ServesState /\ CampaignAlone(op[o]) => CampaignAlone(op[o])'
         /\ CampaignAlone(c) => CampaignAlone(op[o])'
PROOF
  <1>1. Node'
    <2>1. Node
      BY InvParts
    <2>2. Staged' = Staged
      BY DEF Staged
    <2> QED BY <2>1, <2>2 DEF Node, RigSound
  <1>2. Inv' /\ op'[o] = c
    BY ZenonT(40), <1>1, CommandMove
  <1>3. CampaignAlone(c) => CampaignAlone(c)'
    BY ZenonT(40) DEF CampaignAlone, Phase, Staged
  <1> QED BY <1>2, <1>3

\* No command is a sound command.
LEMMA IdleSound ==
  ASSUME NEW c, c = Idle
  PROVE  CommandSound(c) /\ c.pc = "idle" /\ CampaignAlone(c)
PROOF
  <1>1. /\ c.pc = "idle" /\ c.tree = NoParts /\ c.jobs = NoParts
        /\ c.steps = [singleshot |-> {}, banked |-> {}] /\ c.step = {} /\ c.list = {}
    BY DEF Idle
  <1>2. c \in Command
    BY NoPartsTyped DEF Idle, Command
  <1>3. JobsSound(c)
    BY <1>1, NoPartsTyped DEF JobsSound
  <1>4. StepsSound(c)
    BY <1>1, NoPartsTyped DEF StepsSound, Staging
  <1>5. CampaignAlone(c)
    BY <1>1 DEF CampaignAlone, Staging
  <1> QED BY <1>1, <1>2, <1>3, <1>4, <1>5 DEF CommandSound

\* Nor is one unsound that is over.
LEMMA OverSound ==
  ASSUME NEW said \in Reports, NEW c, c = [Idle EXCEPT !.said = said]
  PROVE  CommandSound(c) /\ c.pc = "idle" /\ c.said = said
PROOF
  <1>1. PICK k : k = Idle
    OBVIOUS
  <1>2. CommandSound(k) /\ k.pc = "idle"
    BY <1>1, IdleSound
  <1>3. /\ c \in Command /\ c.pc = "idle" /\ c.said = said /\ c.tree = k.tree
        /\ c.jobs = k.jobs /\ c.from = k.from /\ c.steps = k.steps /\ c.verb = k.verb
    BY <1>1, <1>2 DEF CommandSound, Command
  <1>4. JobsSound(c)
    BY <1>2, <1>3 DEF CommandSound, JobsSound
  <1>5. StepsSound(c)
    BY <1>2, <1>3 DEF CommandSound, StepsSound, Staging
  <1> QED BY <1>3, <1>4, <1>5 DEF CommandSound

\* Finishing is sound on a sound node, whatever is reported.
LEMMA FinishMove ==
  ASSUME Inv, Node', offered' = offered, NEW o \in Operators, NEW said \in Reports,
         Finish(o, said)
  PROVE  Inv' /\ CampaignAlone(op[o])' /\ op'[o].said = said
PROOF
  <1>1. PICK c : c = [Idle EXCEPT !.said = said]
    BY ZenonT(40)
  <1>2. op' = [op EXCEPT ![o] = c]
    BY <1>1 DEF Finish, Go
  <1>3. CommandSound(c) /\ c.pc = "idle" /\ c.said = said
    BY ZenonT(40), <1>1, OverSound
  <1>4. Inv' /\ op'[o] = c
    BY ZenonT(40), <1>2, <1>3, CommandMove
  <1>5. CampaignAlone(c)'
    BY <1>3 DEF CampaignAlone, Staging
  <1> QED BY <1>3, <1>4, <1>5

\* So is finishing after a read.
LEMMA QuietFinish ==
  ASSUME Inv, UNCHANGED <<rig, channel, offered, origin>>, NEW o \in Operators,
         NEW said \in Reports, Finish(o, said)
  PROVE  Inv' /\ CampaignAlone(op[o])' /\ op'[o].said = said
PROOF
  <1>1. Node
    BY InvParts
  <1>2. Staged' = Staged
    BY DEF Staged
  <1>3. Node'
    BY <1>1, <1>2 DEF Node, RigSound
  <1> QED BY <1>3, FinishMove

\* What a command knows of itself.
LEMMA CommandFacts ==
  ASSUME Inv, NEW o \in Operators
  PROVE  op[o] \in Command /\ JobsSound(op[o]) /\ StepsSound(op[o])
PROOF BY InvParts DEF CommandSound

\* A command starts with nothing read; a campaign starts in its first round.
LEMMA StartMove ==
  ASSUME Inv, NEW o \in Operators, Start(o)
  PROVE  Inv' /\ (ServesState /\ CampaignAlone(op[o]) => CampaignAlone(op[o])')
PROOF
  <1>1. UNCHANGED <<rig, channel, offered, origin>>
    BY DEF Start, rest, history
  <1>2. PICK verb \in Verbs, only \in Filters, noCommit \in NoCommit :
          Go(o, [Idle EXCEPT !.pc = "list", !.verb = verb, !.only = only,
                             !.noCommit = noCommit /\ verb = "campaign",
                             !.round = IF verb = "campaign" THEN 1 ELSE 2])
    BY ZenonT(40) DEF Start
  <1>3. PICK round \in {1, 2} : round = IF verb = "campaign" THEN 1 ELSE 2
    OBVIOUS
  <1>4. PICK keep \in BOOLEAN : keep = (noCommit /\ verb = "campaign")
    BY ZenonT(40)
  <1>5. PICK c : c = [Idle EXCEPT !.pc = "list", !.verb = verb, !.only = only,
                                  !.noCommit = keep, !.round = round]
    OBVIOUS
  <1>6. op' = [op EXCEPT ![o] = c]
    BY ZenonT(40), <1>2, <1>3, <1>4, <1>5 DEF Go
  <1>7. /\ c.pc = "list" /\ c.verb = verb /\ c.round = round /\ c.said = None
        /\ c.tree = NoParts /\ c.jobs = NoParts
        /\ c.steps = [singleshot |-> {}, banked |-> {}]
    BY <1>5 DEF Idle
  <1>8. c \in Command
    <2>1. verb \in {"campaign", "flash", None} /\ only \in (SUBSET Paths) \cup {None}
      BY CampaignAssumption
    <2> QED BY ZenonT(40), <1>5, <2>1, NoPartsTyped DEF Idle, Command
  <1>9. JobsSound(c) /\ StepsSound(c)
    BY <1>7, NoPartsTyped, CampaignAssumption DEF JobsSound, StepsSound, Staging
  <1>10. CampaignAlone(c)
    BY <1>3, <1>7 DEF CampaignAlone, Staging
  <1> QED BY ZenonT(40), <1>1, <1>6, <1>8, <1>9, <1>10, QuietMove DEF CommandSound

\* A command that goes on reading keeps what it knows: nothing but what it has read
\* changes, and that is read with its mode.
LEMMA ReadingMove ==
  ASSUME Inv, UNCHANGED <<rig, channel, offered, origin>>, NEW o \in Operators,
         op[o].pc \in {"list", "read", "admin"}, NEW pc \in {"list", "read", "admin"},
         NEW list \in SUBSET Paths, NEW tree \in Tree,
         \A p \in DOMAIN tree : tree[p].mode = Mode[p],
         Go(o, [op[o] EXCEPT !.pc = pc, !.list = list, !.tree = tree])
  PROVE  Inv' /\ (ServesState /\ CampaignAlone(op[o]) => CampaignAlone(op[o])')
PROOF
  <1>1. PICK k \in Command : k = op[o]
    BY CommandFacts
  <1>2. JobsSound(k) /\ StepsSound(k) /\ k.pc \in {"list", "read", "admin"}
    BY <1>1, CommandFacts
  <1>3. PICK c : c = [k EXCEPT !.pc = pc, !.list = list, !.tree = tree]
    OBVIOUS
  <1>4. op' = [op EXCEPT ![o] = c]
    BY <1>1, <1>3 DEF Go
  <1>5. /\ c \in Command /\ c.pc = pc /\ c.tree = tree /\ c.verb = k.verb
        /\ c.round = k.round /\ c.said = k.said /\ c.jobs = k.jobs /\ c.from = k.from
        /\ c.steps = k.steps
    BY ZenonT(40), <1>3 DEF Command
  <1>6. JobsSound(c)
    BY <1>2, <1>5 DEF JobsSound
  <1>7. StepsSound(c)
    BY <1>2, <1>5 DEF StepsSound, Staging
  <1>8. CampaignAlone(k) => CampaignAlone(c)
    BY <1>2, <1>5 DEF CampaignAlone, Staging
  <1> QED BY ZenonT(40), <1>1, <1>4, <1>5, <1>6, <1>7, <1>8, QuietMove DEF CommandSound

\* The list of components is read.
LEMMA ListMove ==
  ASSUME Inv, NEW o \in Operators, ListComponents(o)
  PROVE  Inv' /\ (ServesState /\ CampaignAlone(op[o]) => CampaignAlone(op[o])')
PROOF
  <1>1. /\ UNCHANGED <<rig, channel, offered, origin>> /\ op[o].pc = "list"
        /\ Go(o, [op[o] EXCEPT !.pc = "read", !.list = Advertised, !.tree = NoParts])
    BY DEF ListComponents, rest, history
  <1>2. PICK list \in SUBSET Paths : list = Advertised
    BY CampaignAssumption DEF Advertised
  <1>3. PICK pc \in {"list", "read", "admin"} : pc = "read"
    OBVIOUS
  <1>4. Go(o, [op[o] EXCEPT !.pc = pc, !.list = list, !.tree = NoParts])
    BY <1>1, <1>2, <1>3
  <1> QED BY ZenonT(40), <1>1, <1>4, NoPartsTyped, ReadingMove

\* A tree with one more entity is a tree.
LEMMA TreeWith ==
  ASSUME NEW t \in Tree, NEW p \in Paths, NEW e \in Entity,
         NEW u, u = [q \in DOMAIN t \cup {p} |-> IF q = p THEN e ELSE t[q]]
  PROVE  u \in Tree
PROOF
  <1>1. DOMAIN t \cup {p} \in SUBSET Paths
    BY TreeFacts
  <1>2. u \in [DOMAIN t \cup {p} -> Entity]
    BY TreeFacts
  <1> QED BY <1>1, <1>2 DEF Tree

\* What is reported of a component is an entity, with the component's mode.
LEMMA ReportedTyped ==
  ASSUME NEW p \in Paths, NEW parts \in Parts
  PROVE  Reported(p, parts) \in Entity /\ Reported(p, parts).mode = Mode[p]
PROOF BY CampaignAssumption DEF Reported, Entity, Admins, Modes

\* A component is read with whatever parts are reported of it.
LEMMA EntityMove ==
  ASSUME Inv, UNCHANGED <<rig, channel, offered, origin>>, NEW o \in Operators,
         op[o].pc = "read", NEW p \in Paths, NEW parts \in Parts,
         Go(o, [op[o] EXCEPT !.pc = "admin",
                  !.tree = [q \in DOMAIN @ \cup {p} |-> IF q = p THEN Reported(p, parts) ELSE @[q]]])
  PROVE  Inv' /\ (ServesState /\ CampaignAlone(op[o]) => CampaignAlone(op[o])')
PROOF
  <1>1. PICK k \in Command : k = op[o]
    BY CommandFacts
  <1>2. StepsSound(k) /\ k.tree \in Tree /\ k.list \in SUBSET Paths
    BY <1>1, CommandFacts DEF Command
  <1>3. PICK tree : tree = [q \in DOMAIN k.tree \cup {p} |->
                              IF q = p THEN Reported(p, parts) ELSE k.tree[q]]
    BY ZenonT(40)
  <1>4. tree \in Tree /\ \A q \in DOMAIN tree : tree[q].mode = Mode[q]
    BY <1>2, <1>3, TreeWith, ReportedTyped DEF StepsSound
  <1>5. PICK pc \in {"list", "read", "admin"} : pc = "admin"
    OBVIOUS
  <1>6. [k EXCEPT !.pc = pc, !.tree = tree] = [k EXCEPT !.pc = pc, !.list = k.list, !.tree = tree]
    BY ZenonT(40) DEF Command
  <1>7. PICK list \in SUBSET Paths : list = k.list
    BY <1>2
  <1>8. Go(o, [op[o] EXCEPT !.pc = pc, !.list = list, !.tree = tree])
    BY <1>1, <1>3, <1>5, <1>6, <1>7
  <1> QED BY ZenonT(40), <1>4, <1>8, ReadingMove

\* The installed manifest is read, or is malformed.
LEMMA ReadMove ==
  ASSUME Inv, NEW o \in Operators, NEW p \in Paths, ReadInstalled(o, p) \/ ReadMalformed(o, p)
  PROVE  Inv' /\ (ServesState /\ CampaignAlone(op[o]) => CampaignAlone(op[o])')
PROOF
  <1>1. UNCHANGED <<rig, channel, offered, origin>> /\ op[o].pc = "read"
    BY DEF ReadInstalled, ReadMalformed, rest, history
  <1>2. ImageParts(rig.active[p]) \in Parts
    <2>1. rig.active[p] \in Contents \cup {None}
      BY NodeFacts, RigFields DEF Images
    <2>2. CASE rig.active[p] = None
      BY <2>2, NoPartsTyped DEF ImageParts
    <2>3. CASE rig.active[p] # None
      <3>1. ImageParts(rig.active[p]) \in [{Img} -> Contents]
        BY <2>1, <2>3 DEF ImageParts
      <3>2. {Img} \in SUBSET PartIds
        BY CampaignAssumption
      <3> QED BY <3>1, <3>2 DEF Parts
    <2> QED BY <2>2, <2>3
  <1>3. CASE ReadInstalled(o, p)
    <2>1. PICK parts \in Parts : parts = ImageParts(rig.active[p])
      BY <1>2
    <2>2. Go(o, [op[o] EXCEPT !.pc = "admin",
                   !.tree = [q \in DOMAIN @ \cup {p} |->
                               IF q = p THEN Reported(p, parts) ELSE @[q]]])
      BY <1>3, <2>1 DEF ReadInstalled
    <2> QED BY ZenonT(40), <1>1, <2>2, EntityMove
  <1>4. CASE ReadMalformed(o, p)
    <2>1. PICK parts \in Parts : parts = NoParts
      BY NoPartsTyped
    <2>2. Go(o, [op[o] EXCEPT !.pc = "admin",
                   !.tree = [q \in DOMAIN @ \cup {p} |->
                               IF q = p THEN Reported(p, parts) ELSE @[q]]])
      BY <1>4, <2>1 DEF ReadMalformed
    <2> QED BY ZenonT(40), <1>1, <2>2, EntityMove
  <1> QED BY <1>3, <1>4

\* The administrative state of the component read last is read.
LEMMA AdminMove ==
  ASSUME Inv, NEW o \in Operators, NEW p \in Paths, ReadAdmin(o, p)
  PROVE  Inv' /\ (ServesState /\ CampaignAlone(op[o]) => CampaignAlone(op[o])')
PROOF
  <1>1. PICK k \in Command : k = op[o]
    BY CommandFacts
  <1>2. /\ StepsSound(k) /\ k.tree \in Tree /\ k.list \in SUBSET Paths
        /\ k.pc = "admin" /\ p \in DOMAIN k.tree
        /\ UNCHANGED <<rig, channel, offered, origin>>
    BY <1>1, CommandFacts DEF Command, ReadAdmin, rest, history
  <1>3. PICK admin \in Admins : admin = rig.admin[p]
    BY NodeFacts, RigFields
  <1>4. PICK e : e = [k.tree[p] EXCEPT !.admin = admin]
    BY ZenonT(40)
  <1>5. e \in Entity /\ e.mode = k.tree[p].mode
    <2>1. k.tree[p] \in Entity
      BY <1>2, TreeFacts
    <2> QED BY <1>4, <2>1 DEF Entity
  <1>6. PICK tree : tree = [k.tree EXCEPT ![p] = e]
    BY ZenonT(40)
  <1>7. tree \in Tree /\ \A q \in DOMAIN tree : tree[q].mode = Mode[q]
    <2>1. PICK D \in SUBSET Paths : k.tree \in [D -> Entity]
      BY <1>2 DEF Tree
    <2>2. tree \in [D -> Entity]
      BY ZenonT(40), <1>5, <1>6, <2>1
    <2> QED BY <1>2, <1>5, <1>6, <2>1, <2>2 DEF Tree, StepsSound
  <1>8. PICK pc \in {"list", "read", "admin"}, list \in SUBSET Paths :
          pc = "read" /\ list = k.list \ {p}
    BY ZenonT(40), <1>2
  <1>9. Go(o, [op[o] EXCEPT !.pc = pc, !.list = list, !.tree = tree])
    BY <1>1, <1>3, <1>4, <1>6, <1>8 DEF ReadAdmin, Go, Command
  <1> QED BY ZenonT(40), <1>1, <1>2, <1>7, <1>9, ReadingMove

\* The preview ends the command, or lets it ask for the node's state.
LEMMA PreviewMove ==
  ASSUME Inv, NEW o \in Operators, Preview(o)
  PROVE  Inv' /\ (ServesState /\ CampaignAlone(op[o]) => CampaignAlone(op[o])')
PROOF
  <1>1. UNCHANGED <<rig, channel, offered, origin>> /\ op[o].pc = "read"
    BY DEF Preview, rest, history
  <1>2. CASE Finish(o, "deferred") \/ Finish(o, "up_to_date")
    <2>1. PICK said \in Reports : Finish(o, said)
      BY <1>2 DEF Reports
    <2> QED BY <1>1, <2>1, QuietFinish
  <1>3. CASE Go(o, [op[o] EXCEPT !.pc = "node", !.tree = NoParts])
    <2>1. PICK k \in Command : k = op[o]
      BY CommandFacts
    <2>2. JobsSound(k) /\ StepsSound(k) /\ k.pc = "read"
      BY <1>1, <2>1, CommandFacts
    <2>3. PICK c : c = [k EXCEPT !.pc = "node", !.tree = NoParts]
      OBVIOUS
    <2>4. op' = [op EXCEPT ![o] = c]
      BY <1>3, <2>1, <2>3 DEF Go
    <2>5. /\ c \in Command /\ c.pc = "node" /\ c.tree = NoParts /\ c.verb = k.verb
          /\ c.said = k.said /\ c.jobs = k.jobs /\ c.from = k.from /\ c.steps = k.steps
      BY ZenonT(40), <2>3, NoPartsTyped DEF Command
    <2>6. JobsSound(c)
      BY <2>2, <2>5 DEF JobsSound
    <2>7. StepsSound(c)
      BY <2>2, <2>5, NoPartsTyped DEF StepsSound, Staging
    <2>8. CampaignAlone(c)
      BY <2>5 DEF CampaignAlone, Staging
    <2> QED BY ZenonT(40), <1>1, <2>4, <2>5, <2>6, <2>7, <2>8, QuietMove DEF CommandSound
  <1> QED BY <1>2, <1>3 DEF Preview

\* A campaign gets past node_update_state only when nothing is pending.
LEMMA CheckMove ==
  ASSUME Inv, NEW o \in Operators, CheckNode(o)
  PROVE  Inv' /\ (ServesState => CampaignAlone(op[o])')
PROOF
  <1>1. UNCHANGED <<rig, channel, offered, origin>> /\ op[o].pc = "node"
    BY DEF CheckNode, rest, history
  <1>2. CASE Finish(o, "unresolved")
    <2>1. PICK said \in Reports : Finish(o, said)
      BY <1>2 DEF Reports
    <2> QED BY <1>1, <2>1, QuietFinish
  <1>3. CASE ~Unresolved /\ Go(o, [op[o] EXCEPT !.pc = "list", !.round = 2])
    <2>1. PICK k \in Command : k = op[o]
      BY CommandFacts
    <2>2. JobsSound(k) /\ StepsSound(k) /\ k.pc = "node"
      BY <1>1, <2>1, CommandFacts
    <2>3. PICK c : c = [k EXCEPT !.pc = "list", !.round = 2]
      OBVIOUS
    <2>4. op' = [op EXCEPT ![o] = c]
      BY <1>3, <2>1, <2>3 DEF Go
    <2>5. /\ c \in Command /\ c.pc = "list" /\ c.tree = k.tree /\ c.verb = k.verb
          /\ c.said = k.said /\ c.jobs = k.jobs /\ c.from = k.from /\ c.steps = k.steps
      BY ZenonT(40), <2>3 DEF Command
    <2>6. JobsSound(c)
      BY <2>2, <2>5 DEF JobsSound
    <2>7. StepsSound(c)
      BY <2>2, <2>5 DEF StepsSound, Staging
    <2>8. ServesState => Phase = "Idle"
      BY <1>3 DEF Unresolved, Phase
    <2>9. ServesState => CampaignAlone(c)
      BY <2>5, <2>8 DEF CampaignAlone, Staging
    <2> QED BY ZenonT(40), <1>1, <2>4, <2>5, <2>6, <2>7, <2>9, QuietMove DEF CommandSound
  <1> QED BY <1>2, <1>3 DEF CheckNode

\* The jobs planned are for the channel's release, which is an offered one.
LEMMA PlanJobsSound ==
  ASSUME Inv, NEW o \in Operators
  PROVE  /\ PlanJobs(o) \in UNION {[D -> Job] : D \in SUBSET Paths}
         /\ DOMAIN PlanJobs(o) \subseteq DOMAIN op[o].tree /\ DOMAIN PlanJobs(o) \subseteq Paths
         /\ channel \in offered /\ channel \in Releases
         /\ \A p \in DOMAIN PlanJobs(o) :
              ~PlanJobs(o)[p].removal => ImageOf(PlanJobs(o)[p].parts) = Image(channel, p)
PROOF
  <1>1. channel \in offered /\ channel \in Releases
    BY NodeFacts
  <1>2. Targets[channel] \in Tree /\ op[o].tree \in Tree
    BY ZenonT(40), <1>1, CampaignAssumption, CommandFacts DEF Command
  <1>3. /\ PlanJobs(o) \in UNION {[D -> Job] : D \in SUBSET Paths}
        /\ DOMAIN PlanJobs(o) \subseteq DOMAIN Targets[channel] \cap DOMAIN op[o].tree
        /\ \A p \in DOMAIN PlanJobs(o) :
             ~PlanJobs(o)[p].removal => PlanJobs(o)[p].parts = Targets[channel][p].parts
    BY <1>2, PlanFacts DEF PlanJobs
  <1>4. DOMAIN op[o].tree \subseteq Paths
    BY <1>2, TreeFacts
  <1>5. \A p \in DOMAIN PlanJobs(o) :
          ~PlanJobs(o)[p].removal => ImageOf(PlanJobs(o)[p].parts) = Image(channel, p)
    BY <1>3 DEF Image
  <1> QED BY <1>1, <1>3, <1>4, <1>5

\* A command is given steps that divide its jobs, the singleshots apart in a campaign.
LEMMA AsksMove ==
  ASSUME Inv, NEW o \in Operators, NEW verb \in {"campaign", "flash"}, NEW empty \in Reports,
         NEW steps \in [singleshot : SUBSET Paths, banked : SUBSET Paths],
         steps.singleshot \cup steps.banked \subseteq DOMAIN PlanJobs(o),
         verb = "campaign" =>
           steps.singleshot \subseteq Irreversible /\ steps.banked \cap Irreversible = {},
         op[o].verb = verb, Asks(o, empty, steps)
  PROVE  Inv' /\ (ServesState /\ CampaignAlone(op[o]) => CampaignAlone(op[o])')
PROOF
  <1>1. /\ UNCHANGED <<rig, channel, offered, origin>>
        /\ op[o].pc = "read" /\ op[o].round = 2 /\ op[o].verb = verb
    BY DEF Asks, rest, history
  <1>2. CASE Finish(o, "not_found") \/ Finish(o, empty)
    <2>1. PICK said \in Reports : Finish(o, said)
      BY <1>2 DEF Reports
    <2> QED BY <1>1, <2>1, QuietFinish
  <1>3. CASE Go(o, [op[o] EXCEPT !.pc = "guard", !.jobs = PlanJobs(o), !.from = channel,
                                 !.steps = steps, !.tree = NoParts])
    <2>1. PICK k \in Command : k = op[o]
      BY CommandFacts
    <2>2. StepsSound(k) /\ k.pc = "read" /\ k.round = 2 /\ k.verb = verb
      BY <1>1, <2>1, CommandFacts
    <2>3. PICK jobs, from : jobs = PlanJobs(o) /\ from = channel
      OBVIOUS
    <2>4. PICK c : c = [k EXCEPT !.pc = "guard", !.jobs = jobs, !.from = from,
                                 !.steps = steps, !.tree = NoParts]
      OBVIOUS
    <2>5. op' = [op EXCEPT ![o] = c]
      BY <1>3, <2>1, <2>3, <2>4 DEF Go
    <2>6. /\ c.pc = "guard" /\ c.tree = NoParts /\ c.verb = verb /\ c.said = k.said
          /\ c.jobs = jobs /\ c.from = from /\ c.steps = steps
      BY <2>2, <2>4 DEF Command
    <2>7. c \in Command
      <3>1. jobs \in UNION {[D -> Job] : D \in SUBSET Paths} /\ from \in Releases \cup {None}
        BY <2>3, PlanJobsSound
      <3> QED BY ZenonT(40), <2>4, <3>1, NoPartsTyped DEF Command
    <2>8. JobsSound(c)
      BY <2>3, <2>6, PlanJobsSound DEF JobsSound
    <2>9. StepsSound(c)
      BY <2>2, <2>6, NoPartsTyped DEF StepsSound, Staging
    <2>10. CampaignAlone(k) => CampaignAlone(c)
      BY <2>2, <2>6 DEF CampaignAlone, Staging
    <2> QED BY ZenonT(40), <1>1, <2>1, <2>5, <2>7, <2>8, <2>9, <2>10, QuietMove DEF CommandSound
  <1> QED BY <1>2, <1>3 DEF Asks

\* campaign_execute and flash_execute divide the jobs so.
LEMMA AskMove ==
  ASSUME Inv, NEW o \in Operators, AskCampaign(o) \/ AskFlash(o)
  PROVE  Inv' /\ (ServesState /\ CampaignAlone(op[o]) => CampaignAlone(op[o])')
PROOF
  <1>1. DOMAIN PlanJobs(o) \subseteq DOMAIN op[o].tree /\ DOMAIN PlanJobs(o) \subseteq Paths
    BY PlanJobsSound
  <1>2. CASE AskCampaign(o)
    <2>1. PICK empty \in Reports :
            empty = IF op[o].only # None THEN "only_matched_nothing" ELSE "complete"
      BY DEF Reports
    <2>2. PICK verb \in {"campaign", "flash"} : verb = "campaign"
      OBVIOUS
    <2>3. PICK steps : steps = CampaignSteps(PlanJobs(o), op[o].tree)
      OBVIOUS
    <2>4. op[o].verb = verb /\ Asks(o, empty, steps)
      BY <1>2, <2>1, <2>2, <2>3 DEF AskCampaign
    <2>5. \A p \in DOMAIN PlanJobs(o) : ModeAt(op[o].tree, p) = Mode[p]
      BY <1>1, CommandFacts DEF StepsSound, ModeAt
    <2>6. steps = [singleshot |-> DOMAIN PlanJobs(o) \cap Irreversible,
                   banked |-> DOMAIN PlanJobs(o) \ Irreversible]
      <3>1. {p \in DOMAIN PlanJobs(o) : ModeAt(op[o].tree, p) = "singleshot"}
              = DOMAIN PlanJobs(o) \cap Irreversible
        BY <1>1, <2>5 DEF Irreversible
      <3>2. DOMAIN PlanJobs(o) \ (DOMAIN PlanJobs(o) \cap Irreversible)
              = DOMAIN PlanJobs(o) \ Irreversible
        OBVIOUS
      <3> QED BY <2>3, <3>1, <3>2 DEF CampaignSteps
    <2>7. /\ steps \in [singleshot : SUBSET Paths, banked : SUBSET Paths]
          /\ steps.singleshot \cup steps.banked \subseteq DOMAIN PlanJobs(o)
          /\ steps.singleshot \subseteq Irreversible /\ steps.banked \cap Irreversible = {}
      BY <1>1, <2>6
    <2> QED BY <2>4, <2>7, AsksMove
  <1>3. CASE AskFlash(o)
    <2>1. PICK empty \in Reports : empty = "complete"
      BY DEF Reports
    <2>2. PICK verb \in {"campaign", "flash"} : verb = "flash"
      OBVIOUS
    <2>3. PICK steps : steps = [singleshot |-> {}, banked |-> DOMAIN PlanJobs(o)]
      BY ZenonT(40)
    <2>4. op[o].verb = verb /\ Asks(o, empty, steps)
      BY <1>3, <2>1, <2>2, <2>3 DEF AskFlash
    <2>5. /\ steps \in [singleshot : SUBSET Paths, banked : SUBSET Paths]
          /\ steps.singleshot \cup steps.banked \subseteq DOMAIN PlanJobs(o)
      BY <1>1, <2>3
    <2>6. verb # "campaign"
      BY <2>2
    <2> QED BY <2>4, <2>5, <2>6, AsksMove
  <1> QED BY <1>2, <1>3

\* A step of a campaign that begins is one singleshot, or the banked group and the last
\* one; nothing is pending, so what is committed is what runs.
LEMMA GuardMove ==
  ASSUME Inv, NEW o \in Operators, GuardStep(o)
  PROVE  /\ Inv' /\ (ServesState /\ CampaignAlone(op[o]) => CampaignAlone(op[o])')
         /\ op[o].pc = "guard"
PROOF
  <1>1. UNCHANGED <<rig, channel, offered, origin>> /\ op[o].pc = "guard"
    BY DEF GuardStep, rest, history
  <1>2. PICK step \in {{p} : p \in op[o].steps.singleshot} \cup {op[o].steps.banked} :
          /\ step # {}
          /\ op[o].steps.singleshot # {} => step \subseteq op[o].steps.singleshot
          /\ IF step \cap Irreversible \notin {{}, step} THEN Finish(o, "mixed")
             ELSE Go(o, [op[o] EXCEPT !.pc = "stage", !.step = step, !.list = step,
                           !.steps = [singleshot |-> @.singleshot \ step,
                                      banked |-> @.banked \ step],
                           !.base = rig.active])
    BY ZenonT(40) DEF GuardStep
  <1>3. CASE Finish(o, "mixed")
    <2>1. PICK said \in Reports : Finish(o, said)
      BY <1>3 DEF Reports
    <2> QED BY <1>1, <2>1, QuietFinish
  <1>4. CASE Go(o, [op[o] EXCEPT !.pc = "stage", !.step = step, !.list = step,
                      !.steps = [singleshot |-> @.singleshot \ step, banked |-> @.banked \ step],
                      !.base = rig.active])
    <2>1. PICK k \in Command : k = op[o]
      BY ZenonT(40), CommandFacts
    <2>2. /\ JobsSound(k) /\ StepsSound(k) /\ k.pc = "guard"
          /\ k.steps.singleshot \in SUBSET Paths /\ k.steps.banked \in SUBSET Paths
      BY <1>1, <2>1, CommandFacts DEF Command
    <2>3. step \subseteq k.steps.singleshot \cup k.steps.banked /\ step \in SUBSET Paths
      BY ZenonT(40), <1>2, <2>1, <2>2
    <2>4. PICK base \in [Paths -> Images] : base = rig.active
      BY NodeFacts, RigFields
    <2>5. PICK steps : steps = [singleshot |-> k.steps.singleshot \ step,
                                banked |-> k.steps.banked \ step]
      BY ZenonT(40)
    <2>6. PICK c : c = [k EXCEPT !.pc = "stage", !.step = step, !.list = step, !.steps = steps,
                                 !.base = base]
      OBVIOUS
    <2>7. op' = [op EXCEPT ![o] = c]
      BY <1>4, <2>1, <2>4, <2>5, <2>6 DEF Go
    <2>8. /\ c.pc = "stage" /\ c.tree = k.tree /\ c.verb = k.verb /\ c.said = k.said
          /\ c.jobs = k.jobs /\ c.from = k.from /\ c.steps = steps /\ c.step = step
          /\ c.list = step /\ c.base = base
      BY <2>6 DEF Command
    <2>9. steps \in [singleshot : SUBSET Paths, banked : SUBSET Paths]
      BY <2>2, <2>5
    <2>10. c \in Command
      BY ZenonT(40), <2>3, <2>6, <2>9 DEF Command
    <2>11. JobsSound(c)
      BY <2>2, <2>3, <2>5, <2>8 DEF JobsSound
    <2>12. k.verb = "campaign" =>
             \/ \E p \in Irreversible : step = {p}
             \/ step \cap Irreversible = {} /\ steps.singleshot \cup steps.banked = {}
      <3> SUFFICES ASSUME k.verb = "campaign"
                   PROVE  \/ \E p \in Irreversible : step = {p}
                          \/ step \cap Irreversible = {} /\ steps.singleshot \cup steps.banked = {}
        OBVIOUS
      <3>1. k.steps.singleshot \subseteq Irreversible /\ k.steps.banked \cap Irreversible = {}
        BY <2>2 DEF StepsSound
      <3>2. CASE step \in {{p} : p \in k.steps.singleshot}
        BY <3>1, <3>2
      <3>3. CASE step = k.steps.banked
        BY <1>2, <2>1, <2>5, <3>1, <3>3
      <3> QED BY <1>2, <2>1, <3>2, <3>3
    <2>13. StepsSound(c)
      BY <2>2, <2>5, <2>8, <2>12 DEF StepsSound, Staging
    <2>14. CampaignAlone(k) => CampaignAlone(c)
      <3> SUFFICES ASSUME CampaignAlone(k), k.verb = "campaign"
                   PROVE  /\ \A p \in Paths \ (c.step \cap Irreversible) :
                               rig.committed[p] = c.base[p]
                          /\ \/ Phase = "Idle" /\ \E p \in Irreversible : c.step = {p}
                             \/ /\ c.step \cap Irreversible = {} /\ Staged \subseteq c.step
                                /\ Staged \cup rig.trial = {}
        BY ZenonT(40), <2>8 DEF CampaignAlone, Staging
      <3>1. Phase = "Idle"
        BY <2>2 DEF CampaignAlone
      <3>2. Staged = {} /\ rig.trial = {}
        BY <3>1, PhaseIdle DEF Pending
      <3>3. \A p \in Paths : rig.committed[p] = base[p]
        BY ZenonT(40), <2>4, <3>2, NodeFacts, RigFields DEF RigSound
      <3> QED BY <2>8, <2>12, <3>1, <3>2, <3>3
    <2> QED BY ZenonT(40), <1>1, <2>1, <2>7, <2>10, <2>11, <2>13, <2>14, QuietMove DEF CommandSound
  <1> QED BY <1>1, <1>2, <1>3, <1>4

\* A command that moves on in its step without touching the node.
LEMMA PcMove ==
  ASSUME Inv, UNCHANGED <<rig, channel, offered, origin>>, NEW o \in Operators,
         op[o].pc = "health", op[o].verb = "campaign",
         NEW pc \in {"health", "commit", "rollback"}, Go(o, [op[o] EXCEPT !.pc = pc])
  PROVE  Inv' /\ (ServesState /\ CampaignAlone(op[o]) => CampaignAlone(op[o])')
PROOF
  <1>1. PICK k \in Command : k = op[o]
    BY CommandFacts
  <1>2. JobsSound(k) /\ StepsSound(k) /\ k.pc = "health" /\ k.verb = "campaign"
    BY <1>1, CommandFacts
  <1>3. PICK c : c = [k EXCEPT !.pc = pc]
    BY ZenonT(40)
  <1>4. op' = [op EXCEPT ![o] = c]
    BY <1>1, <1>3 DEF Go
  <1>5. /\ c \in Command /\ c.pc = pc /\ c.tree = k.tree /\ c.verb = k.verb /\ c.said = k.said
        /\ c.jobs = k.jobs /\ c.from = k.from /\ c.steps = k.steps /\ c.step = k.step
        /\ c.base = k.base
    BY <1>3 DEF Command
  <1>6. JobsSound(c)
    BY <1>2, <1>5 DEF JobsSound
  <1>7. StepsSound(c)
    BY <1>2, <1>5 DEF StepsSound, Staging
  <1>8. CampaignAlone(k) => CampaignAlone(c)
    BY ZenonT(40), <1>2, <1>5 DEF CampaignAlone, Staging
  <1> QED BY ZenonT(40), <1>1, <1>4, <1>5, <1>6, <1>7, <1>8, QuietMove DEF CommandSound

\* A chain goes on after a singleshot only: the banked group is its last step.
LEMMA NextStepMove ==
  ASSUME Inv, Node', offered' = offered, NEW o \in Operators,
         op[o].pc \in {"health", "commit"}, NextStep(o), Pending' \subseteq Pending
  PROVE  Inv' /\ (ServesState /\ CampaignAlone(op[o]) => CampaignAlone(op[o])')
PROOF
  <1>1. CASE Finish(o, "complete")
    <2>1. PICK said \in Reports : Finish(o, said)
      BY <1>1 DEF Reports
    <2> QED BY <2>1, FinishMove
  <1>2. CASE /\ op[o].steps.singleshot \cup op[o].steps.banked # {}
             /\ Go(o, [op[o] EXCEPT !.pc = "guard"])
    <2>1. PICK k \in Command : k = op[o]
      BY CommandFacts
    <2>2. /\ JobsSound(k) /\ StepsSound(k) /\ k.pc \in {"health", "commit"}
          /\ k.steps.singleshot \cup k.steps.banked # {}
      BY <1>2, <2>1, CommandFacts
    <2>3. PICK c : c = [k EXCEPT !.pc = "guard"]
      BY ZenonT(40)
    <2>4. op' = [op EXCEPT ![o] = c]
      BY <1>2, <2>1, <2>3 DEF Go
    <2>5. /\ c \in Command /\ c.pc = "guard" /\ c.tree = k.tree /\ c.verb = k.verb
          /\ c.said = k.said /\ c.jobs = k.jobs /\ c.from = k.from /\ c.steps = k.steps
      BY <2>3 DEF Command
    <2>6. JobsSound(c)
      BY <2>2, <2>5 DEF JobsSound
    <2>7. StepsSound(c)
      BY <2>2, <2>5 DEF StepsSound, Staging
    <2>8. Inv' /\ op'[o] = c
      BY ZenonT(40), <2>4, <2>5, <2>6, <2>7, CommandMove DEF CommandSound
    <2>9. ASSUME CampaignAlone(k) PROVE CampaignAlone(c)'
      <3>1. k.verb = "campaign" /\ \E p \in Irreversible : k.step = {p}
        BY <2>2 DEF StepsSound, Staging
      <3>2. Phase = "Idle"
        BY <2>2, <2>9, <3>1 DEF CampaignAlone, Staging
      <3>3. Pending' = {}
        BY <3>2, PhaseIdle
      <3>4. Phase' = "Idle"
        BY <3>3 DEF Phase, Pending
      <3> QED BY <2>5, <3>4 DEF CampaignAlone, Staging
    <2> QED BY <2>1, <2>8, <2>9
  <1> QED BY <1>1, <1>2 DEF NextStep

\* The step came up, or did not.
LEMMA HealthMove ==
  ASSUME Inv, NEW o \in Operators, Healthy(o) \/ Unhealthy(o)
  PROVE  Inv' /\ (ServesState /\ CampaignAlone(op[o]) => CampaignAlone(op[o])')
PROOF
  <1>1. /\ UNCHANGED <<rig, channel, offered, origin>>
        /\ op[o].pc = "health" /\ op[o].verb = "campaign"
    BY CommandFacts DEF Healthy, Unhealthy, rest, history, StepsSound
  <1>2. CASE NextStep(o)
    <2>1. Staged' = Staged /\ Pending' = Pending
      BY <1>1 DEF Staged, Pending
    <2>2. Node'
      BY <1>1, <2>1, NodeFacts DEF Node, RigSound
    <2> QED BY <1>1, <1>2, <2>1, <2>2, NextStepMove
  <1>3. ASSUME NEW pc \in {"commit", "rollback"}, Go(o, [op[o] EXCEPT !.pc = pc])
        PROVE  Inv' /\ (ServesState /\ CampaignAlone(op[o]) => CampaignAlone(op[o])')
    BY ZenonT(40), <1>1, <1>3, PcMove
  <1>4. \/ NextStep(o)
        \/ \E pc \in {"commit", "rollback"} : Go(o, [op[o] EXCEPT !.pc = pc])
    BY DEF Healthy, Unhealthy
  <1> QED BY <1>2, <1>3, <1>4

\* A command that fails leaves the rig as it is.
LEMMA FailMove ==
  ASSUME Inv, NEW o \in Operators, Fail(o)
  PROVE  Inv' /\ CampaignAlone(op[o])' /\ op'[o].said = "error"
PROOF
  <1>1. UNCHANGED <<rig, channel, offered, origin>>
    BY DEF Fail, history
  <1>2. PICK said \in Reports : said = "error" /\ Finish(o, said)
    BY DEF Fail, Reports
  <1> QED BY ZenonT(40), <1>1, <1>2, QuietFinish

\* A verdict of a chain ends it, or lets it go on.
LEMMA CommitMove ==
  ASSUME Inv, NEW o \in Operators, CommitStep(o)
  PROVE  Inv' /\ (ServesState /\ CampaignAlone(op[o]) => CampaignAlone(op[o])')
PROOF
  <1>1. /\ op[o].pc = "commit" /\ rig' = CommitTrial(rig.trial) /\ NextStep(o)
        /\ UNCHANGED <<channel, offered, origin>>
    BY DEF CommitStep, rest
  <1>2. /\ rig \in Rig /\ RigSound /\ rig.trial \in SUBSET Paths /\ channel \in offered
        /\ offered \subseteq Releases /\ origin \in [Paths -> Origin \cup {None}]
    BY NodeFacts
  <1>3. rig' \in Rig /\ RigSound' /\ Pending' \subseteq Pending
    BY ZenonT(40), <1>1, <1>2, CommitRig
  <1>4. Node'
    BY <1>1, <1>2, <1>3 DEF Node
  <1> QED BY <1>1, <1>3, <1>4, NextStepMove

\* A rollback ends the chain.
LEMMA RollbackMove ==
  ASSUME Inv, NEW o \in Operators, RollbackStep(o)
  PROVE  Inv' /\ CampaignAlone(op[o])'
PROOF
  <1>1. /\ rig' = RollbackTrial(rig.trial) /\ Finish(o, "unhealthy")
        /\ UNCHANGED <<channel, offered, origin>>
    BY DEF RollbackStep, rest
  <1>2. /\ rig \in Rig /\ RigSound /\ rig.trial \in SUBSET Paths /\ channel \in offered
        /\ offered \subseteq Releases /\ origin \in [Paths -> Origin \cup {None}]
    BY NodeFacts
  <1>3. rig' \in Rig /\ RigSound'
    BY ZenonT(40), <1>1, <1>2, RollbackRig
  <1>4. Node'
    BY <1>1, <1>2, <1>3 DEF Node
  <1>5. PICK said \in Reports : Finish(o, said)
    BY ZenonT(40), <1>1 DEF Reports
  <1> QED BY <1>1, <1>4, <1>5, FinishMove

\* What an engine call leaves pending is as uniform, and as much the campaign's, as it
\* was before.
LEMMA CalmNode ==
  ASSUME Pending' \subseteq Pending, origin' = origin
  PROVE  /\ TransactionUniform => TransactionUniform'
         /\ Staged' \subseteq Staged /\ rig'.committed = rig.committed =>
              \A c : CampaignAlone(c) => CampaignAlone(c)'
PROOF
  <1>1. TransactionUniform => TransactionUniform'
    BY DEF TransactionUniform, Pending
  <1>2. ASSUME Staged' \subseteq Staged, rig'.committed = rig.committed, NEW c, CampaignAlone(c)
        PROVE  CampaignAlone(c)'
    <2>1. Phase = "Idle" => Phase' = "Idle"
      BY PhaseIdle DEF Phase, Pending
    <2>2. Staged' \cup rig'.trial \subseteq Staged \cup rig.trial
      BY DEF Pending
    <2> QED BY ZenonT(40), <1>2, <2>1, <2>2 DEF CampaignAlone
  <1> QED BY <1>1, <1>2

\* A reset boots what is staged; a flash ends with it.
LEMMA ResetMove ==
  ASSUME Inv, NEW o \in Operators, Reset(o)
  PROVE  Inv' /\ (ServesState /\ CampaignAlone(op[o]) => CampaignAlone(op[o])')
PROOF
  <1>1. op[o].pc = "stage" /\ UNCHANGED <<channel, offered, origin>>
    BY DEF Reset, rest
  <1>2. PICK S \in SUBSET Staged : S \in {Staged, op[o].step \cap Staged} /\ rig' = Activate(S)
    BY DEF Reset
  <1>3. /\ rig \in Rig /\ RigSound /\ channel \in offered
        /\ offered \subseteq Releases /\ origin \in [Paths -> Origin \cup {None}]
    BY NodeFacts
  <1>4. /\ rig' \in Rig /\ RigSound' /\ Pending' = Pending
        /\ Staged' = Staged \ S /\ rig'.committed = rig.committed
    BY ZenonT(40), <1>1, <1>2, <1>3, ActivateRig
  <1>5. Node'
    BY <1>1, <1>3, <1>4 DEF Node
  <1>6. CASE Finish(o, "flashed")
    <2>1. PICK said \in Reports : Finish(o, said)
      BY <1>6 DEF Reports
    <2> QED BY <1>1, <1>5, <2>1, FinishMove
  <1>7. CASE op[o].verb = "campaign" /\ Go(o, [op[o] EXCEPT !.pc = "health"])
    <2>1. PICK k \in Command : k = op[o]
      BY CommandFacts
    <2>2. JobsSound(k) /\ StepsSound(k) /\ k.pc = "stage" /\ k.verb = "campaign"
      BY <1>1, <1>7, <2>1, CommandFacts
    <2>3. PICK c : c = [k EXCEPT !.pc = "health"]
      BY ZenonT(40)
    <2>4. op' = [op EXCEPT ![o] = c]
      BY <1>7, <2>1, <2>3 DEF Go
    <2>5. /\ c \in Command /\ c.pc = "health" /\ c.tree = k.tree /\ c.verb = k.verb
          /\ c.said = k.said /\ c.jobs = k.jobs /\ c.from = k.from /\ c.steps = k.steps
          /\ c.step = k.step /\ c.base = k.base
      BY <2>3 DEF Command
    <2>6. JobsSound(c)
      BY <2>2, <2>5 DEF JobsSound
    <2>7. StepsSound(c)
      BY <2>2, <2>5 DEF StepsSound, Staging
    <2>8. Inv' /\ op'[o] = c
      BY ZenonT(40), <1>1, <1>5, <2>4, <2>5, <2>6, <2>7, CommandMove DEF CommandSound
    <2>9. ASSUME CampaignAlone(k) PROVE CampaignAlone(c)'
      <3>1. \A p \in Paths \ (c.step \cap Irreversible) : rig'.committed[p] = c.base[p]
        BY ZenonT(40), <1>4, <2>2, <2>5, <2>9 DEF CampaignAlone, Staging
      <3>2. CASE Phase = "Idle" /\ \E p \in Irreversible : k.step = {p}
        <4>1. Phase' = "Idle"
          BY <1>4, <3>2, PhaseIdle DEF Phase, Pending
        <4> QED BY <2>5, <3>1, <3>2, <4>1 DEF CampaignAlone, Staging
      <3>3. CASE /\ k.step \cap Irreversible = {} /\ Staged \subseteq k.step
                 /\ \A p \in Staged \cup rig.trial :
                      origin[p] = [release |-> k.from, verb |-> "campaign", alone |-> TRUE]
        <4>1. Staged' = {}
          BY ZenonT(40), <1>2, <1>4, <2>1, <3>3
        <4>2. \A p \in Staged' \cup rig'.trial :
                origin'[p] = [release |-> k.from, verb |-> "campaign", alone |-> TRUE]
          BY ZenonT(40), <1>1, <1>4, <3>3 DEF Pending
        <4> QED BY ZenonT(40), <1>4, <2>5, <3>1, <3>3, <4>1, <4>2 DEF CampaignAlone, Staging
      <3> QED BY ZenonT(40), <2>2, <2>9, <3>2, <3>3 DEF CampaignAlone, Staging
    <2> QED BY <2>1, <2>8, <2>9
  <1> QED BY <1>6, <1>7 DEF Reset

\* A component is staged for the release the command was planned for, or is refused and
\* the command ends.  A campaign stages next to its own components only.
LEMMA StageMove ==
  ASSUME Inv, NEW o \in Operators, NEW p \in Paths, Stage(o, p)
  PROVE  /\ Inv' /\ (o \notin disturbed /\ CampaignAlone(op[o]) => CampaignAlone(op[o])')
         /\ (ServesState /\ o \notin disturbed => CampaignAlone(op[o])) /\ TransactionUniform =>
              TransactionUniform'
PROOF
  <1>1. op[o].pc = "stage" /\ p \in op[o].list /\ UNCHANGED <<channel, offered>>
    BY DEF Stage, rest
  <1>2. /\ rig \in Rig /\ RigSound /\ channel \in offered
        /\ offered \subseteq Releases /\ origin \in [Paths -> Origin \cup {None}]
    BY NodeFacts
  <1>3. CASE Finish(o, "error") /\ UNCHANGED <<rig, origin>>
    <2>1. PICK said \in Reports : Finish(o, said)
      BY <1>3 DEF Reports
    <2>2. Pending' = Pending
      BY <1>3 DEF Pending, Staged
    <2> QED BY <1>1, <1>3, <2>1, <2>2, QuietFinish, CalmNode
  <1>4. CASE Accepts(p, op[o].jobs[p])
    <2>1. PICK k \in Command : k = op[o]
      BY CommandFacts
    <2>2. JobsSound(k) /\ StepsSound(k) /\ k.pc = "stage" /\ p \in k.list
      BY <1>1, <2>1, CommandFacts
    <2>3. p \in k.step /\ p \in DOMAIN k.jobs /\ k.from \in offered /\ k.verb \in {"campaign", "flash"}
      BY <2>2 DEF JobsSound, StepsSound
    <2>4. PICK job \in Job : job = k.jobs[p]
      <3>1. PICK D \in SUBSET Paths : k.jobs \in [D -> Job]
        BY DEF Command
      <3> QED BY <2>3, <3>1
    <2>5. PICK by \in Origin :
            by = [release |-> k.from, verb |-> k.verb, alone |-> o \notin disturbed]
      <3>1. PICK alone \in BOOLEAN : alone = (o \notin disturbed)
        BY ZenonT(40)
      <3> QED BY ZenonT(40), <1>2, <2>3, <3>1 DEF Origin
    <2>6. ~job.removal => ImageOf(job.parts) = Image(k.from, p)
      BY <2>2, <2>3, <2>4 DEF JobsSound
    <2>7. rig' = StageOn(p, job) /\ origin' = Recorded(p, by)
      BY ZenonT(40), <1>4, <2>1, <2>4, <2>5 DEF Stage, Recorded, Pending
    <2>8. /\ rig' \in Rig /\ RigSound' /\ origin' \in [Paths -> Origin \cup {None}]
          /\ Staged' \subseteq Staged \cup {p}
          /\ p \in Irreversible => Pending' = Pending
          /\ p \notin Irreversible => /\ Pending' \subseteq Pending \cup {p}
                                     /\ rig'.committed = rig.committed
          /\ \A q \in Paths \ {p} : rig'.committed[q] = rig.committed[q]
      BY <1>1, <1>2, <2>3, <2>6, <2>7, StageRig
    <2>9. Node'
      BY <1>1, <1>2, <2>8 DEF Node
    <2>10. PICK list \in SUBSET Paths : list = k.list \ {p}
      BY ZenonT(40) DEF Command
    <2>11. PICK c : c = [k EXCEPT !.list = list]
      BY ZenonT(40)
    <2>12. op' = [op EXCEPT ![o] = c]
      BY <1>4, <2>1, <2>10, <2>11 DEF Stage, Go
    <2>13. /\ c \in Command /\ c.pc = "stage" /\ c.tree = k.tree /\ c.verb = k.verb
           /\ c.said = k.said /\ c.jobs = k.jobs /\ c.from = k.from /\ c.steps = k.steps
           /\ c.step = k.step /\ c.base = k.base /\ c.list \subseteq k.list
      BY ZenonT(40), <2>2, <2>10, <2>11 DEF Command
    <2>14. JobsSound(c)
      BY <2>2, <2>13 DEF JobsSound
    <2>15. StepsSound(c)
      BY <2>2, <2>13 DEF StepsSound, Staging
    <2>16. Inv' /\ op'[o] = c
      BY ZenonT(40), <1>1, <2>9, <2>12, <2>13, <2>14, <2>15, CommandMove DEF CommandSound
    <2>17. \A q \in Pending \cup {p} : origin'[q] = IF q = p THEN by ELSE origin[q]
      BY ZenonT(40), <1>2, <2>7, RigFields DEF Recorded, Pending, Staged
    <2>18. ASSUME CampaignAlone(k), k.verb = "campaign", o \notin disturbed
           PROVE  /\ CampaignAlone(c)'
                  /\ \A q \in Pending' : origin'[q] = by
      <3>1. \A q \in Paths \ (k.step \cap Irreversible) : rig.committed[q] = k.base[q]
        BY <2>2, <2>18 DEF CampaignAlone, Staging
      <3>2. \A q \in Paths \ (c.step \cap Irreversible) : rig'.committed[q] = c.base[q]
        <4>1. CASE p \in Irreversible
          BY <2>3, <2>8, <2>13, <3>1, <4>1
        <4>2. CASE p \notin Irreversible
          BY <2>8, <2>13, <3>1, <4>2
        <4> QED BY <4>1, <4>2
      <3>3. CASE Phase = "Idle" /\ \E x \in Irreversible : k.step = {x}
        <4>1. Pending' = {}
          BY <2>3, <2>8, <3>3, PhaseIdle
        <4>2. Phase' = "Idle"
          BY <4>1 DEF Phase, Pending
        <4> QED BY ZenonT(40), <2>13, <3>2, <3>3, <4>1, <4>2 DEF CampaignAlone, Staging
      <3>4. CASE /\ k.step \cap Irreversible = {} /\ Staged \subseteq k.step
                 /\ \A q \in Staged \cup rig.trial :
                      origin[q] = [release |-> k.from, verb |-> "campaign", alone |-> TRUE]
        <4>1. Pending' \subseteq Pending \cup {p}
          BY ZenonT(40), <2>3, <2>8, <3>4
        <4>2. by = [release |-> k.from, verb |-> "campaign", alone |-> TRUE]
          BY ZenonT(40), <2>5, <2>18
        <4>3. \A q \in Pending' : origin'[q] = by
          BY ZenonT(40), <2>17, <3>4, <4>1, <4>2 DEF Pending
        <4>4. CampaignAlone(c)'
          <5>1. Staged' \subseteq c.step
            BY <2>3, <2>8, <2>13, <3>4
          <5> QED BY ZenonT(40), <2>13, <3>2, <3>4, <4>2, <4>3, <5>1 DEF CampaignAlone, Staging, Pending
        <4> QED BY <4>3, <4>4
      <3> QED BY ZenonT(40), <2>2, <2>18, <3>3, <3>4 DEF CampaignAlone, Staging
    <2>19. o \notin disturbed /\ CampaignAlone(k) => CampaignAlone(c)'
      BY ZenonT(40), <2>13, <2>18 DEF CampaignAlone
    <2>20. ASSUME ServesState /\ o \notin disturbed => CampaignAlone(k), TransactionUniform
           PROVE  TransactionUniform'
      <3>1. CASE ~ServesState
        BY <3>1 DEF TransactionUniform
      <3>2. CASE ServesState /\ k.verb = "campaign" /\ o \notin disturbed
        BY ZenonT(40), <2>18, <2>20, <3>2 DEF TransactionUniform, Pending
      <3>3. CASE ServesState /\ (k.verb # "campaign" \/ o \in disturbed)
        <4>1. ~(by.verb = "campaign" /\ by.alone)
          BY ZenonT(40), <2>5, <3>3
        <4>2. Pending' \subseteq Pending \cup {p}
          BY <2>8
        <4>3. \A q \in Pending' : origin'[q].verb = "campaign" /\ origin'[q].alone =>
                q \in Pending /\ origin'[q] = origin[q]
          BY <2>17, <4>1, <4>2
        <4> QED BY <2>20, <3>3, <4>3 DEF TransactionUniform, Pending
      <3> QED BY ZenonT(40), <3>1, <3>2, <3>3
    <2> QED BY <2>1, <2>16, <2>19, <2>20
  <1> QED BY ZenonT(40), <1>3, <1>4 DEF Stage, history

-----------------------------------------------------------------------------
(* The steps.                                                              *)

\* Whatever a command does but stage leaves no more pending than there was.
LEMMA NothingPends ==
  ASSUME Inv, NEW o \in Operators,
         \/ Start(o) \/ ListComponents(o) \/ Preview(o) \/ CheckNode(o) \/ AskCampaign(o)
         \/ AskFlash(o) \/ GuardStep(o) \/ Healthy(o) \/ Unhealthy(o) \/ Fail(o)
         \/ Reset(o) \/ CommitStep(o) \/ RollbackStep(o)
         \/ \E p \in Paths : ReadInstalled(o, p) \/ ReadMalformed(o, p) \/ ReadAdmin(o, p)
  PROVE  Pending' \subseteq Pending /\ origin' = origin
PROOF
  <1>1. rig \in Rig /\ RigSound /\ rig.trial \in SUBSET Paths
    BY ZenonT(40), NodeFacts
  <1>2. CASE Reset(o)
    <2>1. PICK S \in SUBSET Staged : rig' = Activate(S)
      BY <1>2 DEF Reset
    <2> QED BY ZenonT(40), <1>1, <1>2, <2>1, ActivateRig DEF Reset, rest
  <1>3. CASE CommitStep(o)
    BY ZenonT(40), <1>1, <1>3, CommitRig DEF CommitStep, rest
  <1>4. CASE RollbackStep(o)
    BY ZenonT(40), <1>1, <1>4, RollbackRig DEF RollbackStep, rest
  <1>5. CASE UNCHANGED <<rig, origin>>
    BY ZenonT(40), <1>5 DEF Pending, Staged
  <1>6. CASE Start(o) \/ ListComponents(o) \/ Preview(o) \/ CheckNode(o) \/ AskCampaign(o)
    BY ZenonT(40), <1>5, <1>6 DEF Start, ListComponents, Preview, CheckNode, AskCampaign, Asks, history
  <1>7. CASE AskFlash(o) \/ GuardStep(o) \/ Healthy(o) \/ Unhealthy(o) \/ Fail(o)
    BY ZenonT(40), <1>5, <1>7 DEF AskFlash, Asks, GuardStep, Healthy, Unhealthy, Fail,
       history
  <1>8. ASSUME NEW p \in Paths, ReadInstalled(o, p) \/ ReadMalformed(o, p) \/ ReadAdmin(o, p)
        PROVE  UNCHANGED <<rig, origin>>
    BY ZenonT(40), <1>8 DEF ReadInstalled, ReadMalformed, ReadAdmin, history
  <1> QED BY <1>2, <1>3, <1>4, <1>5, <1>6, <1>7, <1>8

\* Every step of a command.
CommandStep(o) ==
  \/ Start(o) \/ Progress(o) \/ Unhealthy(o) \/ Fail(o)
  \/ \E p \in Paths : ReadMalformed(o, p)

\* Every step of a command keeps the invariant, and what is known of a lone campaign.
LEMMA CommandStepInv ==
  ASSUME Inv, NEW o \in Operators, CommandStep(o)
  PROVE  /\ Inv'
         /\ ServesState /\ o \notin disturbed /\ CampaignAlone(op[o]) => CampaignAlone(op[o])'
         /\ (ServesState /\ o \notin disturbed => CampaignAlone(op[o])) /\ TransactionUniform =>
              TransactionUniform'
PROOF
  <1>1. ASSUME NEW p \in Paths, Stage(o, p)
        PROVE  /\ Inv'
               /\ o \notin disturbed /\ CampaignAlone(op[o]) => CampaignAlone(op[o])'
               /\ (ServesState /\ o \notin disturbed => CampaignAlone(op[o]))
                    /\ TransactionUniform => TransactionUniform'
    BY ZenonT(40), <1>1, StageMove
  <1>2. CASE \/ Start(o) \/ ListComponents(o) \/ Preview(o) \/ CheckNode(o) \/ AskCampaign(o)
             \/ AskFlash(o) \/ GuardStep(o) \/ Healthy(o) \/ Unhealthy(o) \/ Fail(o)
             \/ Reset(o) \/ CommitStep(o) \/ RollbackStep(o)
             \/ \E p \in Paths : ReadInstalled(o, p) \/ ReadMalformed(o, p) \/ ReadAdmin(o, p)
    <2>1. TransactionUniform => TransactionUniform'
      BY ZenonT(40), <1>2, NothingPends, CalmNode
    <2>2. Inv' /\ (ServesState /\ CampaignAlone(op[o]) => CampaignAlone(op[o])')
      BY ZenonT(40), <1>2, StartMove, ListMove, PreviewMove, CheckMove, AskMove, GuardMove, HealthMove,
         FailMove, ResetMove, CommitMove, RollbackMove, ReadMove, AdminMove
    <2> QED BY ZenonT(40), <2>1, <2>2
  <1> QED BY ZenonT(40), <1>1, <1>2 DEF CommandStep, Progress

\* A command moves by itself, and disturbs the others when it changes the node.  Only its
\* check makes it undisturbed.
LEMMA CommandTouches ==
  ASSUME Inv, NEW o \in Operators, CommandStep(o)
  PROVE  /\ \A q \in Operators \ {o} : op'[q] = op[q]
         /\ disturbed \ {o} \subseteq disturbed'
         /\ UNCHANGED <<rig, origin>> \/ Operators \ {o} \subseteq disturbed'
         /\ o \in disturbed /\ o \notin disturbed' => CheckNode(o)
PROOF
  <1> DEFINE Still == UNCHANGED <<rig, origin, disturbed>>
             Goes == \E c : Go(o, c)
  <1>1. Goes => \A q \in Operators \ {o} : op'[q] = op[q]
    BY InvParts DEF Go
  <1>2. \A said : Finish(o, said) => Goes
    BY ZenonT(40) DEF Finish
  <1> HIDE DEF Still, Goes
  <1>3. CASE CheckNode(o)
    <2>1. Goes /\ UNCHANGED <<rig, origin>> /\ disturbed \ {o} \subseteq disturbed'
      BY ZenonT(40), <1>2, <1>3 DEF CheckNode, Goes
    <2> QED BY <1>1, <1>3, <2>1
  <1>4. CASE Goes /\ Still
    BY <1>1, <1>4 DEF Still
  <1>5. CASE Goes /\ Acts(o)
    BY <1>1, <1>5 DEF Acts
  <1>6. NextStep(o) => Goes
    BY ZenonT(40), <1>2 DEF NextStep, Goes
  <1>7. CASE Start(o) \/ ListComponents(o) \/ Preview(o)
    BY ZenonT(40), <1>2, <1>4, <1>7 DEF Start, ListComponents, Preview, Still, Goes, history
  <1>8. ASSUME AskCampaign(o) \/ AskFlash(o) PROVE Goes /\ Still
    BY ZenonT(40), <1>2, <1>8 DEF AskCampaign, AskFlash, Asks, Still, Goes, history
  <1>9. CASE GuardStep(o)
    BY ZenonT(40), <1>2, <1>4, <1>9 DEF GuardStep, Still, Goes, history
  <1>10. CASE Healthy(o) \/ Unhealthy(o) \/ Fail(o)
    BY ZenonT(40), <1>2, <1>4, <1>6, <1>10 DEF Healthy, Unhealthy, Fail, Still, Goes, history
  <1>11. CASE Reset(o) \/ CommitStep(o) \/ RollbackStep(o)
    BY ZenonT(40), <1>2, <1>5, <1>6, <1>11 DEF Reset, CommitStep, RollbackStep, Goes
  <1>12. ASSUME NEW p \in Paths, Stage(o, p)
         PROVE  Goes /\ (Still \/ Acts(o))
    BY ZenonT(40), <1>2, <1>12 DEF Stage, Still, Goes, history
  <1>13. ASSUME NEW p \in Paths, ReadInstalled(o, p) \/ ReadMalformed(o, p) \/ ReadAdmin(o, p)
         PROVE  Goes /\ Still
    BY ZenonT(40), <1>13 DEF ReadInstalled, ReadMalformed, ReadAdmin, Still, Goes, history
  <1> QED BY ZenonT(40), <1>3, <1>4, <1>5, <1>7, <1>8, <1>9, <1>10, <1>11, <1>12, <1>13
          DEF CommandStep, Progress

\* A step that leaves the commands as they are.
NodeStep ==
  \/ \E S \in SUBSET Staged : rig' = Activate(S)
  \/ \E S \in SUBSET Paths : rig' = CommitTrial(S) \/ rig' = RollbackTrial(S)

VerdictStep(o) ==
  \/ CommitTrials(o) \/ RollbackTrials(o)
  \/ \E S \in SUBSET Paths : CommitAll(o, S) \/ RollbackAll(o, S)
  \/ \E p \in Paths : ResetComponent(o, p) \/ CommitComponent(o, p) \/ RollbackComponent(o, p)

\* A verdict verb is an engine call, made by an operator who runs no command.
LEMMA VerdictIsNodeStep ==
  ASSUME Inv, NEW o \in Operators, VerdictStep(o)
  PROVE  NodeStep /\ op[o].pc = "idle" /\ Acts(o) /\ UNCHANGED <<channel, offered, op, origin>>
PROOF
  <1>1. rig.trial \in SUBSET Paths
    BY NodeFacts
  <1>2. op[o].pc = "idle" /\ Acts(o) /\ UNCHANGED <<channel, offered, op, origin>>
    BY ZenonT(40) DEF VerdictStep, CommitTrials, RollbackTrials, CommitAll, RollbackAll, ResetComponent,
           CommitComponent, RollbackComponent, Verdict, rest
  <1>3. CASE \/ CommitTrials(o) \/ RollbackTrials(o)
             \/ \E S \in SUBSET Paths : CommitAll(o, S) \/ RollbackAll(o, S)
    <2>1. rig' = CommitTrial(rig.trial) \/ rig' = RollbackTrial(rig.trial)
      BY ZenonT(40), <1>3 DEF CommitTrials, RollbackTrials, CommitAll, RollbackAll, Verdict
    <2>2. PICK S \in SUBSET Paths : S = rig.trial
      BY <1>1
    <2>3. rig' = CommitTrial(S) \/ rig' = RollbackTrial(S)
      BY <2>1, <2>2
    <2> QED BY <1>2, <2>3 DEF NodeStep
  <1>4. ASSUME NEW p \in Paths,
               ResetComponent(o, p) \/ CommitComponent(o, p) \/ RollbackComponent(o, p)
        PROVE  NodeStep
    <2>1. {p} \in SUBSET Paths /\ (p \in Staged => {p} \in SUBSET Staged)
      OBVIOUS
    <2> QED BY <1>4, <2>1 DEF ResetComponent, CommitComponent, RollbackComponent, Verdict, NodeStep
  <1> QED BY ZenonT(40), <1>2, <1>3, <1>4 DEF VerdictStep

\* Commands that do not move stay sound while the node moves and more is offered.
LEMMA CommandsKept ==
  ASSUME Inv, Node', offered \subseteq offered', op' = op
  PROVE  Inv'
PROOF
  <1>1. op \in [Operators -> Command] /\ \A o \in Operators : CommandSound(op[o])
    BY InvParts
  <1>2. ASSUME NEW o \in Operators PROVE CommandSound(op[o])'
    <2>1. PICK c : c = op[o] /\ CommandSound(c)
      BY ZenonT(40), <1>1
    <2>2. CommandSound(c)'
      BY <2>1 DEF CommandSound, JobsSound, StepsSound
    <2>3. c = op'[o]
      BY <2>1
    <2> QED BY ZenonT(40), <2>2, <2>3 DEF CommandSound, JobsSound, StepsSound
  <1>3. (op \in [Operators -> Command])'
    BY <1>1
  <1> QED BY <1>2, <1>3 DEF Inv, TypeOK, Node, CommandSound

\* An engine call keeps the invariant.
LEMMA NodeStepInv ==
  ASSUME Inv, NodeStep, UNCHANGED <<channel, offered, op, origin>>
  PROVE  Inv' /\ Pending' \subseteq Pending /\ Staged' \subseteq Staged
PROOF
  <1>1. /\ rig \in Rig /\ RigSound /\ channel \in offered
        /\ offered \subseteq Releases /\ origin \in [Paths -> Origin \cup {None}]
    BY NodeFacts
  <1>2. rig' \in Rig /\ RigSound' /\ Pending' \subseteq Pending /\ Staged' \subseteq Staged
    BY ZenonT(40), <1>1, ActivateRig, CommitRig, RollbackRig DEF NodeStep
  <1>3. Node'
    BY <1>1, <1>2 DEF Node
  <1> QED BY <1>2, <1>3, CommandsKept

\* The channel moves: there is one more offered release.
LEMMA MoveChannelInv ==
  ASSUME Inv, NEW r \in Releases, MoveChannel(r)
  PROVE  Inv' /\ UNCHANGED <<rig, op, origin, disturbed>>
PROOF
  <1>1. channel' = r /\ offered' = offered \cup {r} /\ UNCHANGED <<rig, op, origin, disturbed>>
    BY DEF MoveChannel
  <1>2. Staged' = Staged
    BY <1>1 DEF Staged
  <1>3. Node'
    BY <1>1, <1>2, NodeFacts DEF Node, RigSound
  <1> QED BY <1>1, <1>3, CommandsKept

\* Every step is the channel's, the node's, a verdict or a command's.
LEMMA NextCases ==
  ASSUME Inv, [Next]_vars
  PROVE  \/ \E r \in Releases : MoveChannel(r)
         \/ NodeStep /\ UNCHANGED <<channel, offered, op, origin>>
            /\ \/ rig'.committed = rig.committed /\ disturbed' = disturbed
               \/ \E o \in Operators : op[o].pc = "idle" /\ Acts(o)
         \/ \E o \in Operators : CommandStep(o)
         \/ UNCHANGED vars
PROOF
  <1>1. /\ rig \in Rig /\ RigSound /\ rig.trial \in SUBSET Paths
    BY NodeFacts
  <1>2. CASE Reboot
    <2>1. UNCHANGED <<channel, offered, op, origin, disturbed>>
      BY <1>2 DEF Reboot
    <2>2. PICK S \in SUBSET Staged : rig' = Activate(S)
      BY <1>2 DEF Reboot
    <2>3. rig'.committed = rig.committed
      BY ZenonT(40), <1>1, <2>1, <2>2, ActivateRig
    <2> QED BY ZenonT(40), <2>1, <2>2, <2>3 DEF NodeStep
  <1>3. CASE Revert
    <2>1. UNCHANGED <<channel, offered, op, origin, disturbed>>
      BY <1>3 DEF Revert
    <2>2. PICK S \in SUBSET Paths : rig' = RollbackTrial(S)
      BY <1>1, <1>3 DEF Revert
    <2>3. rig'.committed = rig.committed
      BY ZenonT(40), <1>1, <2>1, <2>2, RollbackRig
    <2> QED BY <2>1, <2>2, <2>3 DEF NodeStep
  <1>4. ASSUME NEW o \in Operators, VerdictStep(o)
        PROVE  /\ NodeStep /\ UNCHANGED <<channel, offered, op, origin>>
               /\ \E q \in Operators : op[q].pc = "idle" /\ Acts(q)
    BY <1>4, VerdictIsNodeStep
  <1>5. \/ Reboot \/ Revert \/ \E r \in Releases : MoveChannel(r)
        \/ \E o \in Operators : CommandStep(o) \/ VerdictStep(o)
        \/ UNCHANGED vars
    BY DEF Next, CommandStep, VerdictStep
  <1> QED BY <1>2, <1>3, <1>4, <1>5

\* The first state.
LEMMA InitInv == Init => CalmInv
PROOF
  <1> SUFFICES ASSUME Init PROVE CalmInv
    OBVIOUS
  <1>1. /\ rig.active = InitialRig /\ rig.committed = InitialRig
        /\ rig.staged = [p \in Paths |-> None] /\ rig.trial = {}
        /\ channel \in Releases /\ offered = {channel} /\ origin = [p \in Paths |-> None]
    BY DEF Init
  <1>2. rig \in Rig
    BY CampaignAssumption DEF Init, Rig, Images
  <1>3. Staged = {}
    BY <1>1 DEF Staged
  <1>4. RigSound
    BY <1>1, <1>3 DEF RigSound
  <1>5. \A o \in Operators : CommandSound(op[o]) /\ CampaignAlone(op[o])
    <2>1. PICK c : c = Idle
      OBVIOUS
    <2>2. CommandSound(c) /\ CampaignAlone(c)
      BY <2>1, IdleSound
    <2> QED BY <2>1, <2>2 DEF Init
  <1>6. op \in [Operators -> Command]
    BY <1>5 DEF Init, CommandSound
  <1>7. Inv
    BY <1>1, <1>2, <1>4, <1>5, <1>6 DEF Inv, TypeOK, CommandSound
  <1>8. TransactionUniform
    BY <1>1, <1>3 DEF TransactionUniform
  <1> QED BY <1>5, <1>7, <1>8 DEF CalmInv

\* A step keeps the invariant.
LEMMA NextInv ==
  ASSUME Inv, [Next]_vars
  PROVE  Inv'
PROOF
  <1>1. CASE UNCHANGED vars
    <2>1. UNCHANGED <<rig, channel, offered, op, origin>>
      BY <1>1 DEF vars
    <2>2. Staged' = Staged
      BY <2>1 DEF Staged
    <2>3. Node'
      BY <2>1, <2>2, NodeFacts DEF Node, RigSound
    <2> QED BY <2>1, <2>3, CommandsKept
  <1> QED BY <1>1, NextCases, MoveChannelInv, NodeStepInv, CommandStepInv

\* It keeps what is known of the campaigns that nobody disturbed.
LEMMA NextCalm ==
  ASSUME CalmInv, [Next]_vars
  PROVE  CalmInv'
PROOF
  <1>1. Inv /\ TransactionUniform
    BY DEF CalmInv
  <1>2. Inv'
    BY <1>1, NextInv
  <1>3. CASE ~ServesState
    BY <1>2, <1>3 DEF CalmInv, TransactionUniform
  <1> SUFFICES ASSUME ServesState PROVE CalmInv'
    BY <1>3
  <1>4. \A o \in Operators : o \notin disturbed => CampaignAlone(op[o])
    BY DEF CalmInv
  <1>5. CASE TransactionUniform' /\ \A o \in Operators : o \notin disturbed' => CampaignAlone(op[o])'
    BY <1>2, <1>5 DEF CalmInv
  <1>6. CASE /\ Pending' \subseteq Pending /\ Staged' \subseteq Staged
             /\ rig'.committed = rig.committed /\ UNCHANGED <<op, origin, disturbed>>
    <2>1. TransactionUniform'
      BY <1>1, <1>6, CalmNode
    <2>2. ASSUME NEW o \in Operators, o \notin disturbed' PROVE CampaignAlone(op[o])'
      <3>1. PICK c \in Command : c = op[o]
        BY <1>1, CommandFacts
      <3>2. CampaignAlone(c)'
        BY <1>4, <1>6, <2>2, <3>1, CalmNode
      <3> QED BY ZenonT(40), <1>6, <3>1, <3>2 DEF CampaignAlone
    <2> QED BY <1>5, <2>1, <2>2
  <1>7. ASSUME NEW r \in Releases, MoveChannel(r) PROVE CalmInv'
    <2>1. UNCHANGED <<rig, op, origin, disturbed>>
      BY <1>1, <1>7, MoveChannelInv
    <2>2. Pending' = Pending /\ Staged' = Staged
      BY <2>1 DEF Pending, Staged
    <2> QED BY <1>6, <2>1, <2>2
  <1>8. CASE /\ NodeStep /\ UNCHANGED <<channel, offered, op, origin>>
             /\ \/ rig'.committed = rig.committed /\ disturbed' = disturbed
                \/ \E o \in Operators : op[o].pc = "idle" /\ Acts(o)
    <2>1. Pending' \subseteq Pending /\ Staged' \subseteq Staged
      BY <1>1, <1>8, NodeStepInv
    <2>2. ASSUME NEW o \in Operators, op[o].pc = "idle", Acts(o) PROVE CalmInv'
      <3>1. \A q \in Operators : q \notin disturbed' => op'[q].pc = "idle"
        BY <1>8, <2>2 DEF Acts
      <3>2. \A q \in Operators : q \notin disturbed' => CampaignAlone(op[q])'
        BY <3>1 DEF CampaignAlone, Staging
      <3>3. TransactionUniform'
        BY <1>1, <1>8, <2>1, CalmNode
      <3> QED BY <1>5, <3>2, <3>3
    <2> QED BY <1>6, <1>8, <2>1, <2>2
  <1>9. ASSUME NEW o \in Operators, CommandStep(o) PROVE CalmInv'
    <2>1. TransactionUniform'
      BY <1>1, <1>4, <1>9, CommandStepInv
    <2>2. o \notin disturbed' => CampaignAlone(op[o])'
      BY <1>1, <1>4, <1>9, CommandStepInv, CommandTouches, CheckMove
    <2>3. ASSUME NEW q \in Operators, q # o, q \notin disturbed' PROVE CampaignAlone(op[q])'
      <3>1. op'[q] = op[q] /\ q \notin disturbed /\ UNCHANGED <<rig, origin>>
        BY <1>1, <1>9, <2>3, CommandTouches
      <3>2. PICK c \in Command : c = op[q]
        BY <1>1, CommandFacts
      <3>3. Pending' = Pending /\ Staged' = Staged
        BY <3>1 DEF Pending, Staged
      <3>4. CampaignAlone(c)'
        BY <1>4, <2>3, <3>1, <3>2, <3>3, CalmNode
      <3> QED BY ZenonT(40), <3>1, <3>2, <3>4 DEF CampaignAlone
    <2> QED BY <1>5, <2>1, <2>2, <2>3
  <1>10. CASE UNCHANGED vars
    <2>1. UNCHANGED <<rig, op, origin, disturbed>>
      BY <1>10 DEF vars
    <2>2. Pending' = Pending /\ Staged' = Staged
      BY <2>1 DEF Pending, Staged
    <2> QED BY <1>6, <2>1, <2>2
  <1> QED BY <1>1, <1>7, <1>8, <1>9, <1>10, NextCases

-----------------------------------------------------------------------------
(* The refinement, step by step.                                           *)

\* Booting what is staged installs images of offered releases.
LEMMA ActivateUpdates ==
  ASSUME Inv, NEW S \in SUBSET Staged, rig' = Activate(S), UNCHANGED <<offered, origin>>
  PROVE  Updates!Next
PROOF
  <1>1. rig \in Rig /\ RigSound
    BY NodeFacts
  <1>2. /\ rig'.committed = rig.committed
        /\ rig'.active = [p \in Paths |-> IF p \in S THEN rig.staged[p] ELSE rig.active[p]]
    BY <1>1, ActivateRig
  <1>3. /\ S \in SUBSET Paths /\ S \cap Irreversible = {}
        /\ \A p \in S : \E r \in offered : rig.staged[p] = Image(r, p)
    BY <1>1 DEF RigSound, Staged
  <1> DEFINE from == [p \in S |-> CHOOSE r \in offered : rig.staged[p] = Image(r, p)]
  <1>4. /\ from \in [S -> offered] /\ DOMAIN from = S
        /\ \A p \in S : Image(from[p], p) = rig.staged[p]
    BY <1>3
  <1> HIDE DEF from
  <1>5. rig'.active = [p \in Paths |-> IF p \in DOMAIN from THEN Image(from[p], p) ELSE rig.active[p]]
    BY ZenonT(40), <1>2, <1>4
  <1>6. rig'.committed = [p \in Paths |-> IF p \in DOMAIN from \cap Irreversible
                                           THEN Image(from[p], p) ELSE rig.committed[p]]
    BY ZenonT(40), <1>1, <1>2, <1>3, <1>4, RigFields
  <1>7. Updates!Install(from)
    BY <1>5, <1>6 DEF Updates!Install
  <1> QED BY <1>3, <1>4, <1>7 DEF Updates!Next

\* A commit settles, and a rollback goes back.
LEMMA VerdictUpdates ==
  ASSUME Inv, NEW S \in SUBSET Paths, rig' = CommitTrial(S) \/ rig' = RollbackTrial(S),
         UNCHANGED <<offered, origin>>
  PROVE  Updates!Next
PROOF
  <1>1. rig \in Rig /\ RigSound
    BY NodeFacts
  <1>2. CASE rig' = CommitTrial(S)
    <2>1. Updates!Settle(S)
      BY <1>1, <1>2, CommitRig DEF Updates!Settle
    <2> QED BY <2>1 DEF Updates!Next
  <1>3. CASE rig' = RollbackTrial(S)
    <2>1. Updates!GoBack(S)
      BY <1>1, <1>3, RollbackRig DEF Updates!GoBack
    <2> QED BY <2>1 DEF Updates!Next
  <1> QED BY <1>2, <1>3

\* Staging installs a singleshot at once, and shows nothing of a banked component.
LEMMA StageUpdates ==
  ASSUME Inv, NEW o \in Operators, NEW p \in Paths, Stage(o, p)
  PROVE  Updates!Next \/ (rig'.active = rig.active /\ rig'.committed = rig.committed /\ offered' = offered)
PROOF
  <1>1. op[o].pc = "stage" /\ p \in op[o].list /\ UNCHANGED <<channel, offered>>
    BY DEF Stage, rest
  <1>2. /\ rig \in Rig /\ RigSound /\ offered \subseteq Releases
        /\ origin \in [Paths -> Origin \cup {None}]
    BY NodeFacts
  <1>3. CASE UNCHANGED rig
    BY <1>1, <1>3
  <1>4. CASE Accepts(p, op[o].jobs[p])
    <2>1. PICK k \in Command : k = op[o]
      BY CommandFacts
    <2>2. JobsSound(k) /\ StepsSound(k) /\ k.pc = "stage" /\ p \in k.list
      BY <1>1, <2>1, CommandFacts
    <2>3. p \in DOMAIN k.jobs /\ k.from \in offered /\ k.verb \in {"campaign", "flash"}
      BY ZenonT(40), <2>2 DEF JobsSound, StepsSound
    <2>4. PICK job \in Job : job = k.jobs[p]
      <3>1. PICK D \in SUBSET Paths : k.jobs \in [D -> Job]
        BY DEF Command
      <3> QED BY <2>3, <3>1
    <2>5. ~job.removal => ImageOf(job.parts) = Image(k.from, p)
      BY ZenonT(40), <2>2, <2>3, <2>4 DEF JobsSound
    <2>6. rig' = StageOn(p, job)
      BY <1>4, <2>1, <2>4 DEF Stage
    <2>7. /\ job.removal \/ p \notin Irreversible =>
               rig'.active = rig.active /\ rig'.committed = rig.committed
          /\ ~job.removal /\ p \in Irreversible =>
               /\ rig'.active = [rig.active EXCEPT ![p] = ImageOf(job.parts)]
               /\ rig'.committed = [rig.committed EXCEPT ![p] = ImageOf(job.parts)]
      BY ZenonT(40), <1>2, <2>6, StageImages
    <2>8. CASE ~job.removal /\ p \in Irreversible
      <3>1. PICK r \in offered : r = k.from
        BY <2>3
      <3> DEFINE image == ImageOf(job.parts)
      <3>2. /\ rig'.active = [rig.active EXCEPT ![p] = image]
            /\ rig'.committed = [rig.committed EXCEPT ![p] = image]
            /\ image = Image(r, p)
        BY ZenonT(40), <2>5, <2>7, <2>8, <3>1
      <3> HIDE DEF image
      <3>3. PICK from \in [{p} -> offered] : from[p] = r
        <4>1. [q \in {p} |-> r] \in [{p} -> offered] /\ [q \in {p} |-> r][p] = r
          OBVIOUS
        <4> QED BY ZenonT(40), <4>1
      <3>4. DOMAIN from = {p} /\ DOMAIN from \cap Irreversible = {p} /\ Image(from[p], p) = image
        BY ZenonT(40), <2>8, <3>2, <3>3
      <3>5. DOMAIN rig.active = Paths /\ DOMAIN rig.committed = Paths
        BY ZenonT(40), <1>2, RigFields
      <3>6. rig'.active = [q \in Paths |-> IF q \in DOMAIN from THEN Image(from[q], q)
                                           ELSE rig.active[q]]
        BY <3>2, <3>4, <3>5
      <3>7. rig'.committed = [q \in Paths |-> IF q \in DOMAIN from \cap Irreversible
                                              THEN Image(from[q], q) ELSE rig.committed[q]]
        BY ZenonT(40), <3>2, <3>4, <3>5
      <3>8. Updates!Install(from)
        BY <1>1, <3>6, <3>7 DEF Updates!Install
      <3>9. {p} \in SUBSET Paths
        OBVIOUS
      <3> QED BY ZenonT(40), <3>3, <3>8, <3>9 DEF Updates!Next
    <2> QED BY ZenonT(40), <1>1, <2>7, <2>8
  <1> QED BY <1>3, <1>4 DEF Stage

\* No other step of a command changes what runs or what is committed in another way.
LEMMA CommandUpdates ==
  ASSUME Inv, NEW o \in Operators, CommandStep(o)
  PROVE  Updates!Next \/ (rig'.active = rig.active /\ rig'.committed = rig.committed /\ offered' = offered)
PROOF
  <1>1. rig.trial \in SUBSET Paths
    BY NodeFacts
  <1>2. CASE Reset(o)
    <2>1. PICK S \in SUBSET Staged : rig' = Activate(S)
      BY <1>2 DEF Reset
    <2> QED BY <1>2, <2>1, ActivateUpdates DEF Reset, rest
  <1>3. CASE CommitStep(o)
    BY ZenonT(40), <1>1, <1>3, VerdictUpdates DEF CommitStep, rest
  <1>4. CASE RollbackStep(o)
    BY <1>1, <1>4, VerdictUpdates DEF RollbackStep, rest
  <1>5. ASSUME NEW p \in Paths, Stage(o, p)
        PROVE  Updates!Next \/ (rig'.active = rig.active /\ rig'.committed = rig.committed
                                /\ offered' = offered)
    BY <1>5, StageUpdates
  <1>6. CASE Start(o) \/ ListComponents(o) \/ Preview(o) \/ CheckNode(o) \/ AskCampaign(o)
    BY ZenonT(40), <1>6 DEF Start, ListComponents, Preview, CheckNode, AskCampaign, Asks, rest
  <1>7. CASE AskFlash(o) \/ GuardStep(o) \/ Healthy(o) \/ Unhealthy(o) \/ Fail(o)
    BY ZenonT(40), <1>7 DEF AskFlash, Asks, GuardStep, Healthy, Unhealthy, Fail, rest
  <1>8. ASSUME NEW p \in Paths, ReadInstalled(o, p) \/ ReadMalformed(o, p) \/ ReadAdmin(o, p)
        PROVE  UNCHANGED <<rig, offered>>
    BY <1>8 DEF ReadInstalled, ReadMalformed, ReadAdmin, rest
  <1> QED BY <1>2, <1>3, <1>4, <1>5, <1>6, <1>7, <1>8 DEF CommandStep, Progress

-----------------------------------------------------------------------------
(* The theorems.                                                           *)

\* Every state that any operators reach satisfies the inductive invariant.
THEOREM CampaignInvariant == Spec => []Inv
PROOF
  <1>1. Init => Inv
    BY InitInv DEF CalmInv
  <1> QED BY <1>1, NextInv, PTL DEF Spec

\* The rig and the commands keep their types.
THEOREM CampaignTypeOK == Spec => []TypeOK
PROOF
  <1>1. Inv => TypeOK
    BY DEF Inv
  <1> QED BY <1>1, CampaignInvariant, PTL

\* The rig is updated as RigUpdates promises, by any number of operators at once: what
\* runs comes from offered releases, is settled, or goes back to what was settled.
THEOREM UpdatesRefined == Spec => ImplementsUpdates
PROOF
  <1>1. Init => Updates!Init
    <2> SUFFICES ASSUME Init PROVE Updates!Init
      OBVIOUS
    <2>1. /\ rig.active = InitialRig /\ rig.committed = InitialRig
          /\ channel \in Releases /\ offered = {channel}
      BY DEF Init
    <2> QED BY <2>1, CampaignAssumption DEF Updates!Init
  <1>2. Inv /\ [Next]_vars => [Updates!Next]_(Updates!updateVars)
    <2> SUFFICES ASSUME Inv, [Next]_vars
                 PROVE  Updates!Next \/ (rig'.active = rig.active /\ rig'.committed = rig.committed
                                         /\ offered' = offered)
      BY ZenonT(40) DEF Updates!updateVars
    <2>1. ASSUME NEW r \in Releases, MoveChannel(r) PROVE Updates!Next
      <3>1. Updates!Offer(r)
        BY <2>1 DEF MoveChannel, Updates!Offer
      <3> QED BY <3>1 DEF Updates!Next
    <2>2. CASE NodeStep /\ UNCHANGED <<channel, offered, op, origin>>
      BY <2>2, ActivateUpdates, VerdictUpdates DEF NodeStep
    <2>3. CASE UNCHANGED vars
      BY <2>3 DEF vars
    <2> QED BY ZenonT(40), <2>1, <2>2, <2>3, CommandUpdates, NextCases
  <1>3. Spec => Updates!Spec
    BY <1>1, <1>2, CampaignInvariant, PTL DEF Spec, Updates!Spec
  <1> QED BY <1>3 DEF ImplementsUpdates

\* On a rig that serves its state, a campaign that nobody disturbed since its check is
\* alone with its transaction.
THEOREM CalmInvariant == Spec => []CalmInv
PROOF
  <1>1. CalmInv /\ [Next]_vars => CalmInv'
    BY NextCalm
  <1> QED BY <1>1, InitInv, PTL DEF Spec

\* run_rig's refusal keeps transactions apart: what undisturbed campaigns have pending on
\* the node is of one release, over failures, reboots, retries and a moving channel.
THEOREM TransactionsUniform == Spec => []TransactionUniform
PROOF
  <1>1. CalmInv => TransactionUniform
    BY DEF CalmInv
  <1> QED BY <1>1, CalmInvariant, PTL

\* A step of a campaign begins on a node without an unresolved transaction, unless
\* another operator acted on the node after the campaign's check.
THEOREM StepsStartResolved == Spec => StepStartsResolved
PROOF
  <1> DEFINE Kept ==
        ServesState => \A o \in Operators \ disturbed :
          op[o].verb = "campaign" /\ op[o].pc = "guard" /\ op'[o].pc = "stage" => Phase = "Idle"
  <1>1. CalmInv => Kept
    BY ZenonT(40) DEF CalmInv, CampaignAlone
  <1> HIDE DEF Kept
  <1>2. CalmInv /\ [Next]_vars => [Kept]_vars
    BY <1>1
  <1>3. Spec => [][Kept]_vars
    BY <1>2, CalmInvariant, PTL DEF Spec
  <1> QED BY <1>3 DEF Kept, StepStartsResolved

\* Whoever's command moves took the step.
LEMMA OwnStep ==
  ASSUME Inv, [Next]_vars, NEW o \in Operators, op'[o] # op[o]
  PROVE  CommandStep(o)
PROOF
  <1>1. op' = op \/ \E q \in Operators : CommandStep(q)
    BY NextCases, MoveChannelInv DEF vars
  <1> QED BY <1>1, CommandTouches

\* A rollback leaves the images that ran when the step began, but for the step's
\* singleshot.
THEOREM AbortsUndone == Spec => AbortUndone
PROOF
  <1> DEFINE Kept ==
        ServesState => \A o \in Operators \ disturbed :
          op[o].pc = "rollback" /\ op'[o].said = "unhealthy" =>
            \A p \in Paths \ (op[o].step \cap Irreversible) : rig'.active[p] = op[o].base[p]
  <1>1. ASSUME CalmInv, [Next]_vars PROVE Kept
    <2> SUFFICES ASSUME ServesState, NEW o \in Operators \ disturbed,
                        op[o].pc = "rollback", op'[o].said = "unhealthy"
                 PROVE  \A p \in Paths \ (op[o].step \cap Irreversible) :
                          rig'.active[p] = op[o].base[p]
      OBVIOUS
    <2>1. Inv /\ CampaignAlone(op[o]) /\ StepsSound(op[o])
      BY <1>1 DEF CalmInv, Inv
    <2>2. rig \in Rig /\ RigSound /\ rig.trial \in SUBSET Paths
      BY <2>1, NodeFacts
    <2>3. op'[o] # op[o]
      <3>1. op[o].said = None /\ "unhealthy" \in Reports
        BY <2>1 DEF StepsSound, Reports
      <3> QED BY <3>1, CampaignAssumption
    <2>4. CommandStep(o)
      BY <1>1, <2>1, <2>3, OwnStep
    <2>5. ~Fail(o)
      BY <2>1, FailMove
    <2>6. RollbackStep(o)
      BY <2>4, <2>5 DEF CommandStep, Progress, Start, ListComponents, Preview, CheckNode,
         AskCampaign, AskFlash, Asks, GuardStep, Reset, Healthy, CommitStep, ReadInstalled,
         ReadAdmin, ReadMalformed, Stage, Unhealthy
    <2>7. rig'.active = [p \in Paths |-> IF p \in rig.trial THEN rig.committed[p] ELSE rig.active[p]]
      BY <2>2, <2>6, RollbackRig DEF RollbackStep, rest
    <2>8. \A p \in Paths : rig'.active[p] = rig.committed[p]
      BY ZenonT(40), <2>2, <2>7 DEF RigSound
    <2>9. op[o].verb = "campaign"
      BY <2>1 DEF StepsSound
    <2>10. \A p \in Paths \ (op[o].step \cap Irreversible) : rig.committed[p] = op[o].base[p]
      BY <2>1, <2>9 DEF CampaignAlone, Staging
    <2> QED BY <2>8, <2>10
  <1> HIDE DEF Kept
  <1>2. CalmInv /\ [Next]_vars => [Kept]_vars
    BY <1>1
  <1>3. Spec => [][Kept]_vars
    BY <1>2, CalmInvariant, PTL DEF Spec
  <1> QED BY <1>3 DEF Kept, AbortUndone

\* What a command reports: nothing while it goes on.
LEMMA SaidOf ==
  ASSUME Inv, NEW o \in Operators, op[o].pc # "idle"
  PROVE  /\ op[o].said = None /\ "complete" # None /\ "unhealthy" # None
         /\ \A said : Finish(o, said) => op'[o].said = said
         /\ \A c : Go(o, c) => op'[o] = c
PROOF
  <1>1. op \in [Operators -> Command] /\ StepsSound(op[o])
    BY ZenonT(40) DEF Inv, TypeOK
  <1>2. op[o].said = None /\ "complete" # None /\ "unhealthy" # None
    BY <1>1, CampaignAssumption DEF StepsSound, Reports
  <1>3. \A c : Go(o, c) => op'[o] = c
    BY <1>1 DEF Go
  <1>4. ASSUME NEW said, Finish(o, said) PROVE op'[o].said = said
    BY <1>3, <1>4 DEF Finish, Idle
  <1> QED BY <1>2, <1>3, <1>4

\* A campaign says that it is over when it has nothing to do, or after a verdict.
LEMMA OverBy ==
  ASSUME Inv, NEW o \in Operators, CommandStep(o), op[o].pc # "idle", op[o].verb = "campaign",
         op'[o].said = "unhealthy" \/ (op'[o].said = "complete" /\ ~op[o].noCommit)
  PROVE  AskCampaign(o) \/ CommitStep(o) \/ RollbackStep(o)
PROOF
  <1>1. PICK k \in Command : k = op[o]
    BY CommandFacts
  <1>2. /\ k.said = None /\ op'[o].said # None /\ k.verb = "campaign"
        /\ \A said : Finish(o, said) => op'[o].said = said
        /\ \A c : Go(o, c) => op'[o] = c
    BY ZenonT(40), <1>1, SaidOf
  <1>3. ~Start(o) /\ ~Fail(o)
    BY ZenonT(40), <1>2 DEF Start, Fail
  <1>4. ~ListComponents(o) /\ ~Unhealthy(o)
    BY ZenonT(40), <1>1, <1>2 DEF ListComponents, Unhealthy, Command
  <1>5. ~Preview(o) /\ ~CheckNode(o)
    BY ZenonT(40), <1>1, <1>2 DEF Preview, CheckNode, Command
  <1>6. ~AskFlash(o)
    BY <1>1, <1>2 DEF AskFlash, Asks
  <1>7. ~GuardStep(o)
    BY ZenonT(40), <1>1, <1>2 DEF GuardStep, Command
  <1>8. ~Reset(o)
    BY <1>1, <1>2 DEF Reset, Command
  <1>9. ~Healthy(o)
    BY <1>1, <1>2 DEF Healthy, NextStep, Command
  <1>10. ASSUME NEW p \in Paths PROVE ~Stage(o, p)
    BY <1>1, <1>2 DEF Stage, Command
  <1>11. ASSUME NEW p \in Paths
         PROVE  ~ReadInstalled(o, p) /\ ~ReadMalformed(o, p) /\ ~ReadAdmin(o, p)
    BY ZenonT(40), <1>1, <1>2 DEF ReadInstalled, ReadMalformed, ReadAdmin, Command
  <1> QED BY ZenonT(40), <1>3, <1>4, <1>5, <1>6, <1>7, <1>8, <1>9, <1>10, <1>11 DEF CommandStep, Progress

\* A campaign that nobody disturbed and that ran to its end leaves nothing pending on the
\* node, unless it was told not to commit.
THEOREM CampaignsResolve == Spec => CampaignResolves
PROOF
  <1> DEFINE Kept ==
        ServesState => \A o \in Operators \ disturbed :
          /\ op[o].verb = "campaign" /\ op[o].pc # "idle"
          /\ op'[o].said = "unhealthy" \/ (op'[o].said = "complete" /\ ~op[o].noCommit)
          => Phase' = "Idle"
  <1>1. ASSUME CalmInv, [Next]_vars PROVE Kept
    <2> SUFFICES ASSUME ServesState, NEW o \in Operators \ disturbed,
                        op[o].verb = "campaign", op[o].pc # "idle",
                        op'[o].said = "unhealthy" \/ (op'[o].said = "complete" /\ ~op[o].noCommit)
                 PROVE  Staged' = {} /\ rig'.trial = {}
      BY DEF Phase
    <2>1. Inv /\ CampaignAlone(op[o])
      BY <1>1 DEF CalmInv
    <2>2. rig \in Rig /\ RigSound /\ rig.trial \in SUBSET Paths
      BY <2>1, NodeFacts
    <2>3. op'[o] # op[o]
      BY <2>1, SaidOf
    <2>4. CommandStep(o)
      BY <1>1, <2>1, <2>3, OwnStep
    <2>5. CASE AskCampaign(o)
      <3>1. rig' = rig /\ op[o].pc = "read" /\ op[o].round = 2
        BY <2>5 DEF AskCampaign, Asks
      <3>2. Phase = "Idle"
        BY <2>1, <3>1 DEF CampaignAlone
      <3>3. Staged = {} /\ rig.trial = {}
        BY <3>2, PhaseIdle DEF Pending
      <3> QED BY <3>1, <3>3 DEF Staged
    <2>6. ASSUME op[o].pc \in {"commit", "rollback"} PROVE Staged = {}
      <3>1. Phase = "Idle" => Staged = {}
        BY PhaseIdle DEF Pending
      <3> QED BY <2>1, <2>6, <3>1 DEF CampaignAlone, Staging
    <2>7. CASE CommitStep(o)
      <3>1. op[o].pc = "commit" /\ rig' = CommitTrial(rig.trial) /\ UNCHANGED <<offered, origin>>
        BY <2>7 DEF CommitStep, rest
      <3>2. Staged' = Staged /\ rig'.trial = rig.trial \ rig.trial
        BY ZenonT(40), <2>2, <3>1, CommitRig
      <3> QED BY <2>6, <3>1, <3>2
    <2>8. CASE RollbackStep(o)
      <3>1. /\ op[o].pc = "rollback" /\ rig' = RollbackTrial(rig.trial)
            /\ UNCHANGED <<offered, origin>>
        BY <2>8 DEF RollbackStep, rest
      <3>2. Staged' \subseteq Staged /\ rig'.trial = rig.trial \ rig.trial
        BY ZenonT(40), <2>2, <3>1, RollbackRig
      <3> QED BY <2>6, <3>1, <3>2
    <2> QED BY <2>1, <2>4, <2>5, <2>7, <2>8, OverBy
  <1> HIDE DEF Kept
  <1>2. CalmInv /\ [Next]_vars => [Kept]_vars
    BY <1>1
  <1>3. Spec => [][Kept]_vars
    BY <1>2, CalmInvariant, PTL DEF Spec
  <1> QED BY <1>3 DEF Kept, CampaignResolves
=============================================================================
