------------------------ MODULE ContentStore_proofs ------------------------
(***************************************************************************)
(* Proofs about ContentStore, for any number of publishers, plaintexts,    *)
(* keys and chunks.  Inv is inductive: each action has a lemma, and the    *)
(* theorems at the end follow from it.                                     *)
(***************************************************************************)
EXTENDS ContentStore, TLAPS

\* Time limits of the provers: the time they take varies with the length of the run.
USE SMTT(40), ZenonT(40)

\* The initial state of the store satisfies the invariant.
LEMMA InitInv == Init => Inv
  BY ContentAssumption
  DEF Init, Inv, TypeOK, TempsOwned, PhasesOrdered, BlobsAddressed, IndexSound,
      RefsServed, NoLitter, HoldsTemp, Owns, Busy, Slots, Outers

\* Opening a sink hands out a suffix no live task owns.
LEMMA BeginInv ==
  ASSUME Inv, NEW p \in Publishers, NEW i \in Inners, NEW k \in Keys, Begin(p, i, k)
  PROVE  Inv'
<1> USE ContentAssumption DEF Inv
<1>1. tempSeq \in Slots
  BY DEF Begin, TypeOK, Slots
<1>2. TypeOK'
  BY <1>1 DEF TypeOK, Begin, Job, Slots
<1>3. \A q \in Publishers \ {p} : job'[q] = job[q]
  BY DEF TypeOK, Begin
<1>4. job'[p] = [pc |-> "create", inner |-> i, key |-> k, tmp |-> tempSeq, len |-> 0]
  BY DEF TypeOK, Begin
<1>5. \A q \in Publishers \ {p} :
        /\ Owns(q)' <=> Owns(q)
        /\ HoldsTemp(q)' <=> HoldsTemp(q)
        /\ Owns(q) => job[q].tmp \in Slots /\ job[q].tmp < tempSeq
  BY <1>3 DEF Owns, HoldsTemp, Busy, TempsOwned, TypeOK, Job
<1>6. ~HoldsTemp(p) /\ ~HoldsTemp(p)'
  BY <1>4 DEF HoldsTemp, Begin
<1>7. TempsOwned'
  <2>1. \A q \in Publishers : Owns(q)' => job'[q].tmp < tempSeq'
    BY <1>1, <1>3, <1>4, <1>5 DEF Begin, Slots
  <2>2. \A q \in Publishers : HoldsTemp(q)' => temps'[job'[q].tmp] = Streamed(q)'
    BY <1>3, <1>5, <1>6 DEF TempsOwned, Streamed, Begin
  <2>3. \A q, r \in Publishers :
          Owns(q)' /\ Owns(r)' /\ job'[q].tmp = job'[r].tmp => q = r
    BY <1>1, <1>3, <1>4, <1>5 DEF TempsOwned, Slots
  <2> QED
    BY <2>1, <2>2, <2>3 DEF TempsOwned
<1>8. PhasesOrdered'
  BY <1>3, <1>4 DEF TypeOK, PhasesOrdered, Busy, Outer, Begin
<1>9. NoLitter'
  BY <1>3, <1>5, <1>6 DEF NoLitter, Begin
<1>10. BlobsAddressed' /\ IndexSound' /\ RefsServed'
  BY DEF BlobsAddressed, IndexSound, RefsServed, Ciphertext, Begin
<1> QED
  BY <1>2, <1>7, <1>8, <1>9, <1>10

\* Creating the file of a task that owns its suffix: no other task's temp is
\* touched, and the file is empty.
LEMMA CreateTempFact ==
  ASSUME Inv, NEW p \in Publishers, Busy(p), job[p].pc = "create", CreateTemp(p)
  PROVE  /\ job[p] \in Job /\ job[p].tmp \in Slots /\ Owns(p) /\ ~HoldsTemp(p)
         /\ temps' \in [Slots -> File \cup {None}]
         /\ stale' \subseteq Slots
         /\ temps'[job[p].tmp] = Streamed(p) /\ Streamed(p).len = 0
         /\ \A s \in Slots \ {job[p].tmp} :
              temps'[s] = temps[s] /\ (s \in stale' <=> s \in stale)
         /\ \A q \in Publishers : HoldsTemp(q) =>
              job[q].tmp \in Slots /\ job[q].tmp # job[p].tmp
<1> USE ContentAssumption DEF Inv
<1>1. job[p] \in Job /\ job[p].tmp \in Slots /\ Owns(p) /\ ~HoldsTemp(p)
  BY DEF TypeOK, Busy, Job, Owns, HoldsTemp
<1>2. Streamed(p) \in File /\ Streamed(p).len = 0
  BY <1>1 DEF Streamed, File, Job, PhasesOrdered
<1>3. \A q \in Publishers : HoldsTemp(q) => Owns(q) /\ job[q].tmp \in Slots
  BY DEF HoldsTemp, Owns, Busy, TypeOK, Job
<1>4. \A q \in Publishers : HoldsTemp(q) => job[q].tmp # job[p].tmp
  BY <1>1, <1>3 DEF TempsOwned
<1> QED
  BY <1>1, <1>2, <1>3, <1>4 DEF CreateTemp, TypeOK

LEMMA CreateInv ==
  ASSUME Inv, NEW p \in Publishers, Create(p)
  PROVE  Inv'
<1> USE ContentAssumption DEF Inv
<1>1. /\ job[p] \in Job /\ job[p].tmp \in Slots /\ Owns(p) /\ ~HoldsTemp(p)
      /\ temps' \in [Slots -> File \cup {None}]
      /\ stale' \subseteq Slots
      /\ temps'[job[p].tmp] = Streamed(p) /\ Streamed(p).len = 0
      /\ \A s \in Slots \ {job[p].tmp} :
           temps'[s] = temps[s] /\ (s \in stale' <=> s \in stale)
      /\ \A q \in Publishers : HoldsTemp(q) =>
           job[q].tmp \in Slots /\ job[q].tmp # job[p].tmp
  BY CreateTempFact DEF Create
<1>2. job'[p] = [job[p] EXCEPT !.pc = "stream"]
  BY DEF TypeOK, Create
<1>3. /\ job'[p] \in Job /\ job'[p].tmp = job[p].tmp /\ job'[p].pc = "stream"
      /\ job'[p].inner = job[p].inner /\ job'[p].key = job[p].key
      /\ job'[p].len = job[p].len
  BY <1>1, <1>2 DEF Job
<1>4. \A q \in Publishers \ {p} : job'[q] = job[q]
  BY DEF TypeOK, Create
<1>5. TypeOK'
  BY <1>1, <1>3 DEF TypeOK, Create
<1>6. \A q \in Publishers \ {p} :
        (Owns(q)' <=> Owns(q)) /\ (HoldsTemp(q)' <=> HoldsTemp(q)) /\ Streamed(q)' = Streamed(q)
  BY <1>4 DEF Owns, HoldsTemp, Busy, Streamed
<1>7. Owns(p)' /\ Streamed(p)' = Streamed(p)
  BY <1>3 DEF Owns, Busy, Streamed
<1>8. TempsOwned'
  <2>1. \A q \in Publishers : HoldsTemp(q)' => temps'[job'[q].tmp] = Streamed(q)'
    BY <1>1, <1>3, <1>4, <1>6, <1>7 DEF TempsOwned
  <2> QED
    BY <1>1, <1>3, <1>4, <1>6, <2>1 DEF TempsOwned, Create
<1>9. PhasesOrdered'
  BY <1>3, <1>4 DEF TypeOK, PhasesOrdered, Busy, Outer, Create
<1>10. NoLitter'
  BY <1>1, <1>4, <1>6 DEF NoLitter
<1>11. BlobsAddressed' /\ IndexSound' /\ RefsServed'
  BY DEF BlobsAddressed, IndexSound, RefsServed, Ciphertext, Create
<1> QED
  BY <1>5, <1>8, <1>9, <1>10, <1>11

\* The file a dropped begin leaves is empty.
LEMMA DropInCreateInv ==
  ASSUME Inv, NEW p \in Publishers, DropInCreate(p)
  PROVE  Inv'
<1> USE ContentAssumption DEF Inv
<1>1. /\ job[p] \in Job /\ job[p].tmp \in Slots /\ Owns(p) /\ ~HoldsTemp(p)
      /\ temps' \in [Slots -> File \cup {None}]
      /\ stale' \subseteq Slots
      /\ temps'[job[p].tmp] = Streamed(p) /\ Streamed(p).len = 0
      /\ \A s \in Slots \ {job[p].tmp} :
           temps'[s] = temps[s] /\ (s \in stale' <=> s \in stale)
      /\ \A q \in Publishers : HoldsTemp(q) =>
           job[q].tmp \in Slots /\ job[q].tmp # job[p].tmp
  BY CreateTempFact DEF DropInCreate
<1>2. ~Busy(p)' /\ ~Owns(p)' /\ ~HoldsTemp(p)'
  BY DEF TypeOK, DropInCreate, Busy, Owns, HoldsTemp
<1>3. \A q \in Publishers \ {p} : job'[q] = job[q]
  BY DEF TypeOK, DropInCreate
<1>4. TypeOK'
  BY <1>1 DEF TypeOK, DropInCreate
<1>5. \A q \in Publishers \ {p} :
        /\ Owns(q)' <=> Owns(q)
        /\ HoldsTemp(q)' <=> HoldsTemp(q)
        /\ Busy(q)' <=> Busy(q)
        /\ Streamed(q)' = Streamed(q)
        /\ Outer(q)' = Outer(q)
  BY <1>3 DEF Owns, HoldsTemp, Busy, Streamed, Outer
<1>6. TempsOwned'
  BY <1>1, <1>2, <1>3, <1>5 DEF TempsOwned, DropInCreate
<1>7. PhasesOrdered'
  BY <1>2, <1>3, <1>5 DEF PhasesOrdered, DropInCreate
<1>8. NoLitter'
  BY <1>1, <1>2, <1>3, <1>5 DEF NoLitter
<1>9. BlobsAddressed' /\ IndexSound' /\ RefsServed'
  BY DEF BlobsAddressed, IndexSound, RefsServed, Ciphertext, DropInCreate
<1> QED
  BY <1>4, <1>6, <1>7, <1>8, <1>9

\* Writing a chunk touches only the writer's own temp.
LEMMA StreamInv ==
  ASSUME Inv, NEW p \in Publishers, Stream(p)
  PROVE  Inv'
<1> USE ContentAssumption DEF Inv
<1>1. job[p] \in Job /\ HoldsTemp(p)
  BY DEF Stream, Busy, HoldsTemp, TypeOK
<1>2. job'[p] = [job[p] EXCEPT !.len = job[p].len + 1]
  BY DEF TypeOK, Stream
<1>3. job'[p] \in Job /\ job'[p].tmp = job[p].tmp /\ job'[p].pc = "stream"
      /\ job'[p].inner = job[p].inner /\ job'[p].key = job[p].key
      /\ job'[p].len = job[p].len + 1
  BY <1>1, <1>2 DEF Stream, Job
<1>4. \A q \in Publishers \ {p} : job'[q] = job[q]
  BY DEF TypeOK, Stream
<1>5. TypeOK'
  BY <1>1, <1>3 DEF TypeOK, Stream, File, Job
<1>6. \A q \in Publishers :
        (Owns(q)' <=> Owns(q)) /\ (HoldsTemp(q)' <=> HoldsTemp(q)) /\ job'[q].tmp = job[q].tmp
  BY <1>1, <1>3, <1>4 DEF Owns, HoldsTemp, Busy
<1>7. TempsOwned'
  <2>1. \A q \in Publishers : HoldsTemp(q) => Owns(q) /\ job[q].tmp \in Slots
    BY DEF HoldsTemp, Owns, Busy, TypeOK, Job
  <2>2. \A q \in Publishers : HoldsTemp(q)' => temps'[job'[q].tmp] = Streamed(q)'
    BY <1>1, <1>3, <1>4, <1>6, <2>1 DEF TypeOK, TempsOwned, Streamed, Stream
  <2> QED
    BY <1>6, <2>2 DEF TempsOwned, Stream
<1>8. PhasesOrdered'
  BY <1>3, <1>4 DEF TypeOK, PhasesOrdered, Busy, Outer, Stream
<1>9. NoLitter'
  <2> SUFFICES ASSUME NEW s \in Slots, temps'[s] # None, s \notin stale'
               PROVE  \/ temps'[s].len = 0
                      \/ \E q \in Publishers : HoldsTemp(q)' /\ job'[q].tmp = s
    BY DEF NoLitter
  <2>1. CASE s = job[p].tmp
    BY <1>1, <1>6, <2>1
  <2>2. CASE s # job[p].tmp
    BY <1>6, <2>2 DEF NoLitter, TypeOK, Stream
  <2> QED
    BY <2>1, <2>2
<1>10. BlobsAddressed' /\ IndexSound' /\ RefsServed'
  BY DEF BlobsAddressed, IndexSound, RefsServed, Ciphertext, Stream
<1> QED
  BY <1>5, <1>7, <1>8, <1>9, <1>10

\* Ending a task and removing the temp it holds, or none if it holds none,
\* keeps the temps of the other tasks: the common part of a dedup hit, a
\* failure and the final insert.
LEMMA EndTask ==
  ASSUME Inv, NEW p \in Publishers, Busy(p),
         job' = [job EXCEPT ![p] = None],
         temps' = IF HoldsTemp(p) THEN [temps EXCEPT ![job[p].tmp] = None] ELSE temps,
         tempSeq' = tempSeq, stale' = stale
  PROVE  /\ job' \in [Publishers -> Job \cup {None}]
         /\ temps' \in [Slots -> File \cup {None}]
         /\ TempsOwned' /\ NoLitter'
         /\ \A q \in Publishers : Busy(q)' => job'[q] = job[q] /\ Busy(q)
<1> USE ContentAssumption DEF Inv
<1>1. job[p] \in Job /\ job'[p] = None
  BY DEF TypeOK, Busy
<1>2. \A q \in Publishers \ {p} : job'[q] = job[q]
  BY DEF TypeOK
<1>3. job' \in [Publishers -> Job \cup {None}] /\ temps' \in [Slots -> File \cup {None}]
  BY ZenonT(40) DEF TypeOK
<1>4. ~Busy(p)' /\ ~Owns(p)' /\ ~HoldsTemp(p)'
  BY <1>1 DEF Busy, Owns, HoldsTemp
<1>5. \A q \in Publishers \ {p} : (Owns(q)' <=> Owns(q)) /\ (HoldsTemp(q)' <=> HoldsTemp(q))
  BY <1>2 DEF Owns, HoldsTemp, Busy
<1>6. \A q \in Publishers : HoldsTemp(q) => Owns(q) /\ job[q].tmp \in Slots
  BY DEF HoldsTemp, Owns, Busy, TypeOK, Job
<1>7. TempsOwned'
  <2>1. \A q \in Publishers : HoldsTemp(q)' => temps'[job'[q].tmp] = Streamed(q)'
    BY <1>2, <1>4, <1>5, <1>6 DEF TypeOK, TempsOwned, Streamed
  <2> QED
    BY <1>2, <1>4, <1>5, <2>1 DEF TempsOwned
<1>8. NoLitter'
  <2> SUFFICES ASSUME NEW s \in Slots, temps'[s] # None, s \notin stale', temps'[s].len # 0
               PROVE  \E q \in Publishers : HoldsTemp(q)' /\ job'[q].tmp = s
    BY DEF NoLitter
  <2>1. temps[s] # None /\ temps'[s] = temps[s] /\ (HoldsTemp(p) => s # job[p].tmp)
    BY <1>6 DEF TypeOK
  <2>2. PICK q \in Publishers : HoldsTemp(q) /\ job[q].tmp = s
    BY <2>1 DEF NoLitter
  <2> QED
    BY <1>2, <1>5, <2>1, <2>2
<1>9. \A q \in Publishers : Busy(q)' => job'[q] = job[q] /\ Busy(q)
  BY <1>2, <1>4 DEF Busy
<1> QED
  BY <1>3, <1>7, <1>8, <1>9

\* A dedup hit answers with the indexed reference, whose blob is stored.
LEMMA LookupHitInv ==
  ASSUME Inv, NEW p \in Publishers, LookupHit(p)
  PROVE  Inv'
<1> USE ContentAssumption DEF Inv
<1>1. job[p] \in Job /\ HoldsTemp(p) /\ job[p].inner \in Inners
  BY DEF LookupHit, Busy, HoldsTemp, TypeOK, Job
<1>2. index[job[p].inner] \in Entry
  BY <1>1 DEF LookupHit, TypeOK
<1>3. /\ job' \in [Publishers -> Job \cup {None}]
      /\ temps' \in [Slots -> File \cup {None}]
      /\ TempsOwned' /\ NoLitter'
      /\ \A q \in Publishers : Busy(q)' => job'[q] = job[q] /\ Busy(q)
  BY ZenonT(40), <1>1, EndTask DEF LookupHit
<1>4. TypeOK'
  BY <1>1, <1>2, <1>3 DEF TypeOK, LookupHit, Entry
<1>5. PhasesOrdered'
  BY <1>3 DEF PhasesOrdered, Outer, LookupHit
<1>6. blobs[index[job[p].inner].outer] # None
  <2>1. [inner |-> job[p].inner, key |-> index[job[p].inner].key, len |-> Chunks] \in File
    BY <1>1, <1>2 DEF File, Entry
  <2> QED
    BY <1>1, <2>1 DEF IndexSound, LookupHit
<1>7. RefsServed'
  BY <1>6 DEF RefsServed, LookupHit
<1>8. BlobsAddressed' /\ IndexSound'
  BY DEF BlobsAddressed, IndexSound, Ciphertext, LookupHit
<1> QED
  BY <1>3, <1>4, <1>5, <1>7, <1>8

\* A task that has streamed everything goes on to the next step of its commit.
LEMMA AdvanceInv ==
  ASSUME Inv, NEW p \in Publishers, HoldsTemp(p), job[p].len = Chunks,
         NEW c \in {"commit", "rename"},
         job' = [job EXCEPT ![p].pc = c],
         UNCHANGED <<index, blobs, temps, tempSeq, refs, stale>>
  PROVE  Inv'
<1> USE ContentAssumption DEF Inv
<1>1. job[p] \in Job
  BY DEF HoldsTemp, Busy, TypeOK
<1>2. job'[p] = [job[p] EXCEPT !.pc = c]
  BY DEF TypeOK
<1>3. job'[p] \in Job /\ job'[p].tmp = job[p].tmp /\ job'[p].pc = c
      /\ job'[p].inner = job[p].inner /\ job'[p].key = job[p].key
      /\ job'[p].len = job[p].len
  BY <1>1, <1>2 DEF Job
<1>4. \A q \in Publishers \ {p} : job'[q] = job[q]
  BY DEF TypeOK
<1>5. TypeOK'
  BY <1>3 DEF TypeOK
<1>6. \A q \in Publishers :
        /\ Owns(q)' <=> Owns(q)
        /\ HoldsTemp(q)' <=> HoldsTemp(q)
        /\ job'[q].tmp = job[q].tmp
        /\ Streamed(q)' = Streamed(q)
  BY <1>1, <1>3, <1>4 DEF Owns, HoldsTemp, Busy, Streamed
<1>7. TempsOwned' /\ NoLitter'
  BY <1>6 DEF TempsOwned, NoLitter
<1>8. PhasesOrdered'
  BY <1>3, <1>4 DEF TypeOK, PhasesOrdered, Busy, Outer
<1>9. BlobsAddressed' /\ IndexSound' /\ RefsServed'
  BY DEF BlobsAddressed, IndexSound, RefsServed, Ciphertext
<1> QED
  BY <1>5, <1>7, <1>8, <1>9

LEMMA LookupMissInv ==
  ASSUME Inv, NEW p \in Publishers, LookupMiss(p)
  PROVE  Inv'
  BY ZenonT(40), AdvanceInv DEF LookupMiss, HoldsTemp

LEMMA CommitAbsentInv ==
  ASSUME Inv, NEW p \in Publishers, CommitAbsent(p)
  PROVE  Inv'
  BY ZenonT(40), AdvanceInv DEF CommitAbsent, HoldsTemp, Inv, PhasesOrdered

\* The committed temp is the task's own and whole, so the blob is the
\* ciphertext its address names, and a rename over a blob changes nothing.
LEMMA CommitInv ==
  ASSUME Inv, NEW p \in Publishers, CommitPresent(p) \/ Rename(p)
  PROVE  /\ Inv'
         /\ \A o \in Outers : blobs[o] # None => blobs'[o] = blobs[o]
         /\ \A o \in Outers \ {Outer(p)} : blobs'[o] = blobs[o]
         /\ blobs'[Outer(p)] # None
<1> USE ContentAssumption DEF Inv
<1>1. job[p] \in Job /\ HoldsTemp(p) /\ Outer(p) \in Outers /\ job[p].tmp \in Slots
  BY DEF CommitPresent, Rename, Busy, HoldsTemp, TypeOK, Job, Outer, Outers
<1>2. temps[job[p].tmp] = Ciphertext(Outer(p)) /\ Ciphertext(Outer(p)) \in File
  BY <1>1 DEF TempsOwned, PhasesOrdered, CommitPresent, Rename, Streamed, Ciphertext, Outer, Job, File
<1>3. job'[p] = [job[p] EXCEPT !.pc = "put"]
  BY DEF TypeOK, CommitPresent, Rename
<1>4. job'[p] \in Job /\ job'[p].pc = "put" /\ job'[p].inner = job[p].inner
      /\ job'[p].key = job[p].key
  BY <1>1, <1>3 DEF Job
<1>5. \A q \in Publishers \ {p} : job'[q] = job[q]
  BY DEF TypeOK, CommitPresent, Rename
<1>6. TypeOK'
  BY <1>1, <1>2, <1>4 DEF TypeOK, CommitPresent, Rename
<1>7. /\ \A o \in Outers : blobs[o] # None => blobs'[o] = blobs[o]
      /\ \A o \in Outers \ {Outer(p)} : blobs'[o] = blobs[o]
      /\ blobs'[Outer(p)] # None
      /\ blobs'[Outer(p)] = Ciphertext(Outer(p))
  BY <1>1, <1>2 DEF TypeOK, CommitPresent, Rename, BlobsAddressed
<1>8. BlobsAddressed'
  BY <1>1, <1>7 DEF BlobsAddressed, Ciphertext
<1>9. \A q \in Publishers \ {p} : (Owns(q)' <=> Owns(q)) /\ (HoldsTemp(q)' <=> HoldsTemp(q))
  BY <1>5 DEF Owns, HoldsTemp, Busy
<1>10. ~Owns(p)' /\ ~HoldsTemp(p)'
  BY <1>4 DEF Owns, HoldsTemp
<1>11. \A q \in Publishers : HoldsTemp(q) => Owns(q) /\ job[q].tmp \in Slots
  BY DEF HoldsTemp, Owns, Busy, TypeOK, Job
<1>12. TempsOwned'
  <2>1. \A q \in Publishers : HoldsTemp(q)' => temps'[job'[q].tmp] = Streamed(q)'
    BY <1>1, <1>5, <1>9, <1>10, <1>11 DEF TypeOK, TempsOwned, Streamed, CommitPresent, Rename
  <2> QED
    BY <1>5, <1>9, <1>10, <2>1 DEF TempsOwned, CommitPresent, Rename
<1>13. NoLitter'
  <2> SUFFICES ASSUME NEW s \in Slots, temps'[s] # None, s \notin stale', temps'[s].len # 0
               PROVE  \E q \in Publishers : HoldsTemp(q)' /\ job'[q].tmp = s
    BY DEF NoLitter
  <2>1. temps[s] # None /\ temps'[s] = temps[s] /\ s # job[p].tmp /\ s \notin stale
    BY DEF TypeOK, CommitPresent, Rename
  <2>2. PICK q \in Publishers : HoldsTemp(q) /\ job[q].tmp = s
    BY <2>1 DEF NoLitter
  <2> QED
    BY <1>5, <1>9, <2>1, <2>2
<1>14. PhasesOrdered'
  <2> SUFFICES ASSUME NEW q \in Publishers, Busy(q)'
               PROVE  /\ job'[q].pc = "create" => job'[q].len = 0
                      /\ job'[q].pc \in {"commit", "rename"} => job'[q].len = Chunks
                      /\ job'[q].pc = "put" => blobs'[Outer(q)'] # None
    BY DEF PhasesOrdered
  <2>1. CASE q = p
    BY <1>4, <1>7, <2>1 DEF Outer
  <2>2. CASE q # p
    <3>1. Busy(q) /\ job[q] \in Job /\ Outer(q)' = Outer(q) /\ Outer(q) \in Outers
      BY <1>5, <2>2 DEF Busy, Outer, TypeOK, Job, Outers
    <3> QED
      BY <1>5, <1>7, <2>2, <3>1 DEF PhasesOrdered
  <2> QED
    BY <2>1, <2>2
<1>15. IndexSound'
  <2> SUFFICES ASSUME NEW i \in Inners, index'[i] # None
               PROVE  /\ blobs'[index'[i].outer] =
                           [inner |-> i, key |-> index'[i].key, len |-> Chunks]
                      /\ index'[i].outer = <<i, index'[i].key>>
    BY DEF IndexSound
  <2>1. index'[i] = index[i] /\ index[i] \in Entry /\ index[i].outer \in Outers
    BY DEF CommitPresent, Rename, TypeOK, Entry
  <2>2. [inner |-> i, key |-> index[i].key, len |-> Chunks] \in File
    BY <2>1 DEF Entry, File
  <2> QED
    BY <1>7, <2>1, <2>2 DEF IndexSound
<1>16. RefsServed'
  BY <1>7 DEF RefsServed, TypeOK, CommitPresent, Rename
<1> QED
  BY <1>6, <1>7, <1>8, <1>12, <1>13, <1>14, <1>15, <1>16

\* A row is inserted only after its blob, and an existing row is kept.
LEMMA PutInv ==
  ASSUME Inv, NEW p \in Publishers, Put(p)
  PROVE  Inv' /\ \A i \in Inners : index[i] # None => index'[i] = index[i]
<1> USE ContentAssumption DEF Inv
<1>1. job[p] \in Job /\ Busy(p) /\ ~HoldsTemp(p) /\ Outer(p) \in Outers
      /\ job[p].inner \in Inners /\ job[p].key \in Keys
  BY DEF Put, Busy, HoldsTemp, TypeOK, Job, Outer, Outers
<1>2. blobs[Outer(p)] = Ciphertext(Outer(p)) /\ blobs[Outer(p)] # None
  BY <1>1 DEF PhasesOrdered, BlobsAddressed, Put
<1>3. /\ job' \in [Publishers -> Job \cup {None}]
      /\ temps' \in [Slots -> File \cup {None}]
      /\ TempsOwned' /\ NoLitter'
      /\ \A q \in Publishers : Busy(q)' => job'[q] = job[q] /\ Busy(q)
  BY ZenonT(40), <1>1, EndTask DEF Put
<1>4. [outer |-> Outer(p), key |-> job[p].key] \in Entry
  BY <1>1 DEF Entry
<1>5. TypeOK'
  BY <1>1, <1>3, <1>4 DEF TypeOK, Put
<1>6. PhasesOrdered'
  BY <1>3 DEF PhasesOrdered, Outer, Put
<1>7. /\ \A i \in Inners : index[i] # None => index'[i] = index[i]
      /\ \A i \in Inners : index'[i] # index[i] =>
           i = job[p].inner /\ index'[i] = [outer |-> Outer(p), key |-> job[p].key]
  BY <1>1 DEF TypeOK, Put
<1>8. IndexSound'
  <2> SUFFICES ASSUME NEW i \in Inners, index'[i] # None
               PROVE  /\ blobs'[index'[i].outer] =
                           [inner |-> i, key |-> index'[i].key, len |-> Chunks]
                      /\ index'[i].outer = <<i, index'[i].key>>
    BY DEF IndexSound
  <2>1. CASE index'[i] = index[i]
    BY ZenonT(40), <2>1 DEF IndexSound, Put
  <2>2. CASE index'[i] # index[i]
    BY <1>2, <1>7, <2>2 DEF Put, Outer, Ciphertext
  <2> QED
    BY <2>1, <2>2
<1>9. RefsServed' /\ BlobsAddressed'
  BY <1>2 DEF RefsServed, BlobsAddressed, Ciphertext, Put
<1> QED
  BY <1>3, <1>5, <1>6, <1>7, <1>8, <1>9

LEMMA FailInv ==
  ASSUME Inv, NEW p \in Publishers, Fail(p)
  PROVE  Inv'
<1> USE ContentAssumption DEF Inv
<1>1. /\ job' \in [Publishers -> Job \cup {None}]
      /\ temps' \in [Slots -> File \cup {None}]
      /\ TempsOwned' /\ NoLitter'
      /\ \A q \in Publishers : Busy(q)' => job'[q] = job[q] /\ Busy(q)
  BY ZenonT(40), EndTask DEF Fail
<1>2. TypeOK'
  BY <1>1 DEF TypeOK, Fail
<1>3. PhasesOrdered'
  BY <1>1 DEF PhasesOrdered, Outer, Fail
<1>4. BlobsAddressed' /\ IndexSound' /\ RefsServed'
  BY DEF BlobsAddressed, IndexSound, RefsServed, Ciphertext, Fail
<1> QED
  BY <1>1, <1>2, <1>3, <1>4

\* After a restart every temp is one an earlier process left.
LEMMA RestartInv ==
  ASSUME Inv, Restart
  PROVE  Inv'
<1> USE ContentAssumption DEF Inv
<1>1. \A q \in Publishers : ~Busy(q)' /\ ~Owns(q)' /\ ~HoldsTemp(q)'
  BY DEF Restart, Busy, Owns, HoldsTemp
<1>2. TypeOK'
  BY DEF TypeOK, Restart
<1>3. TempsOwned' /\ PhasesOrdered'
  BY <1>1 DEF TempsOwned, PhasesOrdered
<1>4. NoLitter'
  BY ZenonT(40) DEF NoLitter, Restart
<1>5. BlobsAddressed' /\ IndexSound' /\ RefsServed'
  BY DEF BlobsAddressed, IndexSound, RefsServed, Ciphertext, Restart
<1> QED
  BY <1>2, <1>3, <1>4, <1>5

\* Every step preserves the invariant.
LEMMA NextInv == Inv /\ [Next]_vars => Inv'
<1> SUFFICES ASSUME Inv, [Next]_vars PROVE Inv'
  OBVIOUS
<1>1. ASSUME NEW p \in Publishers, NEW i \in Inners, NEW k \in Keys, Begin(p, i, k)
      PROVE  Inv'
  BY <1>1, BeginInv
<1>2. ASSUME NEW p \in Publishers, Stream(p) PROVE Inv'
  BY <1>2, StreamInv
<1>3. ASSUME NEW p \in Publishers, LookupHit(p) PROVE Inv'
  BY <1>3, LookupHitInv
<1>4. ASSUME NEW p \in Publishers, LookupMiss(p) PROVE Inv'
  BY <1>4, LookupMissInv
<1>5. ASSUME NEW p \in Publishers, CommitPresent(p) \/ Rename(p) PROVE Inv'
  BY <1>5, CommitInv
<1>6. ASSUME NEW p \in Publishers, Put(p) PROVE Inv'
  BY <1>6, PutInv
<1>7. ASSUME NEW p \in Publishers, Fail(p) PROVE Inv'
  BY <1>7, FailInv
<1>8. CASE Restart
  BY ZenonT(40), <1>8, RestartInv
<1>10. ASSUME NEW p \in Publishers, Create(p) PROVE Inv'
  BY <1>10, CreateInv
<1>11. ASSUME NEW p \in Publishers, DropInCreate(p) PROVE Inv'
  BY <1>11, DropInCreateInv
<1>12. ASSUME NEW p \in Publishers, CommitAbsent(p) PROVE Inv'
  BY <1>12, CommitAbsentInv
<1>9. CASE UNCHANGED vars
  BY <1>9 DEF vars, Inv, TypeOK, TempsOwned, PhasesOrdered, BlobsAddressed, IndexSound,
              RefsServed, NoLitter, HoldsTemp, Owns, Busy, Streamed, Outer, Ciphertext
<1> QED
  BY <1>1, <1>2, <1>3, <1>4, <1>5, <1>6, <1>7, <1>8, <1>9, <1>10, <1>11, <1>12
  DEF Next

\* The content core keeps its inductive invariant in every reachable state.
THEOREM StoreInvariant == Spec => []Inv
  BY InitInv, NextInv, PTL DEF Spec

\* Type correctness of the content core.
THEOREM StoreTypeOK == Spec => []TypeOK
<1>1. Inv => TypeOK
  BY DEF Inv
<1> QED
  BY <1>1, StoreInvariant, PTL

\* publish_stream never lets an artifacts row get ahead of its blob: every row
\* can be fetched and decrypted, over all interleavings, failures and restarts.
THEOREM IndexAlwaysSound == Spec => []IndexSound
<1>1. Inv => IndexSound
  BY DEF Inv
<1> QED
  BY <1>1, StoreInvariant, PTL

\* Every stored blob is the whole ciphertext its address names.
THEOREM BlobsAlwaysAddressed == Spec => []BlobsAddressed
<1>1. Inv => BlobsAddressed
  BY DEF Inv
<1> QED
  BY <1>1, StoreInvariant, PTL

\* Every reference ever answered can be fetched from the blob store (get_blob).
THEOREM RefsAlwaysServed == Spec => []RefsServed
<1>1. Inv => RefsServed
  BY DEF Inv
<1> QED
  BY <1>1, StoreInvariant, PTL

\* The running process leaves no temp behind but an empty one (FsBlobSink::drop).
THEOREM TempsRemoved == Spec => []NoLitter
<1>1. Inv => NoLitter
  BY DEF Inv
<1> QED
  BY <1>1, StoreInvariant, PTL

\* No step replaces a stored blob or an index row.
THEOREM NeverReplaced == Spec => PublishedForever
<1> DEFINE Kept == /\ \A i \in Inners : index[i] # None => index'[i] = index[i]
                   /\ \A o \in Outers : blobs[o] # None => blobs'[o] = blobs[o]
<1>1. Inv /\ [Next]_vars => Kept
  <2> SUFFICES ASSUME Inv, [Next]_vars PROVE Kept
    OBVIOUS
  <2>1. ASSUME NEW p \in Publishers, CommitPresent(p) \/ Rename(p) PROVE Kept
    BY <2>1, CommitInv DEF CommitPresent, Rename
  <2>2. ASSUME NEW p \in Publishers, Put(p) PROVE Kept
    BY <2>2, PutInv DEF Put
  <2> QED
    BY ZenonT(40), <2>1, <2>2
    DEF Next, Begin, Create, DropInCreate, Stream, LookupHit, LookupMiss, CommitAbsent, Fail,
        Restart, vars
<1> HIDE DEF Kept
<1>2. Inv /\ [Next]_vars => [Kept]_vars
  BY <1>1
<1>3. Spec => [][Kept]_vars
  BY <1>2, StoreInvariant, PTL DEF Spec
<1> QED
  BY <1>3 DEF Kept, PublishedForever

\* The catalog and the served blobs as ArtifactCatalog sees them.
Bound  == [i \in Inners |-> IF index[i] = None THEN None ELSE index[i].outer]
Stored == {o \in Outers : blobs[o] # None}

\* The content core implements the abstract catalog: a commit stores, an insert
\* offers, a dedup hit reuses, and every other step leaves the catalog alone.
THEOREM Refinement == Spec => ImplementsCatalog
<1> USE ContentAssumption
<1>1. Init => Catalog!Init
  BY DEF Init, Catalog!Init, Outers
<1>2. Inv /\ [Next]_vars => [Catalog!Next]_(Catalog!catalogVars)
  <2> SUFFICES ASSUME Inv, [Next]_vars
               PROVE  Catalog!Next \/ (Bound' = Bound /\ Stored' = Stored /\ refs' = refs)
    BY DEF Catalog!catalogVars, Bound, Stored
  <2>1. ASSUME NEW p \in Publishers, CommitPresent(p) \/ Rename(p)
        PROVE  Catalog!Next
    <3>1. job[p] \in Job /\ Outer(p) \in Outers
      BY <2>1 DEF Inv, CommitPresent, Rename, Busy, TypeOK, Job, Outer, Outers
    <3>2. /\ \A o \in Outers : blobs[o] # None => blobs'[o] = blobs[o]
          /\ \A o \in Outers \ {Outer(p)} : blobs'[o] = blobs[o]
          /\ blobs'[Outer(p)] # None
      BY <2>1, CommitInv
    <3>3. Stored' = Stored \cup {Outer(p)}
      BY <3>1, <3>2 DEF Stored
    <3>4. PICK o \in Inners \X Keys : o = Outer(p)
      BY <3>1 DEF Outers
    <3>5. Catalog!Store(o)
      BY <2>1, <3>3, <3>4 DEF Catalog!Store, CommitPresent, Rename, Stored
    <3> QED
      BY <3>5 DEF Catalog!Next
  <2>2. ASSUME NEW p \in Publishers, Put(p)
        PROVE  Catalog!Next
    <3>1. /\ job[p] \in Job /\ job[p].inner \in Inners /\ job[p].key \in Keys
          /\ Outer(p) = <<job[p].inner, job[p].key>> /\ Outer(p) \in Outers
      BY <2>2 DEF Inv, Put, Busy, TypeOK, Job, Outer, Outers
    <3>2. Outer(p) \in Stored
      BY ZenonT(40), <2>2, <3>1 DEF Inv, PhasesOrdered, Put, Stored
    <3>3. Bound' = [Bound EXCEPT ![job[p].inner] = IF @ = None THEN Outer(p) ELSE @]
      <4>1. \A i \in Inners : index[i] # None => index[i].outer # None
        BY DEF Inv, TypeOK, Entry
      <4>2. Outer(p) # None /\ [outer |-> Outer(p), key |-> job[p].key] # None
        BY <3>1 DEF Entry
      <4> QED
        BY <2>2, <3>1, <4>1, <4>2 DEF Put, Bound, Inv, TypeOK
    <3>4. PICK i \in Inners, k \in Keys : i = job[p].inner /\ k = job[p].key
      BY ZenonT(40), <3>1
    <3>5. Catalog!Offer(i, k)
      BY <2>2, <3>1, <3>2, <3>3, <3>4 DEF Catalog!Offer, Put, Bound, Stored
    <3> QED
      BY <3>5 DEF Catalog!Next
  <2>3. ASSUME NEW p \in Publishers, LookupHit(p)
        PROVE  Catalog!Next
    <3>1. job[p] \in Job /\ job[p].inner \in Inners
      BY <2>3 DEF Inv, LookupHit, Busy, TypeOK, Job
    <3>2. index[job[p].inner] \in Entry
      BY <2>3, <3>1 DEF Inv, LookupHit, TypeOK
    <3>3. [inner |-> job[p].inner, key |-> index[job[p].inner].key, len |-> Chunks] \in File
      BY <3>1, <3>2 DEF File, Entry
    <3>4. index[job[p].inner].outer \in Stored
      BY <2>3, <3>1, <3>2, <3>3 DEF Inv, IndexSound, LookupHit, Stored, Entry
    <3>5. Bound[job[p].inner] = index[job[p].inner].outer
      BY <2>3, <3>1 DEF LookupHit, Bound
    <3>6. PICK i \in Inners : i = job[p].inner
      BY ZenonT(40), <3>1
    <3>7. Catalog!Reuse(i)
      BY <2>3, <3>4, <3>5, <3>6 DEF Catalog!Reuse, LookupHit, Bound, Stored
    <3> QED
      BY <3>7 DEF Catalog!Next
  <2> QED
    BY ZenonT(40), <2>1, <2>2, <2>3
    DEF Next, Begin, Create, DropInCreate, Stream, LookupMiss, CommitAbsent, Fail, Restart,
        vars, Bound, Stored
<1>3. Spec => [][Catalog!Next]_(Catalog!catalogVars)
  BY <1>2, StoreInvariant, PTL DEF Spec
<1> QED
  BY <1>1, <1>3, PTL DEF Spec, ImplementsCatalog, Catalog!Spec
=============================================================================
