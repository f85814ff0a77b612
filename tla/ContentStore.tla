---------------------------- MODULE ContentStore ----------------------------
(***************************************************************************)
(* Tower 2's content core: publishing an artifact (content.rs) into the    *)
(* filesystem blob store and the Postgres artifact index (store.rs).       *)
(*                                                                         *)
(* A publish request is one asynchronous task.  Between two awaits other   *)
(* requests run, the peer may hang up (the task is dropped), any I/O may   *)
(* fail, and the process may die.  There is one action per awaited effect; *)
(* a file operation that was started goes on when its task is dropped.     *)
(*                                                                         *)
(* Data.  A plaintext is its inner hash.  A ciphertext is determined by    *)
(* its plaintext and its random CEK and IV, so the outer hash is the pair  *)
(* <<inner, key>>.  A file is the ciphertext being written to it and the   *)
(* number of sink writes done; Chunks writes (the last one is the zstd     *)
(* footer and the GCM tag) make it whole.  Keys are NOT assumed fresh: the *)
(* random generator may draw any key, a used one included.                 *)
(***************************************************************************)
EXTENDS Naturals

CONSTANTS
  Publishers,   \* publish requests the tower can be serving at once
  Inners,       \* plaintexts, by their inner hash
  Keys,         \* (CEK, IV) pairs
  Chunks,       \* sink writes that make up one ciphertext
  MaxSeq,       \* TEMP_SEQ values of one process (2^64 in the code)
  None          \* "no such row / no such file"

VARIABLES
  index,     \* the artifacts table: inner hash -> ArtifactEntry or None
  blobs,     \* blob files by outer hash, or None
  temps,     \* temp files by their TEMP_SEQ suffix, or None
  tempSeq,   \* the TEMP_SEQ counter of the running process
  job,       \* the publish_stream task of each publisher
  refs,      \* history: every ArtifactRef answered to a publisher
  stale      \* history: the suffixes of temps an earlier process left

vars == <<index, blobs, temps, tempSeq, job, refs, stale>>

Outers == Inners \X Keys       \* outer hashes
File   == [inner : Inners, key : Keys, len : 0..Chunks]
Entry  == [outer : Outers, key : Keys]
Slots  == 0..(MaxSeq - 1)      \* temp-file suffixes
Job    == [pc : {"create", "stream", "commit", "rename", "put"},
           inner : Inners, key : Keys, tmp : Slots, len : 0..Chunks]

ASSUME ContentAssumption ==
  /\ Chunks \in Nat \ {0}
  /\ MaxSeq \in Nat
  /\ None \notin Outers \cup File \cup Entry \cup Job

TypeOK ==
  /\ index \in [Inners -> Entry \cup {None}]
  /\ blobs \in [Outers -> File \cup {None}]
  /\ temps \in [Slots -> File \cup {None}]
  /\ tempSeq \in 0..MaxSeq
  /\ job \in [Publishers -> Job \cup {None}]
  /\ refs \subseteq [inner : Inners, outer : Outers]
  /\ stale \subseteq Slots

\* The complete ciphertext whose hash is the outer hash o.
Ciphertext(o) == [inner |-> o[1], key |-> o[2], len |-> Chunks]

\* What the task of p has streamed so far, and the outer hash of the whole.
Streamed(p) == [inner |-> job[p].inner, key |-> job[p].key, len |-> job[p].len]
Outer(p)    == <<job[p].inner, job[p].key>>

Busy(p)      == job[p] # None
\* The sink's temp exists until the end of commit; dropping the sink removes it.
HoldsTemp(p) == Busy(p) /\ job[p].pc \in {"stream", "commit", "rename"}

Init ==
  /\ index = [i \in Inners |-> None]
  /\ blobs = [o \in Outers |-> None]
  /\ temps = [s \in Slots |-> None]
  /\ tempSeq = 0
  /\ job = [p \in Publishers |-> None]
  /\ refs = {}
  /\ stale = {}

-----------------------------------------------------------------------------
(* publish_stream                                                          *)

\* Mutant of Begin: every temp has the same name (no TEMP_SEQ increment).
MutBeginSharedTemp(p, i, k) ==
  /\ ~Busy(p)
  /\ tempSeq < MaxSeq
  /\ tempSeq' = 1
  /\ job' = [job EXCEPT ![p] =
               [pc |-> "create", inner |-> i, key |-> k, tmp |-> 0, len |-> 0]]
  /\ UNCHANGED <<index, blobs, temps, refs, stale>>

\* A fresh encryptor, and FsBlobStore::begin draws the suffix of its temp.
Begin(p, i, k) ==
  /\ ~Busy(p)
  /\ tempSeq < MaxSeq
  /\ tempSeq' = tempSeq + 1
  /\ job' = [job EXCEPT ![p] =
               [pc |-> "create", inner |-> i, key |-> k, tmp |-> tempSeq, len |-> 0]]
  /\ UNCHANGED <<index, blobs, temps, refs, stale>>

\* File::create, which truncates a temp an earlier process (with the same pid,
\* as in a container) left under the same name.
CreateTemp(p) ==
  /\ temps' = [temps EXCEPT ![job[p].tmp] = Streamed(p)]
  /\ stale' = stale \ {job[p].tmp}

Create(p) ==
  /\ Busy(p)
  /\ job[p].pc = "create"
  /\ CreateTemp(p)
  /\ job' = [job EXCEPT ![p].pc = "stream"]
  /\ UNCHANGED <<index, blobs, tempSeq, refs>>

\* The peer hangs up while the file is being created: the creation goes on, and
\* there is no sink yet whose drop would remove the file.
DropInCreate(p) ==
  /\ Busy(p)
  /\ job[p].pc = "create"
  /\ CreateTemp(p)
  /\ job' = [job EXCEPT ![p] = None]
  /\ UNCHANGED <<index, blobs, tempSeq, refs>>

\* Mutant of Stream: it goes on writing after the tag.
MutStreamPastTag(p) ==
  /\ Busy(p)
  /\ job[p].pc = "stream"
  /\ job' = [job EXCEPT ![p].len = @ + 1]
  /\ temps' = [temps EXCEPT ![job[p].tmp] =
                 [inner |-> job[p].inner, key |-> job[p].key, len |-> job[p].len + 1]]
  /\ UNCHANGED <<index, blobs, tempSeq, refs, stale>>

\* Compress, encrypt and write what the next chunk (or the tail) yields.
Stream(p) ==
  /\ Busy(p)
  /\ job[p].pc = "stream"
  /\ job[p].len < Chunks
  /\ job' = [job EXCEPT ![p].len = @ + 1]
  /\ temps' = [temps EXCEPT ![job[p].tmp] =
                 [inner |-> job[p].inner, key |-> job[p].key, len |-> job[p].len + 1]]
  /\ UNCHANGED <<index, blobs, tempSeq, refs, stale>>

\* Mutant of LookupHit: the dedup hit answers with the dropped temp's hash.
MutHitAnswersOwn(p) ==
  /\ Busy(p)
  /\ job[p].pc = "stream"
  /\ job[p].len = Chunks
  /\ index[job[p].inner] # None
  /\ refs' = refs \cup {[inner |-> job[p].inner, outer |-> Outer(p)]}
  /\ temps' = [temps EXCEPT ![job[p].tmp] = None]
  /\ job' = [job EXCEPT ![p] = None]
  /\ UNCHANGED <<index, blobs, tempSeq, stale>>

\* The body has ended and the plaintext is already published: the stored
\* reference is answered and dropping the sink removes the temp.
LookupHit(p) ==
  /\ Busy(p)
  /\ job[p].pc = "stream"
  /\ job[p].len = Chunks
  /\ index[job[p].inner] # None
  /\ refs' = refs \cup {[inner |-> job[p].inner, outer |-> index[job[p].inner].outer]}
  /\ temps' = [temps EXCEPT ![job[p].tmp] = None]
  /\ job' = [job EXCEPT ![p] = None]
  /\ UNCHANGED <<index, blobs, tempSeq, stale>>

\* Mutant of LookupMiss: the artifact is indexed before its blob is committed.
MutIndexFirst(p) ==
  /\ Busy(p)
  /\ job[p].pc = "stream"
  /\ job[p].len = Chunks
  /\ index[job[p].inner] = None
  /\ index' = [index EXCEPT ![job[p].inner] = [outer |-> Outer(p), key |-> job[p].key]]
  /\ job' = [job EXCEPT ![p].pc = "commit"]
  /\ UNCHANGED <<blobs, temps, tempSeq, refs, stale>>

LookupMiss(p) ==
  /\ Busy(p)
  /\ job[p].pc = "stream"
  /\ job[p].len = Chunks
  /\ index[job[p].inner] = None
  /\ job' = [job EXCEPT ![p].pc = "commit"]
  /\ UNCHANGED <<index, blobs, temps, tempSeq, refs, stale>>

\* BlobSink::commit, after the sync: a blob is at the address already, and the
\* temp is removed.
CommitPresent(p) ==
  /\ Busy(p)
  /\ job[p].pc = "commit"
  /\ blobs[Outer(p)] # None
  /\ temps' = [temps EXCEPT ![job[p].tmp] = None]
  /\ job' = [job EXCEPT ![p].pc = "put"]
  /\ UNCHANGED <<index, blobs, tempSeq, refs, stale>>

\* No blob is there, or the check failed, which counts as none.
CommitAbsent(p) ==
  /\ Busy(p)
  /\ job[p].pc = "commit"
  /\ job' = [job EXCEPT ![p].pc = "rename"]
  /\ UNCHANGED <<index, blobs, temps, tempSeq, refs, stale>>

\* The rename, which replaces a blob that was put there since the check.
Rename(p) ==
  /\ Busy(p)
  /\ job[p].pc = "rename"
  /\ blobs' = [blobs EXCEPT ![Outer(p)] = temps[job[p].tmp]]
  /\ temps' = [temps EXCEPT ![job[p].tmp] = None]
  /\ job' = [job EXCEPT ![p].pc = "put"]
  /\ UNCHANGED <<index, tempSeq, refs, stale>>

\* Mutant of Put: ON CONFLICT DO UPDATE.
MutPutOverwrites(p) ==
  /\ Busy(p)
  /\ job[p].pc = "put"
  /\ index' = [index EXCEPT ![job[p].inner] = [outer |-> Outer(p), key |-> job[p].key]]
  /\ refs' = refs \cup {[inner |-> job[p].inner, outer |-> Outer(p)]}
  /\ job' = [job EXCEPT ![p] = None]
  /\ UNCHANGED <<blobs, temps, tempSeq, stale>>

\* INSERT ... ON CONFLICT (inner_hash) DO NOTHING; the task answers with its
\* own outer hash whichever way the insert went.
Put(p) ==
  /\ Busy(p)
  /\ job[p].pc = "put"
  /\ index' = IF index[job[p].inner] = None
              THEN [index EXCEPT ![job[p].inner] =
                      [outer |-> Outer(p), key |-> job[p].key]]
              ELSE index
  /\ refs' = refs \cup {[inner |-> job[p].inner, outer |-> Outer(p)]}
  /\ job' = [job EXCEPT ![p] = None]
  /\ UNCHANGED <<blobs, temps, tempSeq, stale>>

\* Mutant of Fail: the sink has no Drop.
MutFailKeepsTemp(p) ==
  /\ Busy(p)
  /\ job' = [job EXCEPT ![p] = None]
  /\ UNCHANGED <<index, blobs, temps, tempSeq, refs, stale>>

\* The upload aborts, an I/O or database call fails, or the peer hangs up and
\* the task is dropped: FsBlobSink::drop removes an uncommitted temp.
Fail(p) ==
  /\ Busy(p)
  /\ temps' = IF HoldsTemp(p) THEN [temps EXCEPT ![job[p].tmp] = None] ELSE temps
  /\ job' = [job EXCEPT ![p] = None]
  /\ UNCHANGED <<index, blobs, tempSeq, refs, stale>>

\* The process dies and is restarted: files and tables stay, nothing is
\* dropped cleanly, and TEMP_SEQ counts from zero again.
Restart ==
  /\ job' = [p \in Publishers |-> None]
  /\ tempSeq' = 0
  /\ stale' = {s \in Slots : temps[s] # None}
  /\ UNCHANGED <<index, blobs, temps, refs>>

Next ==
  \/ \E p \in Publishers, i \in Inners, k \in Keys : Begin(p, i, k)
  \/ \E p \in Publishers :
       \/ Create(p)
       \/ DropInCreate(p)
       \/ Stream(p)
       \/ LookupHit(p)
       \/ LookupMiss(p)
       \/ CommitPresent(p)
       \/ CommitAbsent(p)
       \/ Rename(p)
       \/ Put(p)
       \/ Fail(p)
  \/ Restart

Spec == Init /\ [][Next]_vars

-----------------------------------------------------------------------------
(* Properties                                                              *)

\* Whatever the index promises can be served and decrypted: each artifacts row
\* names a blob that is stored whole and that the row's key opens to the row's
\* plaintext.  content.rs commits the blob before it indexes it, and no crash,
\* dropped task or racing publisher may leave a row ahead of its blob.
IndexSound ==
  \A i \in Inners : index[i] # None =>
    /\ blobs[index[i].outer] = [inner |-> i, key |-> index[i].key, len |-> Chunks]
    /\ index[i].outer = <<i, index[i].key>>

\* Content addressing: a stored blob is exactly the ciphertext its name hashes,
\* though the name is computed from the stream and the bytes come from a temp
\* whose name is reused after a restart.
BlobsAddressed ==
  \A o \in Outers : blobs[o] # None => blobs[o] = Ciphertext(o)

\* A reference once answered to a publisher can be fetched by GET /blobs for
\* ever, also the one answered to the loser of a publish race.
RefsServed == \A r \in refs : blobs[r.outer] # None

\* "dedup hits and mid-stream errors leave no litter" (FsBlobSink): a temp that
\* the running process wrote to belongs to a request in flight.  Only temps of a
\* process that died, and empty ones, can be left over.
NoLitter ==
  \A s \in Slots : temps[s] # None /\ s \notin stale =>
    \/ temps[s].len = 0
    \/ \E p \in Publishers : HoldsTemp(p) /\ job[p].tmp = s

\* Encrypt once: no stored blob and no index row ever changes, though two tasks
\* may rename to one address and two may insert one plaintext's row, so
\* an envelope built from the row (its key and its outer hash) keeps opening
\* the immutable blob clients have cached.
PublishedForever ==
  [][/\ \A i \in Inners : index[i] # None => index'[i] = index[i]
     /\ \A o \in Outers : blobs[o] # None => blobs'[o] = blobs[o]]_vars

\* The detailed store implements the abstract catalog: every step of a publish
\* task, a failure or a restart is one catalog step or none.
Catalog ==
  INSTANCE ArtifactCatalog
    WITH catalog <- [i \in Inners |-> IF index[i] = None THEN None ELSE index[i].outer],
         served <- {o \in Outers : blobs[o] # None},
         answered <- refs

\* publish_stream, over any interleaving of requests, failures and restarts, is
\* a write-once catalog whose references can be fetched (ArtifactCatalog).
ImplementsCatalog == Catalog!Spec

-----------------------------------------------------------------------------
(* The inductive invariant behind the properties.                          *)

\* A task's suffix is one the running process has handed out, to no other task,
\* and its temp carries exactly what the task streamed.
Owns(p) == Busy(p) /\ job[p].pc # "put"
TempsOwned ==
  /\ \A p \in Publishers : Owns(p) => job[p].tmp < tempSeq
  /\ \A p \in Publishers : HoldsTemp(p) => temps[job[p].tmp] = Streamed(p)
  /\ \A p, q \in Publishers : Owns(p) /\ Owns(q) /\ job[p].tmp = job[q].tmp => p = q

\* Nothing is written before the file is there; a task that commits has streamed
\* everything; one that indexes has its blob.
PhasesOrdered ==
  \A p \in Publishers : Busy(p) =>
    /\ job[p].pc = "create" => job[p].len = 0
    /\ job[p].pc \in {"commit", "rename"} => job[p].len = Chunks
    /\ job[p].pc = "put" => blobs[Outer(p)] # None

Inv ==
  /\ TypeOK
  /\ TempsOwned
  /\ PhasesOrdered
  /\ BlobsAddressed
  /\ IndexSound
  /\ RefsServed
  /\ NoLitter
=============================================================================
