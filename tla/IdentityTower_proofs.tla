------------------------ MODULE IdentityTower_proofs ------------------------
(***************************************************************************)
(* Proofs about IdentityTower, for any devices, keys and number of         *)
(* handlers.                                                               *)
(***************************************************************************)
EXTENDS IdentityTower, TLAPS

\* Time limits of the provers: the time they take varies with the length of the run.
USE SMTT(40), ZenonT(40)

LEMMA InitInv == Init => Inv
<1> USE IdentityAssumption
<1> SUFFICES ASSUME Init PROVE Inv
  OBVIOUS
<1>1. NoTask \in Task
  BY DEF NoTask, Task
<1>2. TypeOK
  BY <1>1 DEF Init, TypeOK
<1>3. \A t \in Tasks : task[t].pc = "idle" /\ task[t].keystore = None /\ ~Pending(t)
  BY DEF Init, NoTask, Pending
<1>4. \A d \in Devices : Held(d) = {} /\ \A k \in CertSlots : certs[d][k] = None
  BY ZenonT(40) DEF Init, Held
<1> QED
  BY <1>2, <1>3, <1>4
  DEF Inv, CertsSound, KeystoreSound, HeldKnown, HandlersSound, SerialsUnique

-----------------------------------------------------------------------------
(* What the tables keep, and what handlers rely on                         *)

\* Rows, keys and certificates are never taken away.
Grow ==
  \A d \in Devices :
    /\ roster[d] # None => roster'[d] # None
    /\ had[d] \subseteq had'[d]
    /\ \A k \in CertSlots : certs[d][k] # None => certs'[d][k] # None

\* What a keystore answered to handler s must be, given the keys of its device.
Answer(s, keys) ==
  /\ s.keystore.recipient \in keys
  /\ s.hadLeaf => s.keystore.content.certificates # {}
  /\ \A l \in s.keystore.content.certificates : l.cn = s.dev /\ l.usage = "mtls"
  /\ s.keystore.content.anchors["sw-authority"] = SignerKey

\* A handler that becomes s leaves the others what they rely on while tables grow.
LEMMA HandlersKept ==
  ASSUME Inv, Grow, NEW t \in Tasks, NEW s \in Task,
         task' = [task EXCEPT ![t] = s],
         s.pc \in {"known", "store"} =>
           /\ s.dev \in Devices /\ s.slot \in CertSlots /\ s.leaf \in Leaf
           /\ s.leaf.cn = s.dev /\ s.leaf.usage = UsageOf(s.slot),
         s.pc = "store" => roster'[s.dev] # None,
         s.pc = "leaf" =>
           /\ s.dev \in Devices /\ s.pubkey \in had'[s.dev]
           /\ s.hadLeaf => certs'[s.dev]["tls-identity"] # None,
         s.keystore # None => s.dev \in Devices /\ s.pc \in {"answered", "failed"},
         s.pc = "answered" /\ s.keystore # None => Answer(s, had'[s.dev])
  PROVE  HandlersSound' /\ KeystoreSound'
<1>1. /\ task'[t] = s /\ Pending(t)' = (s.pc \in {"known", "store"})
      /\ \A u \in Tasks \ {t} : task'[u] = task[u] /\ Pending(u)' = Pending(u)
  BY DEF Inv, TypeOK, Pending
<1>2. "tls-identity" \in CertSlots
  BY DEF CertSlots
<1>3. HandlersSound'
  <2> SUFFICES ASSUME NEW u \in Tasks
               PROVE  /\ Pending(u)' => /\ task'[u].dev \in Devices /\ task'[u].slot \in CertSlots
                                        /\ task'[u].leaf \in Leaf
                                        /\ task'[u].leaf.cn = task'[u].dev
                                        /\ task'[u].leaf.usage = UsageOf(task'[u].slot)
                      /\ task'[u].pc = "store" => roster'[task'[u].dev] # None
                      /\ task'[u].pc = "leaf" =>
                           /\ task'[u].dev \in Devices /\ task'[u].pubkey \in had'[task'[u].dev]
                           /\ task'[u].hadLeaf => certs'[task'[u].dev]["tls-identity"] # None
                      /\ task'[u].keystore # None =>
                           task'[u].dev \in Devices /\ task'[u].pc \in {"answered", "failed"}
    BY DEF HandlersSound, UsageOf
  <2>1. CASE u = t
    BY ZenonT(40), <1>1, <2>1
  <2>2. CASE u # t
    BY <1>1, <1>2, <2>2 DEF Inv, HandlersSound, Grow, Pending
  <2> QED
    BY <2>1, <2>2
<1>4. KeystoreSound'
  <2> SUFFICES ASSUME NEW u \in Tasks, task'[u].pc = "answered", task'[u].keystore # None
               PROVE  Answer(task'[u], had'[task'[u].dev])
    BY DEF KeystoreSound, Answer
  <2>1. CASE u = t
    BY <1>1, <2>1
  <2>2. CASE u # t
    <3>1. Answer(task[u], had[task[u].dev])
      BY <1>1, <2>2 DEF Inv, KeystoreSound, Answer
    <3>2. task[u].dev \in Devices => had[task[u].dev] \subseteq had'[task[u].dev]
      BY DEF Grow
    <3> QED
      BY <1>1, <2>2, <3>1, <3>2 DEF Answer, Inv, HandlersSound
  <2> QED
    BY <2>1, <2>2
<1> QED
  BY <1>3, <1>4

\* A step that issues and stores no certificate keeps the serials apart.
LEMMA SerialsKept ==
  ASSUME Inv, NEW t \in Tasks, NEW s \in Task,
         task' = [task EXCEPT ![t] = s], UNCHANGED <<certs, serial>>,
         s.pc \in {"known", "store"} => Pending(t) /\ s.leaf = task[t].leaf
  PROVE  SerialsUnique'
<1>1. /\ Pending(t)' => Pending(t) /\ task'[t].leaf = task[t].leaf
      /\ \A u \in Tasks \ {t} : task'[u] = task[u] /\ (Pending(u)' <=> Pending(u))
  BY DEF Inv, TypeOK, Pending
<1> QED
  BY <1>1 DEF Inv, SerialsUnique

\* The certificates in the table stay sound while rows only appear.
LEMMA CertsKept ==
  ASSUME Inv, Grow, certs' = certs
  PROVE  CertsSound'
<1>1. \A d \in Devices : roster[d] # None => roster'[d] # None
  BY DEF Grow
<1> QED
  BY <1>1 DEF Inv, CertsSound, UsageOf

\* A step of a handler that writes no table.
LEMMA Reading ==
  ASSUME Inv, UNCHANGED <<roster, certs, had>>
  PROVE  Grow /\ HeldKnown' /\ CertsSound'
<1>1. Grow
  BY DEF Grow
<1>2. HeldKnown'
  BY DEF Inv, HeldKnown, Held
<1> QED
  BY <1>1, <1>2, CertsKept

-----------------------------------------------------------------------------
(* The actions                                                             *)

\* register_device: the row keeps what the request leaves out.
LEMMA RegisterInv ==
  ASSUME Inv, NEW t \in Tasks, NEW d \in Devices, NEW m \in Models \cup {None},
         NEW k \in Keys \cup {None}, Register(t, d, m, k)
  PROVE  Inv'
<1> USE IdentityAssumption
<1> DEFINE s == [NoTask EXCEPT !.pc = "answered", !.dev = d]
<1>1. s \in Task /\ s.pc = "answered" /\ s.keystore = None
  BY ZenonT(40) DEF NoTask, Task
<1>2. task' = [task EXCEPT ![t] = s] /\ UNCHANGED <<certs, serial>>
  BY DEF Register
<1> HIDE DEF s
<1>3. /\ roster'[d] \in Row
      /\ roster'[d].pubkey \in (had[d] \cup {k}) \cup {None}
      /\ \A e \in Devices \ {d} : roster'[e] = roster[e]
  <2>1. CASE roster[d] = None
    BY <2>1 DEF Register, Inv, TypeOK, Row
  <2>2. CASE roster[d] # None
    <3>1. roster[d] \in Row /\ roster[d].pubkey \in had[d] \cup {None}
      BY <2>2 DEF Inv, TypeOK, HeldKnown, Held
    <3> DEFINE row == [roster[d] EXCEPT !.model = Coalesce(m, roster[d].model),
                                        !.pubkey = Coalesce(k, roster[d].pubkey)]
    <3>2. roster' = [roster EXCEPT ![d] = row]
      BY <2>2 DEF Register, Inv, TypeOK
    <3>3. row \in Row /\ row.pubkey = IF k = None THEN roster[d].pubkey ELSE k
      BY ZenonT(40), <3>1 DEF Row, Coalesce
    <3> HIDE DEF row
    <3> QED
      BY <3>1, <3>2, <3>3 DEF Inv, TypeOK
  <2> QED
    BY <2>1, <2>2
<1>4. had'[d] = had[d] \cup ({k} \ {None}) /\ \A e \in Devices \ {d} : had'[e] = had[e]
  BY DEF Register, Inv, TypeOK
<1>5. TypeOK'
  <2>1. roster' \in [Devices -> Row \cup {None}]
    BY <1>3 DEF Register, Inv, TypeOK
  <2>2. had' \in [Devices -> SUBSET Keys]
    BY DEF Register, Inv, TypeOK
  <2> QED
    BY <1>1, <1>2, <2>1, <2>2 DEF Inv, TypeOK
<1>6. Grow
  BY <1>2, <1>3, <1>4 DEF Grow
<1>7. HeldKnown'
  BY <1>3, <1>4 DEF Inv, HeldKnown, Held
<1> QED
  BY ZenonT(40), <1>1, <1>2, <1>5, <1>6, <1>7, HandlersKept, SerialsKept, CertsKept DEF Inv

\* enroll_device for device-decrypt: the row gets the verified key.
LEMMA EnrollDecryptInv ==
  ASSUME Inv, NEW t \in Tasks, NEW d \in Devices, NEW csr \in Csr, EnrollDecrypt(t, d, csr)
  PROVE  Inv'
<1> USE IdentityAssumption
<1> DEFINE key == VerifiedKey(csr)
           ok == key # None /\ roster[d] # None
           s == [NoTask EXCEPT !.pc = IF ok THEN "answered" ELSE "failed",
                               !.dev = d, !.slot = "device-decrypt"]
<1>1. s \in Task /\ s.pc \in {"answered", "failed"} /\ s.keystore = None
  BY ZenonT(40) DEF NoTask, Task, Slots
<1>2. task' = [task EXCEPT ![t] = s] /\ UNCHANGED <<certs, serial>>
  BY DEF EnrollDecrypt
<1>3. key \in Keys \cup {None}
  BY DEF VerifiedKey, Csr
<1>4. /\ roster' = IF ok THEN [roster EXCEPT ![d].status = "enrolled", ![d].pubkey = key]
                   ELSE roster
      /\ had' = IF ok THEN [had EXCEPT ![d] = had[d] \cup {key}] ELSE had
  BY DEF EnrollDecrypt, Inv, TypeOK
<1> HIDE DEF s, key
<1>5. /\ ok => roster'[d] \in Row /\ roster'[d].pubkey = key
      /\ ok => had'[d] = had[d] \cup {key}
      /\ ~ok => roster'[d] = roster[d] /\ had'[d] = had[d]
      /\ \A e \in Devices \ {d} : roster'[e] = roster[e] /\ had'[e] = had[e]
  <2>1. CASE ok
    <3> DEFINE row == [roster[d] EXCEPT !.status = "enrolled", !.pubkey = key]
    <3>1. roster' = [roster EXCEPT ![d] = row]
      BY ZenonT(40), <1>4, <2>1 DEF Inv, TypeOK
    <3>2. row \in Row /\ row.pubkey = key
      BY ZenonT(40), <1>3, <2>1 DEF Row, Inv, TypeOK
    <3> HIDE DEF row
    <3> QED
      BY ZenonT(40), <1>4, <2>1, <3>1, <3>2 DEF Inv, TypeOK
  <2>2. CASE ~ok
    BY <1>4, <2>2
  <2> QED
    BY <2>1, <2>2
<1>6. TypeOK'
  <2>1. roster' \in [Devices -> Row \cup {None}] /\ had' \in [Devices -> SUBSET Keys]
    BY <1>3, <1>4, <1>5 DEF Inv, TypeOK
  <2> QED
    BY <1>1, <1>2, <2>1 DEF Inv, TypeOK
<1>7. Grow
  BY <1>2, <1>5 DEF Grow
<1>8. HeldKnown'
  BY <1>5 DEF Inv, HeldKnown, Held
<1> QED
  BY ZenonT(40), <1>1, <1>2, <1>6, <1>7, <1>8, HandlersKept, SerialsKept, CertsKept DEF Inv

\* issue_leaf gives a leaf of the device, the usage asked for and the next serial.
LEMMA IssuedLeaf ==
  ASSUME Inv, NEW d \in Devices, NEW csr \in Csr, NEW usage \in Usages,
         VerifiedKey(csr) # None, serial < MaxSerial
  PROVE  LET l == IssueLeaf(d, csr, usage)
         IN l \in Leaf /\ l.cn = d /\ l.usage = usage /\ l.serial = serial + 1
<1>1. VerifiedKey(csr) \in Keys
  BY DEF VerifiedKey, Csr
<1>2. serial + 1 \in 1 .. MaxSerial
  BY IdentityAssumption DEF Inv, TypeOK
<1> QED
  BY <1>1, <1>2 DEF IssueLeaf, Leaf

\* enroll_device for a slot with a certificate, up to the issued leaf.
LEMMA EnrollLeafInv ==
  ASSUME Inv, NEW t \in Tasks, NEW d \in Devices, NEW slot \in CertSlots, NEW csr \in Csr,
         EnrollLeaf(t, d, slot, csr)
  PROVE  Inv'
<1> USE IdentityAssumption
<1>1. Grow /\ HeldKnown' /\ CertsSound' /\ UNCHANGED <<roster, certs, had>>
  BY Reading DEF EnrollLeaf
<1>2. CASE VerifiedKey(csr) = None
  <2> DEFINE s == [NoTask EXCEPT !.pc = "failed", !.dev = d, !.slot = slot]
  <2>1. s \in Task /\ s.pc = "failed" /\ s.keystore = None
    BY ZenonT(40) DEF NoTask, Task, Slots
  <2>2. task' = [task EXCEPT ![t] = s] /\ serial' = serial
    BY <1>2 DEF EnrollLeaf
  <2> HIDE DEF s
  <2>3. TypeOK'
    BY <1>1, <2>1, <2>2 DEF Inv, TypeOK
  <2> QED
    BY ZenonT(40), <1>1, <2>1, <2>2, <2>3, HandlersKept, SerialsKept DEF Inv
<1>3. CASE VerifiedKey(csr) # None
  <2> DEFINE l == IssueLeaf(d, csr, UsageOf(slot))
             s == [NoTask EXCEPT !.pc = "known", !.dev = d, !.slot = slot, !.leaf = l]
  <2>1. UsageOf(slot) \in Usages /\ serial < MaxSerial
    BY DEF UsageOf, Usages, EnrollLeaf
  <2>2. l \in Leaf /\ l.cn = d /\ l.usage = UsageOf(slot) /\ l.serial = serial + 1
    BY <1>3, <2>1, IssuedLeaf
  <2>3. task' = [task EXCEPT ![t] = s] /\ serial' = serial + 1
    BY <1>3 DEF EnrollLeaf
  <2> HIDE DEF l
  <2>4. /\ s \in Task /\ s.pc = "known" /\ s.dev = d /\ s.slot = slot /\ s.leaf = l
        /\ s.keystore = None
    BY ZenonT(40), <2>2 DEF NoTask, Task, Slots
  <2> HIDE DEF s
  <2>5. serial \in Nat /\ serial' \in 0 .. MaxSerial
    BY <2>1, <2>3 DEF Inv, TypeOK
  <2>6. TypeOK'
    BY <1>1, <2>3, <2>4, <2>5 DEF Inv, TypeOK
  <2>7. HandlersSound' /\ KeystoreSound'
    BY ZenonT(40), <1>1, <2>2, <2>3, <2>4, HandlersKept
  <2>8. SerialsUnique'
    <3>1. /\ task'[t].leaf = l
          /\ \A u \in Tasks \ {t} : task'[u] = task[u] /\ (Pending(u)' <=> Pending(u))
      BY <2>3, <2>4 DEF Inv, TypeOK, Pending
    <3>2. /\ \A u \in Tasks : Pending(u) => task[u].leaf.serial \in Nat
          /\ \A e \in Devices, k \in CertSlots : certs[e][k] # None => certs[e][k].serial \in Nat
      BY DEF Inv, TypeOK, HandlersSound, Leaf
    <3>3. /\ \A u \in Tasks \ {t} : Pending(u)' => task'[u].leaf.serial <= serial
                                                   /\ task'[u].leaf.serial # serial + 1
          /\ \A e \in Devices, k \in CertSlots :
               certs[e][k] # None => certs[e][k].serial <= serial /\ certs[e][k].serial # serial + 1
      BY <2>5, <3>1, <3>2 DEF Inv, SerialsUnique
    <3>4. /\ \A u \in Tasks \ {t} : Pending(u)' => task'[u].leaf.serial <= serial + 1
          /\ \A e \in Devices, k \in CertSlots :
               certs[e][k] # None => certs[e][k].serial <= serial + 1
      BY <2>5, <3>1, <3>2, <3>3
    <3>5. serial + 1 <= serial + 1
      BY <2>5
    <3> QED
      BY <1>1, <2>2, <2>3, <3>1, <3>3, <3>4, <3>5 DEF Inv, SerialsUnique
  <2> QED
    BY <1>1, <2>6, <2>7, <2>8 DEF Inv
<1> QED
  BY <1>2, <1>3

\* The roster is read before the leaf is stored; rows are never deleted.
LEMMA CheckKnownInv ==
  ASSUME Inv, NEW t \in Tasks, CheckKnown(t)
  PROVE  Inv'
<1> DEFINE pc == IF roster[task[t].dev] = None THEN "failed" ELSE "store"
           s == [task[t] EXCEPT !.pc = pc]
<1>1. Grow /\ HeldKnown' /\ CertsSound' /\ UNCHANGED <<roster, certs, serial, had>>
  BY Reading DEF CheckKnown
<1>2. pc \in {"failed", "store"} /\ (pc = "store" => roster'[task[t].dev] # None)
  BY <1>1
<1>3. task' = [task EXCEPT ![t] = s] /\ task[t] \in Task /\ Pending(t)
  BY DEF CheckKnown, End, Inv, TypeOK, Pending
<1> HIDE DEF pc
<1>4. /\ s \in Task /\ s.pc = pc /\ s.dev = task[t].dev /\ s.slot = task[t].slot
      /\ s.leaf = task[t].leaf /\ s.keystore = task[t].keystore
  BY <1>2, <1>3 DEF Task
<1>5. task[t].keystore = None
  BY <1>3 DEF Inv, HandlersSound, Pending
<1> HIDE DEF s
<1>6. TypeOK'
  BY SMTT(30), <1>1, <1>3, <1>4 DEF Inv, TypeOK
<1>7. HandlersSound' /\ KeystoreSound'
  BY ZenonT(40), <1>1, <1>2, <1>3, <1>4, <1>5, HandlersKept DEF Inv, HandlersSound
<1>8. SerialsUnique'
  BY ZenonT(40), <1>1, <1>3, <1>4, SerialsKept
<1> QED
  BY <1>1, <1>6, <1>7, <1>8 DEF Inv

\* The insert into device_certs: the leaf of this handler, in its own slot.
LEMMA StoreCertInv ==
  ASSUME Inv, NEW t \in Tasks, StoreCert(t)
  PROVE  Inv'
<1> USE IdentityAssumption
<1> DEFINE d == task[t].dev
           k == task[t].slot
           l == task[t].leaf
           s == [task[t] EXCEPT !.pc = "answered"]
<1>1. /\ Pending(t) /\ task[t] \in Task
      /\ d \in Devices /\ k \in CertSlots /\ l \in Leaf /\ l # None
      /\ l.cn = d /\ l.usage = UsageOf(k) /\ roster[d] # None
      /\ task[t].keystore = None
  BY DEF StoreCert, Pending, Inv, TypeOK, HandlersSound
<1>2. s \in Task /\ s.pc = "answered" /\ s.keystore = None
  BY <1>1 DEF Task
<1>3. task' = [task EXCEPT ![t] = s] /\ UNCHANGED <<roster, serial, had>>
  BY DEF StoreCert, End, Inv, TypeOK
<1> HIDE DEF s
<1>4. /\ certs'[d][k] = l
      /\ \A e \in Devices, j \in CertSlots : <<e, j>> # <<d, k>> => certs'[e][j] = certs[e][j]
      /\ certs' \in [Devices -> [CertSlots -> Leaf \cup {None}]]
  BY <1>1 DEF StoreCert, Inv, TypeOK
<1> HIDE DEF d, k, l
<1>5. TypeOK'
  BY <1>2, <1>3, <1>4 DEF Inv, TypeOK
<1>6. Grow
  BY <1>1, <1>3, <1>4 DEF Grow
<1>7. HeldKnown'
  BY <1>3 DEF Inv, HeldKnown, Held
<1>8. HandlersSound' /\ KeystoreSound'
  BY ZenonT(40), <1>2, <1>3, <1>6, HandlersKept
<1>9. CertsSound'
  <2> SUFFICES ASSUME NEW e \in Devices, NEW j \in CertSlots, certs'[e][j] # None
               PROVE  /\ roster'[e] # None /\ certs'[e][j].cn = e
                      /\ certs'[e][j].usage = UsageOf(j)
                      /\ \A f \in Devices, i \in CertSlots :
                           (certs'[f][i] # None /\ certs'[f][i].serial = certs'[e][j].serial)
                             => <<f, i>> = <<e, j>>
    BY DEF CertsSound, UsageOf
  <2>1. \A f \in Devices, i \in CertSlots :
          certs[f][i] # None => certs[f][i].serial # l.serial
    BY <1>1 DEF Inv, SerialsUnique, l
  <2>2. CASE <<e, j>> = <<d, k>>
    BY <1>1, <1>3, <1>4, <2>1, <2>2
  <2>3. CASE <<e, j>> # <<d, k>>
    BY <1>3, <1>4, <2>1, <2>3 DEF Inv, CertsSound
  <2> QED
    BY <2>2, <2>3
<1>10. SerialsUnique'
  <2>1. /\ ~Pending(t)'
        /\ \A u \in Tasks \ {t} : task'[u] = task[u] /\ (Pending(u)' <=> Pending(u))
    BY <1>2, <1>3 DEF Inv, TypeOK, Pending
  <2>2. l.serial <= serial /\ \A u \in Tasks \ {t} : Pending(u) => task[u].leaf.serial # l.serial
    BY <1>1 DEF Inv, SerialsUnique, l
  <2> QED
    BY <1>3, <1>4, <2>1, <2>2 DEF Inv, SerialsUnique
<1> QED
  BY <1>5, <1>7, <1>8, <1>9, <1>10 DEF Inv

\* mint_keystore_endpoint reads a key that the row holds.
LEMMA ReadRecipientInv ==
  ASSUME Inv, NEW t \in Tasks, NEW d \in Devices, ReadRecipient(t, d)
  PROVE  Inv'
<1> USE IdentityAssumption
<1> DEFINE pc == IF Held(d) = {} THEN "failed" ELSE "leaf"
           key == IF roster[d] = None THEN None ELSE roster[d].pubkey
           hl == certs[d]["tls-identity"] # None
           s == [NoTask EXCEPT !.pc = pc, !.dev = d, !.pubkey = key, !.hadLeaf = hl]
<1>1. Grow /\ HeldKnown' /\ CertsSound' /\ UNCHANGED <<roster, certs, serial, had>>
  BY Reading DEF ReadRecipient
<1>2. /\ pc \in {"failed", "leaf"} /\ key \in Keys \cup {None}
      /\ pc = "leaf" => key \in had'[d]
  BY <1>1 DEF Inv, TypeOK, Row, Held, HeldKnown
<1>3. task' = [task EXCEPT ![t] = s]
  BY DEF ReadRecipient
<1>4. hl \in BOOLEAN /\ (hl => certs'[d]["tls-identity"] # None)
  BY <1>1
<1> HIDE DEF pc, key, hl
<1>5. /\ s \in Task /\ s.pc = pc /\ s.dev = d /\ s.pubkey = key /\ s.hadLeaf = hl
      /\ s.keystore = None
  BY ZenonT(40), <1>2, <1>4 DEF NoTask, Task
<1> HIDE DEF s
<1>6. TypeOK'
  BY <1>1, <1>3, <1>5 DEF Inv, TypeOK
<1>7. HandlersSound' /\ KeystoreSound'
  BY ZenonT(40), <1>1, <1>2, <1>3, <1>4, <1>5, HandlersKept
<1>8. SerialsUnique'
  BY ZenonT(40), <1>1, <1>2, <1>3, <1>5, SerialsKept
<1> QED
  BY <1>1, <1>6, <1>7, <1>8 DEF Inv

\* ... and then the leaf of the device's own slot, which stays once it is there.
LEMMA ReadLeafInv ==
  ASSUME Inv, NEW t \in Tasks, ReadLeaf(t)
  PROVE  Inv'
<1> USE IdentityAssumption
<1> DEFINE d == task[t].dev
           leaf == certs[d]["tls-identity"]
           ks == MintKeystore(task[t].pubkey, SignerKey, leaf)
           s == [task[t] EXCEPT !.pc = "answered", !.keystore = ks]
<1>1. Grow /\ HeldKnown' /\ CertsSound' /\ UNCHANGED <<roster, certs, serial, had>>
  BY Reading DEF ReadLeaf
<1>2. /\ task[t] \in Task /\ d \in Devices /\ task[t].pubkey \in had[d]
      /\ task[t].hadLeaf => leaf # None
  BY DEF ReadLeaf, Inv, TypeOK, HandlersSound
<1>3. "tls-identity" \in CertSlots /\ UsageOf("tls-identity") = "mtls"
  BY DEF CertSlots, UsageOf
<1>4. /\ task[t].pubkey \in Keys /\ leaf \in Leaf \cup {None}
      /\ leaf # None => leaf.cn = d /\ leaf.usage = "mtls"
  BY <1>2, <1>3 DEF Inv, TypeOK, CertsSound
<1>5. /\ ks \in Keystore /\ ks.recipient = task[t].pubkey
      /\ ks.content.certificates = IF leaf = None THEN {} ELSE {leaf}
      /\ ks.content.anchors["sw-authority"] = SignerKey
  <2>1. ks \in Keystore
    BY <1>4 DEF Keystore
  <2>2. ks.content = AssembleKeystore(SignerKey, leaf) /\ ks.recipient = task[t].pubkey
    BY DEF MintKeystore
  <2>3. "sw-authority" \in Roles \ DeviceGenerated
    BY DEF Roles, DeviceGenerated
  <2> QED
    BY <2>1, <2>2, <2>3 DEF AssembleKeystore, AnchorOf
<1>6. task' = [task EXCEPT ![t] = s]
  BY ZenonT(40) DEF ReadLeaf, Inv, TypeOK
<1> HIDE DEF ks, d, leaf
<1>7. /\ s \in Task /\ s.pc = "answered" /\ s.keystore = ks
      /\ s.dev = d /\ s.hadLeaf = task[t].hadLeaf
  BY ZenonT(40), <1>2, <1>5 DEF Task, d
<1> HIDE DEF s
<1>8. Answer(s, had'[s.dev])
  BY <1>1, <1>2, <1>4, <1>5, <1>7 DEF Answer
<1>9. TypeOK'
  BY <1>1, <1>6, <1>7 DEF Inv, TypeOK
<1>10. HandlersSound' /\ KeystoreSound'
  BY ZenonT(40), <1>1, <1>2, <1>6, <1>7, <1>8, HandlersKept
<1>11. SerialsUnique'
  BY ZenonT(40), <1>1, <1>6, <1>7, SerialsKept
<1> QED
  BY <1>1, <1>9, <1>10, <1>11 DEF Inv

LEMMA DropInv ==
  ASSUME Inv, NEW t \in Tasks, Drop(t)
  PROVE  Inv'
<1> DEFINE s == [task[t] EXCEPT !.pc = "failed"]
<1>1. Grow /\ HeldKnown' /\ CertsSound' /\ UNCHANGED <<roster, certs, serial, had>>
  BY Reading DEF Drop
<1>2. task' = [task EXCEPT ![t] = s] /\ task[t] \in Task
  BY DEF Drop, End, Inv, TypeOK
<1>3. s \in Task /\ s.pc = "failed" /\ s.keystore = task[t].keystore /\ s.dev = task[t].dev
  BY <1>2 DEF Task
<1> HIDE DEF s
<1>4. TypeOK'
  BY SMTT(30), <1>1, <1>2, <1>3 DEF Inv, TypeOK
<1>5. HandlersSound' /\ KeystoreSound'
  BY ZenonT(40), <1>1, <1>2, <1>3, HandlersKept DEF Inv, HandlersSound
<1>6. SerialsUnique'
  BY ZenonT(40), <1>1, <1>2, <1>3, SerialsKept
<1> QED
  BY <1>1, <1>4, <1>5, <1>6 DEF Inv

LEMMA NextInv == Inv /\ [Next]_vars => Inv'
<1> SUFFICES ASSUME Inv, [Next]_vars PROVE Inv'
  OBVIOUS
<1>1. CASE UNCHANGED vars
  BY <1>1 DEF vars, Inv, TypeOK, CertsSound, KeystoreSound, HeldKnown, Held, HandlersSound,
              SerialsUnique, Pending
<1> QED
  BY <1>1, RegisterInv, EnrollDecryptInv, EnrollLeafInv, CheckKnownInv, StoreCertInv,
     ReadRecipientInv, ReadLeafInv, DropInv
  DEF Next

-----------------------------------------------------------------------------
(* Theorems                                                                *)

\* Tower 1 keeps its inductive invariant over all interleavings of its handlers.
THEOREM IdentityInvariant == Spec => []Inv
  BY InitInv, NextInv, PTL DEF Spec

\* Type correctness of Tower 1.
THEOREM IdentityTypeOK == Spec => []TypeOK
<1>1. Inv => TypeOK
  BY DEF Inv
<1> QED
  BY <1>1, IdentityInvariant, PTL

\* A stored leaf names the device and has the usage of its own slot, its device is
\* registered, and no two slots share a serial, however enrolments interleave.
THEOREM CertsAlwaysSound == Spec => []CertsSound
<1>1. Inv => CertsSound
  BY DEF Inv
<1> QED
  BY <1>1, IdentityInvariant, PTL

\* A keystore from mint_keystore_endpoint is for a key of the device that was asked
\* for and carries that device's own leaf, whatever runs between the two reads.
THEOREM KeystoresAlwaysSound == Spec => []KeystoreSound
<1>1. Inv => KeystoreSound
  BY DEF Inv
<1> QED
  BY <1>1, IdentityInvariant, PTL

\* No step of a handler takes a row, a key, a model, the enrolment or a certificate
\* away: the upserts and updates of devices.rs only replace.
THEOREM RosterNeverLoses == Spec => RosterKept
<1> USE IdentityAssumption
<1> DEFINE Kept ==
             \A d \in Devices :
               /\ roster[d] # None =>
                    /\ roster'[d] # None
                    /\ roster[d].pubkey # None => roster'[d].pubkey # None
                    /\ roster[d].model # None => roster'[d].model # None
                    /\ roster[d].status = "enrolled" => roster'[d].status = "enrolled"
               /\ \A k \in CertSlots : certs[d][k] # None => certs'[d][k] # None
<1>1. ASSUME Inv, Next PROVE Kept
  <2> PICK t \in Tasks :
        \/ CheckKnown(t) \/ StoreCert(t) \/ ReadLeaf(t) \/ Drop(t)
        \/ \E d \in Devices :
             \/ \E m \in Models \cup {None}, k \in Keys \cup {None} : Register(t, d, m, k)
             \/ \E csr \in Csr : EnrollDecrypt(t, d, csr) \/ \E s \in CertSlots : EnrollLeaf(t, d, s, csr)
             \/ ReadRecipient(t, d)
    BY <1>1 DEF Next
  <2>1. CASE UNCHANGED <<roster, certs>>
    BY <2>1
  <2>2. CASE StoreCert(t)
    <3>1. /\ UNCHANGED roster /\ task[t].leaf # None
          /\ task[t].dev \in Devices /\ task[t].slot \in CertSlots
      BY <1>1, <2>2 DEF StoreCert, Inv, HandlersSound, Pending
    <3>2. \A e \in Devices, j \in CertSlots : certs'[e][j] \in {certs[e][j], task[t].leaf}
      BY ZenonT(40), <1>1, <2>2, <3>1 DEF StoreCert, Inv, TypeOK
    <3> QED
      BY <3>1, <3>2
  <2>3. ASSUME NEW d \in Devices, NEW m \in Models \cup {None}, NEW k \in Keys \cup {None},
               Register(t, d, m, k)
        PROVE  Kept
    <3>1. certs' = certs /\ \A e \in Devices \ {d} : roster'[e] = roster[e]
      BY ZenonT(40), <1>1, <2>3 DEF Register, Inv, TypeOK
    <3>2. ASSUME roster[d] # None
          PROVE  /\ roster'[d] \in Row
                 /\ roster'[d].model = Coalesce(m, roster[d].model)
                 /\ roster'[d].pubkey = Coalesce(k, roster[d].pubkey)
                 /\ roster'[d].status = roster[d].status
      <4>1. roster[d] \in Row
        BY <1>1, <3>2 DEF Inv, TypeOK
      <4>2. roster'[d] = [roster[d] EXCEPT !.model = Coalesce(m, roster[d].model),
                                           !.pubkey = Coalesce(k, roster[d].pubkey)]
        BY ZenonT(40), <1>1, <2>3, <3>2 DEF Register, Inv, TypeOK
      <4>3. /\ Coalesce(m, roster[d].model) \in Models \cup {None}
            /\ Coalesce(k, roster[d].pubkey) \in Keys \cup {None}
        BY <4>1 DEF Row, Coalesce
      <4> QED
        BY ZenonT(40), <4>1, <4>2, <4>3 DEF Row
    <3> QED
      BY <3>1, <3>2 DEF Coalesce
  <2>4. ASSUME NEW d \in Devices, NEW csr \in Csr, EnrollDecrypt(t, d, csr)
        PROVE  Kept
    <3>1. certs' = certs /\ \A e \in Devices \ {d} : roster'[e] = roster[e]
      BY ZenonT(40), <1>1, <2>4 DEF EnrollDecrypt, Inv, TypeOK
    <3>2. ASSUME roster[d] # None, roster'[d] # roster[d]
          PROVE  /\ roster'[d] \in Row /\ roster'[d].model = roster[d].model
                 /\ roster'[d].pubkey # None /\ roster'[d].status = "enrolled"
      <4>1. roster[d] \in Row /\ VerifiedKey(csr) \in Keys
        BY ZenonT(40), <1>1, <2>4, <3>2 DEF Inv, TypeOK, EnrollDecrypt, VerifiedKey, Csr
      <4>2. roster'[d] = [roster[d] EXCEPT !.status = "enrolled", !.pubkey = VerifiedKey(csr)]
        BY ZenonT(40), <1>1, <2>4, <3>2 DEF EnrollDecrypt, Inv, TypeOK
      <4> QED
        BY ZenonT(40), <4>1, <4>2 DEF Row
    <3> QED
      BY <3>1, <3>2
  <2> QED
    BY ZenonT(40), <2>1, <2>2, <2>3, <2>4 DEF CheckKnown, ReadLeaf, Drop, EnrollLeaf, ReadRecipient
<1> HIDE DEF Kept
<1>2. Inv /\ [Next]_vars => [Kept]_vars
  BY <1>1
<1>3. Spec => [][Kept]_vars
  BY <1>2, IdentityInvariant, PTL DEF Spec
<1> QED
  BY <1>3 DEF Kept, RosterKept
=============================================================================
