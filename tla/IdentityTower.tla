---------------------------- MODULE IdentityTower ----------------------------
(***************************************************************************)
(* Tower 1: the device roster, enrolment of device keys, and the minting   *)
(* of HSM keystores (identity-tower/src/devices.rs, keystore.rs, ca.rs).   *)
(* Every statement commits on its own, handlers run concurrently, and a    *)
(* handler may be dropped between two of its statements.                   *)
(*                                                                         *)
(* A public key stands for its encodings (COSE, SEC1, hex): the code       *)
(* converts among them without loss.  A certificate is the record of what  *)
(* it says; its serial is fresh.  The CAs are fixed here; how they survive *)
(* restarts is the subject of TowerKeys.                                   *)
(***************************************************************************)
EXTENDS Naturals

CONSTANTS
  Devices, Keys, Models,
  Tasks,        \* handlers at once
  SignerKey,    \* Tower 2's signing key, the sw-authority anchor
  MaxSerial,    \* bound on the certificates issued
  None

VARIABLES
  roster,    \* the devices table
  certs,     \* the device_certs table, by device and key_id
  task,      \* per task: the handler in progress and what it has read
  serial,    \* certificates issued so far
  had        \* history: the keys that each device's row has held

vars == <<roster, certs, task, serial, had>>

CertSlots == {"tls-identity", "ecu-signing"}
Slots == CertSlots \cup {"device-decrypt"}
Csr == [key : Keys, signed : BOOLEAN]
Row == [model : Models \cup {None}, status : {"registered", "enrolled"}, pubkey : Keys \cup {None}]
Usages == {"client", "mtls"}
Leaf == [cn : Devices, key : Keys, usage : Usages, serial : 1 .. MaxSerial, issuer : {"identity"}]

ASSUME IdentityAssumption ==
  /\ MaxSerial \in Nat
  /\ None \notin Keys \cup Models \cup {SignerKey} \cup Row \cup Leaf

NoTask == [pc |-> "idle", dev |-> None, slot |-> None, leaf |-> None, pubkey |-> None,
           keystore |-> None, hadLeaf |-> FALSE]

Init ==
  /\ roster = [d \in Devices |-> None]
  /\ certs = [d \in Devices |-> [k \in CertSlots |-> None]]
  /\ task = [t \in Tasks |-> NoTask]
  /\ serial = 0
  /\ had = [d \in Devices |-> {}]

Free(t) == task[t].pc \in {"idle", "answered", "failed"}
End(t, pc) == task' = [task EXCEPT ![t].pc = pc]
Held(d) == IF roster[d] = None THEN {} ELSE {roster[d].pubkey} \ {None}

-----------------------------------------------------------------------------
MutRegisterOverwrites(t, d, model, pubkey) ==
  /\ Free(t)
  /\ roster' = [roster EXCEPT ![d] =
       [model |-> model, pubkey |-> pubkey,
        status |-> IF @ = None THEN "registered" ELSE @.status]]
  /\ had' = [had EXCEPT ![d] = @ \cup ({pubkey} \ {None})]
  /\ task' = [task EXCEPT ![t] = [NoTask EXCEPT !.pc = "answered", !.dev = d]]
  /\ UNCHANGED <<certs, serial>>

\* SQL's COALESCE of a request's field and a row's.
Coalesce(new, old) == IF new = None THEN old ELSE new

\* register_device: one upsert that keeps what the request leaves out.
Register(t, d, model, pubkey) ==
  /\ Free(t)
  /\ roster' = [roster EXCEPT ![d] =
       IF @ = None THEN [model |-> model, pubkey |-> pubkey, status |-> "registered"]
       ELSE [@ EXCEPT !.model = Coalesce(model, roster[d].model),
                      !.pubkey = Coalesce(pubkey, roster[d].pubkey)]]
  /\ had' = [had EXCEPT ![d] = @ \cup ({pubkey} \ {None})]
  /\ task' = [task EXCEPT ![t] = [NoTask EXCEPT !.pc = "answered", !.dev = d]]
  /\ UNCHANGED <<certs, serial>>

\* verify_csr_pubkey, parse_and_verify_csr: the requester's key, if it signed the CSR.
VerifiedKey(csr) == IF csr.signed THEN csr.key ELSE None

\* enroll_device for device-decrypt: one update; 404 if there is no row.
EnrollDecrypt(t, d, csr) ==
  /\ Free(t)
  /\ LET key == VerifiedKey(csr)
         ok == key # None /\ roster[d] # None
     IN /\ roster' = IF ok THEN [roster EXCEPT ![d].status = "enrolled", ![d].pubkey = key] ELSE roster
        /\ had' = IF ok THEN [had EXCEPT ![d] = @ \cup {key}] ELSE had
        /\ task' = [task EXCEPT ![t] = [NoTask EXCEPT !.pc = IF ok THEN "answered" ELSE "failed",
                                                      !.dev = d, !.slot = "device-decrypt"]]
  /\ UNCHANGED <<certs, serial>>

MutIssueLeafLastSerial(d, csr, usage) ==
  [cn |-> d, key |-> VerifiedKey(csr), usage |-> usage, serial |-> serial, issuer |-> "identity"]

\* The usage of the leaf in a slot.
UsageOf(slot) == IF slot = "tls-identity" THEN "mtls" ELSE "client"

\* issue_leaf: the extended key usage (and the names) follow from the usage.
IssueLeaf(d, csr, usage) ==
  [cn |-> d, key |-> VerifiedKey(csr), usage |-> usage, serial |-> serial + 1, issuer |-> "identity"]

\* enroll_device for a slot with a certificate: the leaf is issued before the roster is read.
EnrollLeaf(t, d, slot, csr) ==
  /\ Free(t)
  /\ serial < MaxSerial
  /\ IF VerifiedKey(csr) = None
     THEN /\ task' = [task EXCEPT ![t] = [NoTask EXCEPT !.pc = "failed", !.dev = d, !.slot = slot]]
          /\ UNCHANGED serial
     ELSE /\ task' = [task EXCEPT ![t] = [NoTask EXCEPT !.pc = "known", !.dev = d, !.slot = slot,
                        !.leaf = IssueLeaf(d, csr, UsageOf(slot))]]
          /\ serial' = serial + 1
  /\ UNCHANGED <<roster, certs, had>>

\* SELECT 1 FROM devices; 404 if there is no row.
CheckKnown(t) ==
  /\ task[t].pc = "known"
  /\ End(t, IF roster[task[t].dev] = None THEN "failed" ELSE "store")
  /\ UNCHANGED <<roster, certs, serial, had>>

MutStoreAnySlot(t) ==
  /\ task[t].pc = "store"
  /\ certs' = [certs EXCEPT ![task[t].dev] = [k \in CertSlots |-> task[t].leaf]]
  /\ End(t, "answered")
  /\ UNCHANGED <<roster, serial, had>>

\* INSERT INTO device_certs ... ON CONFLICT DO UPDATE: the last writer's leaf stays.
StoreCert(t) ==
  /\ task[t].pc = "store"
  /\ certs' = [certs EXCEPT ![task[t].dev][task[t].slot] = task[t].leaf]
  /\ End(t, "answered")
  /\ UNCHANGED <<roster, serial, had>>

-----------------------------------------------------------------------------
\* The roles of hsm::KeyRole that assemble_keystore tells apart.
Roles == {"device-decrypt", "tls-identity", "ecu-signing", "storage-key", "sw-authority",
          "key-authority", "factory-reset-issuer"}
DeviceGenerated == {"device-decrypt", "tls-identity", "ecu-signing", "storage-key"}

\* What an anchor slot carries: Tower 2's key, the public factory key, or this CA's.
AnchorOf(role, sw) ==
  CASE role = "sw-authority" -> sw
    [] role = "factory-reset-issuer" -> "factory"
    [] OTHER -> "key-authority-ca"

\* assemble_keystore: one slot per mandatory role; a device makes its own keys itself.
\* The operations a slot allows are left out.
AssembleKeystore(sw, leaf) ==
  [anchors |-> [r \in Roles \ DeviceGenerated |-> AnchorOf(r, sw)],
   certificates |-> IF leaf = None THEN {} ELSE {leaf},
   trustAnchors |-> {"delegation"}]

\* mint_keystore: the keystore encrypted for the device, signed with the factory key.
MintKeystore(pubkey, sw, leaf) ==
  [recipient |-> pubkey, signedBy |-> "factory", content |-> AssembleKeystore(sw, leaf)]

\* mint_keystore_endpoint: the recipient is read, then the leaf, in two statements.
ReadRecipient(t, d) ==
  /\ Free(t)
  /\ task' = [task EXCEPT ![t] = [NoTask EXCEPT
       !.pc = IF Held(d) = {} THEN "failed" ELSE "leaf", !.dev = d,
       !.pubkey = IF roster[d] = None THEN None ELSE roster[d].pubkey,
       !.hadLeaf = certs[d]["tls-identity"] # None]]
  /\ UNCHANGED <<roster, certs, serial, had>>

MutReadLeafAnySlot(t) ==
  /\ task[t].pc = "leaf"
  /\ \E k \in CertSlots :
       task' = [task EXCEPT ![t].pc = "answered",
         ![t].keystore = MintKeystore(task[t].pubkey, SignerKey, certs[task[t].dev][k])]
  /\ UNCHANGED <<roster, certs, serial, had>>

ReadLeaf(t) ==
  /\ task[t].pc = "leaf"
  /\ task' = [task EXCEPT ![t].pc = "answered",
       ![t].keystore = MintKeystore(task[t].pubkey, SignerKey, certs[task[t].dev]["tls-identity"])]
  /\ UNCHANGED <<roster, certs, serial, had>>

\* The client goes away between two statements.
Drop(t) ==
  /\ ~Free(t)
  /\ End(t, "failed")
  /\ UNCHANGED <<roster, certs, serial, had>>

Next ==
  \E t \in Tasks :
    \/ CheckKnown(t) \/ StoreCert(t) \/ ReadLeaf(t) \/ Drop(t)
    \/ \E d \in Devices :
         \/ \E m \in Models \cup {None}, k \in Keys \cup {None} : Register(t, d, m, k)
         \/ \E csr \in Csr : EnrollDecrypt(t, d, csr) \/ \E s \in CertSlots : EnrollLeaf(t, d, s, csr)
         \/ ReadRecipient(t, d)

Spec == Init /\ [][Next]_vars

-----------------------------------------------------------------------------
Keystore == {MintKeystore(k, SignerKey, l) : k \in Keys, l \in Leaf \cup {None}}
Task ==
  [pc : {"idle", "known", "store", "leaf", "answered", "failed"},
   dev : Devices \cup {None}, slot : Slots \cup {None}, leaf : Leaf \cup {None},
   pubkey : Keys \cup {None}, keystore : Keystore \cup {None}, hadLeaf : BOOLEAN]

\* Type invariant.
TypeOK ==
  /\ roster \in [Devices -> Row \cup {None}]
  /\ certs \in [Devices -> [CertSlots -> Leaf \cup {None}]]
  /\ task \in [Tasks -> Task]
  /\ serial \in 0 .. MaxSerial
  /\ had \in [Devices -> SUBSET Keys]

\* A stored leaf names the device and has the usage of its own slot, belongs to a
\* registered device, and no two slots share a serial (the unique index is never hit).
CertsSound ==
  \A d \in Devices, k \in CertSlots : certs[d][k] # None =>
    /\ roster[d] # None /\ certs[d][k].cn = d
    /\ certs[d][k].usage = UsageOf(k)
    /\ \A e \in Devices, j \in CertSlots :
         (certs[e][j] # None /\ certs[e][j].serial = certs[d][k].serial) => <<e, j>> = <<d, k>>

\* What mint_keystore_endpoint answers, whatever runs between its two reads: the
\* recipient is a key that the device's row has held, the leaf is a tls-identity leaf
\* of that device, and it is there when one was stored before the call.
KeystoreSound ==
  \A t \in Tasks : (task[t].pc = "answered" /\ task[t].keystore # None) =>
    LET ks == task[t].keystore
    IN /\ ks.recipient \in had[task[t].dev]
       /\ task[t].hadLeaf => ks.content.certificates # {}
       /\ \A l \in ks.content.certificates : l.cn = task[t].dev /\ l.usage = "mtls"
       /\ ks.content.anchors["sw-authority"] = SignerKey

\* A handler's step, and a retry or a partial registration, never loses what the
\* roster knows: rows, keys, models, enrolment and certificates are only replaced.
RosterKept ==
  [][\A d \in Devices :
       /\ roster[d] # None =>
            /\ roster'[d] # None
            /\ roster[d].pubkey # None => roster'[d].pubkey # None
            /\ roster[d].model # None => roster'[d].model # None
            /\ roster[d].status = "enrolled" => roster'[d].status = "enrolled"
       /\ \A k \in CertSlots : certs[d][k] # None => certs'[d][k] # None]_vars

-----------------------------------------------------------------------------
(* The inductive invariant                                                 *)

\* The history has the key of every row.
HeldKnown == \A d \in Devices : Held(d) \subseteq had[d]

Pending(t) == task[t].pc \in {"known", "store"}

\* A handler carries a leaf for its own device and slot, or a key of its device; a
\* device that was found stays, and so does a leaf that was there.
HandlersSound ==
  \A t \in Tasks :
    /\ Pending(t) => /\ task[t].dev \in Devices /\ task[t].slot \in CertSlots
                     /\ task[t].leaf \in Leaf
                     /\ task[t].leaf.cn = task[t].dev
                     /\ task[t].leaf.usage = UsageOf(task[t].slot)
    /\ task[t].pc = "store" => roster[task[t].dev] # None
    /\ task[t].pc = "leaf" =>
         /\ task[t].dev \in Devices /\ task[t].pubkey \in had[task[t].dev]
         /\ task[t].hadLeaf => certs[task[t].dev]["tls-identity"] # None
    /\ task[t].keystore # None => task[t].dev \in Devices /\ task[t].pc \in {"answered", "failed"}

\* A serial in a table or in flight was handed out, and once.
SerialsUnique ==
  /\ \A d \in Devices, k \in CertSlots : certs[d][k] # None => certs[d][k].serial <= serial
  /\ \A t \in Tasks : Pending(t) =>
       /\ task[t].leaf.serial <= serial
       /\ \A u \in Tasks \ {t} : Pending(u) => task[u].leaf.serial # task[t].leaf.serial
       /\ \A d \in Devices, k \in CertSlots :
            certs[d][k] # None => certs[d][k].serial # task[t].leaf.serial

Inv == TypeOK /\ CertsSound /\ KeystoreSound /\ HeldKnown /\ HandlersSound /\ SerialsUnique
=============================================================================
