------------------------------ MODULE TowerKeys ------------------------------
(***************************************************************************)
(* Startup of the two towers and the keys they keep in files: the three    *)
(* CAs of Tower 1 (identity-tower/src/main.rs, ca.rs), a key file and a    *)
(* certificate file each, and the signing key of Tower 2                   *)
(* (software-tower/src/main.rs).  A tower may be stopped at any point,     *)
(* between two writes too, and be started again.  std::fs::write creates   *)
(* or truncates the file, then writes it.                                  *)
(*                                                                         *)
(* A key is a number, fresh at each generation; a certificate is the       *)
(* number of the key that it certifies.  0 is a file cut short.            *)
(***************************************************************************)
EXTENDS Naturals, Sequences, FiniteSets

CONSTANTS
  Attempts,                \* connection attempts: 15 in the code
  MaxGenerated, MaxStops,  \* bounds on the keys generated and on stops
  MaxLosses,               \* bound on the files that are lost
  Losable,                 \* the files that can be lost
  None

ASSUME TowerAssumption ==
  /\ Attempts \in Nat \ {0} /\ MaxGenerated \in Nat /\ MaxStops \in Nat /\ MaxLosses \in Nat
  /\ None \notin Nat

Towers == {"ca", "hub"}
Authorities == {"key-authority", "identity", "delegation", "sw-authority"}

\* The order in which main loads them.
OrderOf(w) == IF w = "ca" THEN <<"key-authority", "identity", "delegation">> ELSE <<"sw-authority">>
HasCert(a) == a # "sw-authority"
FilesOf(a) == {<<a, "key">>} \cup (IF HasCert(a) THEN {<<a, "cert">>} ELSE {})
Files == UNION {FilesOf(a) : a \in Authorities}

VARIABLES
  file,       \* what each file holds: None, 0 when cut short, or a key
  loaded,     \* the key and certificate that the running tower has in memory
  proc,       \* per tower: pc, attempt, and n, the authority it is at
  generated,  \* keys generated so far
  stops,      \* stops so far
  lost,       \* history: the files that were lost
  offer,      \* Tower 2's key as the command that mints a keystore has read it
  suit,       \* the anchors in the keystore file that command wrote last
  signed,     \* history: the keys that signatures were made with, by authority
  pinned      \* history: the anchors that keystores and bundles carry, by authority

vars == <<file, loaded, proc, generated, stops, lost, offer, suit, signed, pinned>>

Down == [pc |-> "down", attempt |-> 0, n |-> 0]
Nothing == [key |-> None, cert |-> None]
Forgotten(w) == [a \in Authorities |-> IF \E i \in DOMAIN OrderOf(w) : OrderOf(w)[i] = a
                                       THEN Nothing ELSE loaded[a]]

Init ==
  /\ file = [f \in Files |-> None]
  /\ loaded = [a \in Authorities |-> Nothing]
  /\ proc = [w \in Towers |-> Down]
  /\ generated = 0 /\ stops = 0 /\ lost = {}
  /\ offer = None /\ suit = {}
  /\ signed = {} /\ pinned = {}

At(w) == OrderOf(w)[proc[w].n]
Go(w, pc) == proc' = [proc EXCEPT ![w].pc = pc]
Kept == UNCHANGED <<stops, lost, offer, suit, signed, pinned>>

-----------------------------------------------------------------------------
Start(w) ==
  /\ proc[w].pc = "down"
  /\ proc' = [proc EXCEPT ![w] = [pc |-> "connect", attempt |-> 1, n |-> 1]]
  /\ UNCHANGED <<file, loaded, generated>> /\ Kept

\* connect_with_retry: the database answers, and the migrations run to their end.
Connect(w) ==
  /\ proc[w].pc = "connect"
  /\ Go(w, "decide")
  /\ UNCHANGED <<file, loaded, generated>> /\ Kept

MutRetryForever(w) ==
  /\ proc[w].pc = "connect"
  /\ proc' = [proc EXCEPT ![w].attempt = IF @ < Attempts THEN @ + 1 ELSE 1]
  /\ UNCHANGED <<file, loaded, generated>> /\ Kept

\* The attempt fails; after the last one main returns the error.
Retry(w) ==
  /\ proc[w].pc = "connect"
  /\ proc' = [proc EXCEPT ![w] = IF @.attempt < Attempts
                                 THEN [pc |-> "connect", attempt |-> @.attempt + 1, n |-> 1]
                                 ELSE Down]
  /\ UNCHANGED <<file, loaded, generated>> /\ Kept

\* The authority is in memory: the next one, or the routes are served.
Proceed(w) == IF proc[w].n < Len(OrderOf(w))
              THEN [proc EXCEPT ![w].pc = "decide", ![w].n = @ + 1]
              ELSE [proc EXCEPT ![w].pc = "serve"]

MutLoadUnparsed(w) ==
  LET a == At(w)
      read == [key |-> file[<<a, "key">>], cert |-> IF HasCert(a) THEN file[<<a, "cert">>] ELSE None]
  IN /\ proc[w].pc = "decide"
     /\ \A f \in FilesOf(a) : file[f] # None
     /\ loaded' = [loaded EXCEPT ![a] = read]
     /\ proc' = Proceed(w)
     /\ UNCHANGED <<file, generated>> /\ Kept

\* load_or_generate_ca, load_or_generate_signer: every file is there, and is parsed.
Load(w) ==
  LET a == At(w)
      read == [key |-> file[<<a, "key">>], cert |-> IF HasCert(a) THEN file[<<a, "cert">>] ELSE None]
  IN /\ proc[w].pc = "decide"
     /\ \A f \in FilesOf(a) : file[f] # None
     /\ IF \E f \in FilesOf(a) : file[f] = 0
        THEN /\ proc' = [proc EXCEPT ![w] = Down]
             /\ loaded' = Forgotten(w)
        ELSE /\ loaded' = [loaded EXCEPT ![a] = read]
             /\ proc' = Proceed(w)
     /\ UNCHANGED <<file, generated>> /\ Kept

MutGenerateAlways(w) ==
  /\ proc[w].pc = "decide"
  /\ generated < MaxGenerated
  /\ generated' = generated + 1
  /\ loaded' = [loaded EXCEPT ![At(w)] =
       [key |-> generated + 1, cert |-> IF HasCert(At(w)) THEN generated + 1 ELSE None]]
  /\ Go(w, "cut key")
  /\ UNCHANGED file /\ Kept

MutGenerateKeepsKeyFile(w) ==
  /\ proc[w].pc = "decide"
  /\ \E f \in FilesOf(At(w)) : file[f] = None
  /\ generated < MaxGenerated
  /\ generated' = generated + 1
  /\ loaded' = [loaded EXCEPT ![At(w)] =
       [key |-> generated + 1, cert |-> IF HasCert(At(w)) THEN generated + 1 ELSE None]]
  /\ Go(w, IF file[<<At(w), "key">>] = None THEN "cut key" ELSE "cut cert")
  /\ UNCHANGED file /\ Kept

\* Else a key is generated, whichever file is missing.
Generate(w) ==
  /\ proc[w].pc = "decide"
  /\ \E f \in FilesOf(At(w)) : file[f] = None
  /\ generated < MaxGenerated
  /\ generated' = generated + 1
  /\ loaded' = [loaded EXCEPT ![At(w)] =
       [key |-> generated + 1, cert |-> IF HasCert(At(w)) THEN generated + 1 ELSE None]]
  /\ Go(w, "cut key")
  /\ UNCHANGED file /\ Kept

\* std::fs::write of the key: first an empty file ...
CutKey(w) ==
  /\ proc[w].pc = "cut key"
  /\ file' = [file EXCEPT ![<<At(w), "key">>] = 0]
  /\ Go(w, "write key")
  /\ UNCHANGED <<loaded, generated>> /\ Kept

\* ... then its content.
WriteKey(w) ==
  /\ proc[w].pc = "write key"
  /\ file' = [file EXCEPT ![<<At(w), "key">>] = loaded[At(w)].key]
  /\ proc' = IF HasCert(At(w)) THEN [proc EXCEPT ![w].pc = "cut cert"] ELSE Proceed(w)
  /\ UNCHANGED <<loaded, generated>> /\ Kept

CutCert(w) ==
  /\ proc[w].pc = "cut cert"
  /\ file' = [file EXCEPT ![<<At(w), "cert">>] = 0]
  /\ Go(w, "write cert")
  /\ UNCHANGED <<loaded, generated>> /\ Kept

WriteCert(w) ==
  /\ proc[w].pc = "write cert"
  /\ file' = [file EXCEPT ![<<At(w), "cert">>] = loaded[At(w)].cert]
  /\ proc' = Proceed(w)
  /\ UNCHANGED <<loaded, generated>> /\ Kept

\* A signal or a crash of the process, also for an error of the migrations; what was
\* written stays.  A power cut is not modelled: the files are not synced.
Stop(w) ==
  /\ proc[w].pc # "down"
  /\ stops < MaxStops
  /\ stops' = stops + 1
  /\ proc' = [proc EXCEPT ![w] = Down]
  /\ loaded' = Forgotten(w)
  /\ UNCHANGED <<file, generated, lost, offer, suit, signed, pinned>>

\* A file goes missing: outside the program.
Lose(f) ==
  /\ Cardinality(lost) < MaxLosses
  /\ f \in Losable \ lost /\ file[f] # None
  /\ lost' = lost \cup {f}
  /\ file' = [file EXCEPT ![f] = None]
  /\ UNCHANGED <<loaded, proc, generated, stops, offer, suit, signed, pinned>>

-----------------------------------------------------------------------------
Serves(w) == proc[w].pc = "serve"
Memory == UNCHANGED <<file, loaded, proc, generated, stops, lost>>

\* create_envelope, channel_target_l1: what Tower 2 signs.
SignManifest ==
  /\ Serves("hub")
  /\ signed' = signed \cup {<<"sw-authority", loaded["sw-authority"].key>>}
  /\ UNCHANGED <<offer, suit, pinned>> /\ Memory

\* enroll_device: a device's leaf.
SignLeaf ==
  /\ Serves("ca")
  /\ signed' = signed \cup {<<"identity", loaded["identity"].key>>}
  /\ UNCHANGED <<offer, suit, pinned>> /\ Memory

\* mint_delegate_cert: the delegate's leaf, and the root to pin with it.
MintDelegate ==
  /\ Serves("ca")
  /\ signed' = signed \cup {<<"delegation", loaded["delegation"].key>>}
  /\ pinned' = pinned \cup {<<"delegation", loaded["delegation"].cert>>}
  /\ UNCHANGED <<offer, suit>> /\ Memory

\* ca_cert, trust_bundle: the roots to pin.
TrustBundle ==
  /\ Serves("ca")
  /\ pinned' = pinned \cup {<<a, loaded[a].cert>> : a \in {"identity", "delegation"}}
  /\ UNCHANGED <<offer, suit, signed>> /\ Memory

\* `ca mint-keystore`: the command reads Tower 2's key first ...
ReadSigner ==
  /\ Serves("hub")
  /\ offer' = loaded["sw-authority"].key
  /\ UNCHANGED <<suit, signed, pinned>> /\ Memory

\* ... and then has Tower 1 mint with it: the CA's key and the delegation root ride along.
MintKeystore ==
  /\ Serves("ca") /\ offer # None
  /\ suit' = {<<"sw-authority", offer>>, <<"key-authority", loaded["key-authority"].key>>,
              <<"delegation", loaded["delegation"].cert>>}
  /\ offer' = None
  /\ UNCHANGED <<signed, pinned>> /\ Memory

\* `rig install-keystore`, flash_keystore: the file is staged on the rig, which completes
\* it; Tower 2 must answer with its key, but the rig takes the anchors of the file.
InstallKeystore ==
  /\ suit # {} /\ Serves("hub")
  /\ pinned' = pinned \cup suit
  /\ UNCHANGED <<offer, suit, signed>> /\ Memory

Step(w) ==
  \/ Connect(w) \/ Retry(w) \/ Load(w) \/ Generate(w)
  \/ CutKey(w) \/ WriteKey(w) \/ CutCert(w) \/ WriteCert(w)

Next ==
  \/ \E w \in Towers : Start(w) \/ Step(w) \/ Stop(w)
  \/ \E f \in Files : Lose(f)
  \/ SignManifest \/ SignLeaf \/ MintDelegate \/ TrustBundle
  \/ ReadSigner \/ MintKeystore \/ InstallKeystore

Spec == Init /\ [][Next]_vars

\* A started process runs.
FairSpec == Spec /\ \A w \in Towers : WF_vars(Step(w))

-----------------------------------------------------------------------------
Writes == {"cut key", "write key", "cut cert", "write cert"}
Key == 1 .. MaxGenerated

\* Type invariant; a serving tower has all its keys.
TypeOK ==
  /\ file \in [Files -> {None, 0} \cup Key]
  /\ loaded \in [Authorities -> [key : {None} \cup Key, cert : {None} \cup Key]]
  /\ proc \in [Towers -> [pc : {"down", "connect", "decide", "serve"} \cup Writes,
                          attempt : 0 .. Attempts, n : 0 .. 3]]
  /\ generated \in 0 .. MaxGenerated /\ stops \in 0 .. MaxStops
  /\ lost \subseteq Files \cap Losable
  /\ offer \in {None} \cup Key
  /\ signed \cup pinned \cup suit \subseteq Authorities \X Key
  /\ \A w \in Towers : Serves(w) => \A i \in DOMAIN OrderOf(w) : loaded[OrderOf(w)[i]].key \in Key

\* Everything an authority has signed verifies against every anchor for it that an
\* installed keystore or a bundle carries, whatever stops and restarts lie between and
\* whatever other authorities lost: while its own files stay, the tower loads what it
\* generated on first run, or nothing.
ChainsVerify ==
  \A s \in signed, p \in pinned :
    s[1] = p[1] /\ FilesOf(s[1]) \cap lost = {} => s[2] = p[2]

\* A serving CA's certificate certifies its key, even when certificate files go
\* missing and the tower stops while it replaces them: save writes the key first.
RootsCertify ==
  Serves("ca") => \A i \in DOMAIN OrderOf("ca") :
    loaded[OrderOf("ca")[i]].cert = loaded[OrderOf("ca")[i]].key

\* Startup ends, however often the database fails to answer: the tower serves or
\* exits, and a file cut short by an earlier stop does not keep it in a loop.
StartupEnds ==
  \A w \in Towers : (proc[w].pc = "connect") ~> (proc[w].pc \in {"serve", "down"})

-----------------------------------------------------------------------------
(* The inductive invariant                                                 *)

\* A tower's place in main is a place in its list.
PlacesSound ==
  \A w \in Towers :
    /\ proc[w].pc = "down" => proc[w] = Down
    /\ proc[w].pc = "connect" => proc[w].n = 1
    /\ proc[w].pc # "down" => proc[w].n \in DOMAIN OrderOf(w)
    /\ proc[w].pc = "serve" => proc[w].n = Len(OrderOf(w))

\* How far its tower is with an authority: it is in memory, or being loaded, or neither.
Owner(a) == IF HasCert(a) THEN "ca" ELSE "hub"
Rank(a) == IF a = "delegation" THEN 3 ELSE IF a = "identity" THEN 2 ELSE 1
Stage(a) ==
  LET p == proc[Owner(a)]
  IN IF p.pc = "serve" \/ Rank(a) < p.n THEN "memory"
     ELSE IF Rank(a) = p.n THEN p.pc ELSE "down"

Complete(a) == \A f \in FilesOf(a) : file[f] = file[<<a, "key">>] /\ file[f] \in Key

\* The key in memory is a key, and its certificate certifies it.
MemorySound(a) ==
  Stage(a) \in {"memory"} \cup Writes =>
    /\ loaded[a].key \in Key
    /\ HasCert(a) => loaded[a].cert \in Key
    /\ Stage(a) \in {"cut cert", "write cert"} => HasCert(a)
    /\ HasCert(a) /\ (Stage(a) # "memory" \/ <<a, "key">> \notin lost) => loaded[a].cert = loaded[a].key

\* Until the key file is lost: the certificate file is only there beside the key file
\* that it certifies, and an interrupted save is seen by the next start.
FilesSound(a) ==
  <<a, "key">> \notin lost =>
    /\ HasCert(a) /\ file[<<a, "cert">>] # None =>
         /\ file[<<a, "key">>] \in Key
         /\ file[<<a, "cert">>] \in {0, file[<<a, "key">>]}
    /\ Stage(a) \in {"cut key", "write key", "cut cert"} /\ HasCert(a) => file[<<a, "cert">>] = None
    /\ Stage(a) = "cut key" /\ ~HasCert(a) => file[<<a, "key">>] = None
    /\ Stage(a) = "write key" => file[<<a, "key">>] = 0
    /\ Stage(a) \in {"cut cert", "write cert"} => file[<<a, "key">>] = loaded[a].key
    /\ Stage(a) = "write cert" => file[<<a, "cert">>] \in {None, 0}
    /\ Stage(a) = "memory" /\ FilesOf(a) \cap lost = {} =>
         Complete(a) /\ loaded[a].key = file[<<a, "key">>]

\* What was signed or handed out is the key on file, which is there to stay.
Made == signed \cup pinned \cup suit \cup (IF offer = None THEN {} ELSE {<<"sw-authority", offer>>})
MadeSound ==
  \A m \in Made : FilesOf(m[1]) \cap lost = {} => Complete(m[1]) /\ file[<<m[1], "key">>] = m[2]

Inv ==
  /\ TypeOK /\ PlacesSound /\ MadeSound
  /\ \A a \in Authorities : MemorySound(a) /\ FilesSound(a)
=============================================================================
