-------------------------- MODULE TowerKeys_proofs --------------------------
(***************************************************************************)
(* Proofs about TowerKeys, for any number of stops, generated keys and     *)
(* lost files.                                                             *)
(***************************************************************************)
EXTENDS TowerKeys, TLAPS

\* Time limits of the provers: the time they take varies with the length of the run.
USE SMTT(40), ZenonT(40)

-----------------------------------------------------------------------------
(* The towers and their lists                                              *)

\* The lists of main as Owner and Rank see them.
LEMMA Lists ==
  /\ \A a \in Authorities : /\ Owner(a) \in Towers /\ Rank(a) \in 1 .. Len(OrderOf(Owner(a)))
                            /\ OrderOf(Owner(a))[Rank(a)] = a
  /\ \A w \in Towers : Len(OrderOf(w)) \in 1 .. 3 /\ DOMAIN OrderOf(w) = 1 .. Len(OrderOf(w))
  /\ \A w \in Towers, i \in 1 .. 3 : i <= Len(OrderOf(w)) =>
       OrderOf(w)[i] \in Authorities /\ Owner(OrderOf(w)[i]) = w /\ Rank(OrderOf(w)[i]) = i
<1>1. /\ OrderOf("ca") = <<"key-authority", "identity", "delegation">>
      /\ OrderOf("hub") = <<"sw-authority">>
  BY DEF OrderOf
<1>2. /\ Len(OrderOf("ca")) = 3 /\ DOMAIN OrderOf("ca") = 1 .. 3
      /\ OrderOf("ca")[1] = "key-authority" /\ OrderOf("ca")[2] = "identity"
      /\ OrderOf("ca")[3] = "delegation"
  BY <1>1
<1>3. Len(OrderOf("hub")) = 1 /\ DOMAIN OrderOf("hub") = 1 .. 1 /\ OrderOf("hub")[1] = "sw-authority"
  BY <1>1
<1>4. /\ Owner("key-authority") = "ca" /\ Owner("identity") = "ca" /\ Owner("delegation") = "ca"
      /\ Owner("sw-authority") = "hub"
  BY DEF Owner, HasCert
<1>5. /\ Rank("key-authority") = 1 /\ Rank("identity") = 2 /\ Rank("delegation") = 3
      /\ Rank("sw-authority") = 1
  BY DEF Rank
<1>6. \A a \in Authorities : /\ Owner(a) \in Towers /\ Rank(a) \in 1 .. Len(OrderOf(Owner(a)))
                             /\ OrderOf(Owner(a))[Rank(a)] = a
  BY <1>2, <1>3, <1>4, <1>5 DEF Authorities, Towers
<1>7. \A w \in Towers : Len(OrderOf(w)) \in 1 .. 3 /\ DOMAIN OrderOf(w) = 1 .. Len(OrderOf(w))
  BY <1>2, <1>3 DEF Towers
<1>8. ASSUME NEW w \in Towers, NEW i \in 1 .. 3, i <= Len(OrderOf(w))
      PROVE  OrderOf(w)[i] \in Authorities /\ Owner(OrderOf(w)[i]) = w /\ Rank(OrderOf(w)[i]) = i
  <2>1. CASE w = "hub"
    BY <1>3, <1>4, <1>5, <1>8, <2>1 DEF Authorities
  <2>2. CASE w = "ca"
    <3>1. i \in {1, 2, 3}
      BY <1>8
    <3> QED
      BY <1>2, <1>4, <1>5, <3>1, <2>2 DEF Authorities
  <2> QED
    BY <2>1, <2>2 DEF Towers
<1> QED
  BY <1>6, <1>7, <1>8

LEMMA NotKeys == None \notin Key /\ 0 \notin Key
  BY TowerAssumption DEF Key

\* The files of an authority are its own.
LEMMA OwnFiles ==
  ASSUME NEW a \in Authorities
  PROVE  /\ <<a, "key">> \in Files /\ <<a, "key">> \in FilesOf(a)
         /\ HasCert(a) => <<a, "cert">> \in Files /\ <<a, "cert">> \in FilesOf(a)
         /\ \A f \in FilesOf(a) : f \in Files /\ f[1] = a
         /\ \A f \in FilesOf(a) : f = <<a, "key">> \/ (HasCert(a) /\ f = <<a, "cert">>)
  BY DEF Files, FilesOf

\* The authority that a running tower is at.
LEMMA AtSound ==
  ASSUME Inv, NEW w \in Towers, proc[w].pc # "down"
  PROVE  At(w) \in Authorities /\ Owner(At(w)) = w /\ Rank(At(w)) = proc[w].n
<1>1. proc[w].n \in DOMAIN OrderOf(w)
  BY DEF Inv, PlacesSound
<1>2. proc[w].n \in 1 .. 3 /\ proc[w].n <= Len(OrderOf(w))
  BY <1>1, Lists
<1> QED
  BY <1>2, Lists DEF At

LEMMA InitInv == Init => Inv
<1> USE TowerAssumption
<1> SUFFICES ASSUME Init PROVE Inv
  OBVIOUS
<1>1. Down \in [pc : {"down", "connect", "decide", "serve"} \cup Writes,
                attempt : 0 .. Attempts, n : 0 .. 3]
  BY DEF Down
<1>2. TypeOK
  <2>1. \A w \in Towers : ~Serves(w)
    BY DEF Init, Serves, Down
  <2> QED
    BY <1>1, <2>1 DEF Init, TypeOK, Nothing
<1>3. PlacesSound
  BY DEF Init, PlacesSound, Down
<1>4. MadeSound
  BY DEF Init, MadeSound, Made
<1>5. ASSUME NEW a \in Authorities PROVE Stage(a) = "down"
  <2>1. proc[Owner(a)] = Down /\ Rank(a) >= 1
    BY Lists DEF Init
  <2>2. Rank(a) \in Nat
    BY DEF Rank
  <2> QED
    BY <2>1, <2>2 DEF Stage, Down
<1>6. \A a \in Authorities : HasCert(a) => file[<<a, "cert">>] = None
  BY ZenonT(40), OwnFiles DEF Init
<1> QED
  BY ZenonT(40), <1>2, <1>3, <1>4, <1>5, <1>6 DEF Inv, MemorySound, FilesSound, Writes

-----------------------------------------------------------------------------
(* What a step of a tower does to the stages of its authorities            *)

Proc == [pc : {"down", "connect", "decide", "serve"} \cup Writes, attempt : 0 .. Attempts, n : 0 .. 3]
Unloaded == {"down", "connect", "decide"}

\* A tower that stays at its authority.
LEMMA Stays ==
  ASSUME Inv, NEW w \in Towers, proc[w].pc \notin {"down", "serve"}, NEW p \in Proc,
         p.pc # "serve", p.n = proc[w].n, proc' = [proc EXCEPT ![w] = p],
         NEW a \in Authorities, a = At(w)
  PROVE  Stage(a)' = p.pc /\ \A b \in Authorities \ {a} : Stage(b)' = Stage(b)
<1>1. Owner(a) = w /\ Rank(a) = proc[w].n
  BY AtSound
<1>2. proc'[w] = p /\ \A v \in Towers \ {w} : proc'[v] = proc[v]
  BY DEF Inv, TypeOK
<1>3. \A b \in Authorities \ {a} : Owner(b) = w => Rank(b) # proc[w].n
  BY <1>1, Lists
<1>4. \A b \in Authorities : Rank(b) \in Nat /\ Owner(b) \in Towers
  BY Lists DEF Rank
<1>5. Stage(a)' = p.pc
  BY <1>1, <1>2, <1>4 DEF Stage, Proc
<1>6. ASSUME NEW b \in Authorities \ {a} PROVE Stage(b)' = Stage(b)
  BY <1>2, <1>3, <1>4 DEF Stage, Proc
<1> QED
  BY <1>5, <1>6

\* A tower that has its authority in memory.
LEMMA Proceeds ==
  ASSUME Inv, NEW w \in Towers, proc[w].pc \notin {"down", "serve"}, proc' = Proceed(w),
         NEW a \in Authorities, a = At(w)
  PROVE  /\ proc' \in [Towers -> Proc] /\ PlacesSound'
         /\ Stage(a)' = "memory"
         /\ \A b \in Authorities \ {a} : Stage(b)' = Stage(b) \/ Stage(b)' \in Unloaded
<1> DEFINE p == IF proc[w].n < Len(OrderOf(w))
                THEN [proc[w] EXCEPT !.pc = "decide", !.n = proc[w].n + 1]
                ELSE [proc[w] EXCEPT !.pc = "serve"]
<1>1. Owner(a) = w /\ Rank(a) = proc[w].n
  BY AtSound
<1>2. proc[w] \in Proc /\ proc[w].n \in 1 .. Len(OrderOf(w)) /\ Len(OrderOf(w)) \in 1 .. 3
  BY Lists DEF Inv, TypeOK, Proc, PlacesSound
<1>3. \A b \in Authorities \ {a} : Owner(b) = w => Rank(b) # proc[w].n
  BY <1>1, Lists
<1>4. \A b \in Authorities : /\ Rank(b) \in Nat /\ Owner(b) \in Towers
                             /\ Rank(b) <= Len(OrderOf(Owner(b)))
  BY Lists DEF Rank
<1>5. proc' = [proc EXCEPT ![w] = p]
  BY ZenonT(40) DEF Proceed, Inv, TypeOK
<1>6. /\ p \in Proc /\ p.n \in 1 .. Len(OrderOf(w))
      /\ \/ p.pc = "decide" /\ p.n = proc[w].n + 1
         \/ p.pc = "serve" /\ p.n = proc[w].n /\ p.n = Len(OrderOf(w))
  <2>1. CASE proc[w].n < Len(OrderOf(w))
    <3>1. proc[w].n + 1 \in 1 .. Len(OrderOf(w)) /\ proc[w].n + 1 \in 0 .. 3
      <4>1. \A l \in 1 .. 3 : \A n \in 1 .. l : n < l => n + 1 \in 1 .. l /\ n + 1 \in 0 .. 3
        OBVIOUS
      <4> QED
        BY ZenonT(40), <1>2, <2>1, <4>1
    <3>2. p = [proc[w] EXCEPT !.pc = "decide", !.n = proc[w].n + 1]
      BY <2>1
    <3> DEFINE m == proc[w].n + 1
    <3> HIDE DEF p, m
    <3>3. p \in Proc /\ p.pc = "decide" /\ p.n = m
      BY ZenonT(40), <1>2, <3>1, <3>2 DEF Proc, m
    <3> QED
      BY <3>1, <3>3 DEF m
  <2>2. CASE ~(proc[w].n < Len(OrderOf(w)))
    <3>1. proc[w].n = Len(OrderOf(w))
      BY <1>2, <2>2
    <3>2. p = [proc[w] EXCEPT !.pc = "serve"]
      BY <2>2
    <3> HIDE DEF p
    <3> QED
      BY <1>2, <3>1, <3>2 DEF Proc
  <2> QED
    BY <2>1, <2>2
<1> HIDE DEF p
<1>7. proc' \in [Towers -> Proc] /\ proc'[w] = p /\ \A v \in Towers \ {w} : proc'[v] = proc[v]
  BY <1>5, <1>6 DEF Inv, TypeOK, Proc
<1>8. PlacesSound'
  BY <1>6, <1>7, Lists DEF Inv, PlacesSound
<1>9. Stage(a)' = "memory"
  <2>1. p.pc = "serve" \/ Rank(a) < p.n
    BY <1>1, <1>2, <1>6 DEF Proc
  <2> QED
    BY <1>1, <1>7, <2>1 DEF Stage
<1>10. ASSUME NEW b \in Authorities \ {a} PROVE Stage(b)' = Stage(b) \/ Stage(b)' \in Unloaded
  <2>1. CASE Owner(b) # w
    BY <1>4, <1>7, <2>1 DEF Stage
  <2>2. CASE Owner(b) = w /\ Rank(b) < proc[w].n
    BY <1>2, <1>4, <1>6, <1>7, <2>2 DEF Stage, Proc
  <2>3. CASE Owner(b) = w /\ Rank(b) > proc[w].n
    <3>1. p.pc = "decide" /\ p.n = proc[w].n + 1
      BY <1>4, <1>6, <2>3
    <3> QED
      BY <1>2, <1>4, <1>7, <2>3, <3>1 DEF Stage, Proc, Unloaded
  <2> QED
    BY <1>2, <1>3, <1>4, <2>1, <2>2, <2>3
<1> QED
  BY <1>7, <1>8, <1>9, <1>10

\* A tower that stops: its authorities are out of memory, the other's stay.
LEMMA GoesDown ==
  ASSUME Inv, NEW w \in Towers, proc' = [proc EXCEPT ![w] = Down], loaded' = Forgotten(w)
  PROVE  /\ proc' \in [Towers -> Proc] /\ PlacesSound'
         /\ loaded' \in [Authorities -> [key : {None} \cup Key, cert : {None} \cup Key]]
         /\ \A b \in Authorities : \/ Stage(b)' \in Unloaded
                                   \/ Stage(b)' = Stage(b) /\ loaded'[b] = loaded[b]
<1> USE TowerAssumption
<1>1. Down \in Proc
  BY DEF Down, Proc
<1>2. proc' \in [Towers -> Proc] /\ proc'[w] = Down /\ \A v \in Towers \ {w} : proc'[v] = proc[v]
  BY <1>1 DEF Inv, TypeOK, Proc
<1>3. PlacesSound'
  BY <1>2 DEF Inv, PlacesSound, Down
<1>4. loaded' \in [Authorities -> [key : {None} \cup Key, cert : {None} \cup Key]]
  BY DEF Forgotten, Nothing, Inv, TypeOK
<1>5. ASSUME NEW b \in Authorities, Owner(b) = w PROVE Stage(b)' = "down"
  <2>1. Rank(b) \in 1 .. 3
    BY DEF Rank
  <2> QED
    BY <1>2, <1>5, <2>1 DEF Stage, Down
<1>6. ASSUME NEW b \in Authorities, Owner(b) # w
      PROVE  Stage(b)' = Stage(b) /\ loaded'[b] = loaded[b]
  <2>1. Owner(b) \in Towers
    BY Lists
  <2>2. \A i \in DOMAIN OrderOf(w) : OrderOf(w)[i] # b
    <3>1. \A i \in DOMAIN OrderOf(w) : i \in 1 .. 3 /\ i <= Len(OrderOf(w))
      BY Lists
    <3> QED
      BY <1>6, <3>1, Lists
  <2> QED
    BY <1>2, <1>6, <2>1, <2>2 DEF Stage, Forgotten
<1> QED
  BY <1>2, <1>3, <1>4, <1>5, <1>6 DEF Unloaded

-----------------------------------------------------------------------------
(* What an authority keeps                                                 *)

\* An authority whose files stay, and whose stage stays or that is out of memory.
LEMMA AuthorityKept ==
  ASSUME Inv, NEW a \in Authorities, lost' = lost,
         \A f \in FilesOf(a) : file'[f] = file[f],
         \/ Stage(a)' \in Unloaded
         \/ Stage(a)' = Stage(a) /\ loaded'[a] = loaded[a]
  PROVE  MemorySound(a)' /\ FilesSound(a)'
<1>1. /\ file'[<<a, "key">>] = file[<<a, "key">>]
      /\ HasCert(a) => file'[<<a, "cert">>] = file[<<a, "cert">>]
  BY OwnFiles
<1>2. MemorySound(a) /\ FilesSound(a)
  BY DEF Inv
<1>3. CASE Stage(a)' \in Unloaded
  BY ZenonT(40), <1>1, <1>2, <1>3 DEF MemorySound, FilesSound, Unloaded, Writes
<1>4. CASE Stage(a)' = Stage(a) /\ loaded'[a] = loaded[a]
  <2>1. Complete(a) => Complete(a)'
    BY <1>1 DEF Complete
  <2>2. MemorySound(a)'
    BY ZenonT(40), <1>2, <1>4 DEF MemorySound
  <2>3. Stage(a) = "write cert" => HasCert(a)
    BY ZenonT(40), <1>2 DEF MemorySound, Writes
  <2>4. FilesSound(a)'
    BY ZenonT(40), <1>1, <1>2, <1>4, <2>1, <2>3 DEF FilesSound
  <2> QED
    BY <2>2, <2>4
<1> QED
  BY <1>3, <1>4

\* A tower serves with what it has in memory.
LEMMA ServesLoaded ==
  ASSUME \A a \in Authorities : MemorySound(a)'
  PROVE  \A w \in Towers : Serves(w)' =>
           \A i \in DOMAIN OrderOf(w) : loaded'[OrderOf(w)[i]].key \in Key
<1> SUFFICES ASSUME NEW w \in Towers, Serves(w)', NEW i \in DOMAIN OrderOf(w)
             PROVE  loaded'[OrderOf(w)[i]].key \in Key
  OBVIOUS
<1>1. i \in 1 .. 3 /\ i <= Len(OrderOf(w))
  BY Lists
<1>2. OrderOf(w)[i] \in Authorities /\ Owner(OrderOf(w)[i]) = w
  BY <1>1, Lists
<1>3. Stage(OrderOf(w)[i])' = "memory"
  BY <1>2 DEF Stage, Serves
<1> QED
  BY ZenonT(40), <1>2, <1>3 DEF MemorySound

\* What was made stays sound while complete authorities keep their files.
LEMMA MadeKept ==
  ASSUME Inv, lost' = lost, Made' \subseteq Made,
         \A a \in Authorities : FilesOf(a) \cap lost = {} /\ Complete(a) =>
           \A f \in FilesOf(a) : file'[f] = file[f]
  PROVE  MadeSound'
<1>1. ASSUME NEW m \in Made PROVE m[1] \in Authorities
  BY <1>1 DEF Made, Inv, TypeOK, Authorities
<1> SUFFICES ASSUME NEW m \in Made', FilesOf(m[1]) \cap lost = {}
             PROVE  Complete(m[1])' /\ file'[<<m[1], "key">>] = m[2]
  BY DEF MadeSound
<1>2. m \in Made /\ m[1] \in Authorities
  BY <1>1
<1>3. Complete(m[1]) /\ file[<<m[1], "key">>] = m[2]
  BY <1>2 DEF Inv, MadeSound
<1>4. \A f \in FilesOf(m[1]) : file'[f] = file[f]
  BY <1>2, <1>3
<1> QED
  BY ZenonT(40), <1>2, <1>3, <1>4, OwnFiles DEF Complete

\* A startup step of a tower, at authority a.
LEMMA StepInv ==
  ASSUME Inv, NEW a \in Authorities,
         UNCHANGED <<lost, offer, suit, signed, pinned>>, stops' \in 0 .. MaxStops,
         file' \in [Files -> {None, 0} \cup Key],
         loaded' \in [Authorities -> [key : {None} \cup Key, cert : {None} \cup Key]],
         proc' \in [Towers -> Proc], generated' \in 0 .. MaxGenerated, PlacesSound',
         \A b \in Authorities \ {a} : \/ Stage(b)' \in Unloaded
                                      \/ Stage(b)' = Stage(b) /\ loaded'[b] = loaded[b],
         \A f \in Files \ FilesOf(a) : file'[f] = file[f],
         FilesOf(a) \cap lost = {} /\ Complete(a) => \A f \in FilesOf(a) : file'[f] = file[f],
         MemorySound(a)', FilesSound(a)'
  PROVE  Inv'
<1>1. lost' = lost /\ Made' = Made
  BY DEF Made
<1>2. \A b \in Authorities \ {a} : \A f \in FilesOf(b) : file'[f] = file[f]
  <2> SUFFICES ASSUME NEW b \in Authorities \ {a}, NEW f \in FilesOf(b) PROVE f \in Files \ FilesOf(a)
    OBVIOUS
  <2>1. f \in Files /\ f[1] = b
    BY ZenonT(40), OwnFiles
  <2>2. \A g \in FilesOf(a) : g[1] = a
    BY ZenonT(40), OwnFiles
  <2> QED
    BY <2>1, <2>2
<1>3. \A b \in Authorities : MemorySound(b)' /\ FilesSound(b)'
  BY <1>1, <1>2, AuthorityKept
<1>4. MadeSound'
  BY <1>1, <1>2, MadeKept
<1>5. TypeOK'
  <2>1. \A w \in Towers : Serves(w)' =>
          \A i \in DOMAIN OrderOf(w) : loaded'[OrderOf(w)[i]].key \in Key
    BY <1>3, ServesLoaded
  <2> QED
    BY <1>1, <2>1 DEF Inv, TypeOK, Proc, OrderOf, Key
<1> QED
  BY <1>3, <1>4, <1>5 DEF Inv

\* A step that writes no file.
LEMMA QuietInv ==
  ASSUME Inv, UNCHANGED <<file, generated, lost, offer, suit, signed, pinned>>,
         stops' \in 0 .. MaxStops,
         loaded' \in [Authorities -> [key : {None} \cup Key, cert : {None} \cup Key]],
         proc' \in [Towers -> Proc], PlacesSound',
         \A b \in Authorities : \/ Stage(b)' \in Unloaded
                                \/ Stage(b)' = Stage(b) /\ loaded'[b] = loaded[b]
  PROVE  Inv'
<1>1. PICK a \in Authorities : TRUE
  BY DEF Authorities
<1>2. MemorySound(a)' /\ FilesSound(a)'
  BY AuthorityKept
<1>3. file' \in [Files -> {None, 0} \cup Key] /\ generated' \in 0 .. MaxGenerated
  BY DEF Inv, TypeOK
<1> QED
  BY <1>2, <1>3, StepInv

-----------------------------------------------------------------------------
(* One lemma per action                                                    *)

LEMMA StartInv ==
  ASSUME Inv, NEW w \in Towers, Start(w)
  PROVE  Inv'
<1> USE TowerAssumption
<1> DEFINE p == [pc |-> "connect", attempt |-> 1, n |-> 1]
<1>1. p \in Proc
  BY DEF Proc
<1>2. proc' \in [Towers -> Proc] /\ proc'[w] = p /\ \A v \in Towers \ {w} : proc'[v] = proc[v]
  BY <1>1 DEF Start, Inv, TypeOK, Proc
<1>3. 1 \in DOMAIN OrderOf(w)
  BY Lists
<1>4. PlacesSound'
  BY <1>2, <1>3 DEF Inv, PlacesSound
<1>5. ASSUME NEW b \in Authorities PROVE Stage(b)' \in Unloaded \/ Stage(b)' = Stage(b)
  <2>1. Owner(b) \in Towers /\ Rank(b) \in 1 .. 3
    BY Lists DEF Rank
  <2> QED
    BY <1>2, <2>1 DEF Stage, Unloaded
<1>6. UNCHANGED <<file, loaded, generated, lost, offer, suit, signed, pinned>> /\ stops' \in 0 .. MaxStops
  BY DEF Start, Kept, Inv, TypeOK
<1>7. loaded' \in [Authorities -> [key : {None} \cup Key, cert : {None} \cup Key]]
  BY <1>6 DEF Inv, TypeOK
<1> HIDE DEF p
<1> QED
  BY <1>2, <1>4, <1>5, <1>6, <1>7, QuietInv

\* A tower that stays at its authority and touches nothing else.
LEMMA WaitInv ==
  ASSUME Inv, NEW w \in Towers, proc[w].pc = "connect", NEW p \in Proc,
         p.pc \in {"connect", "decide"}, p.n = proc[w].n, proc' = [proc EXCEPT ![w] = p],
         UNCHANGED <<file, loaded, generated>>, Kept
  PROVE  Inv'
<1>1. At(w) \in Authorities
  BY AtSound
<1>2. \A b \in Authorities : Stage(b)' \in Unloaded \/ Stage(b)' = Stage(b)
  <2>1. PICK a \in Authorities : a = At(w)
    BY <1>1
  <2>2. Stage(a)' = p.pc /\ \A b \in Authorities \ {a} : Stage(b)' = Stage(b)
    BY ZenonT(40), <2>1, Stays
  <2> QED
    BY <2>2 DEF Unloaded
<1>3. proc' \in [Towers -> Proc] /\ proc'[w] = p /\ \A v \in Towers \ {w} : proc'[v] = proc[v]
  BY DEF Inv, TypeOK, Proc
<1>4. PlacesSound'
  BY <1>3 DEF Inv, PlacesSound
<1>5. UNCHANGED <<lost, offer, suit, signed, pinned>> /\ stops' \in 0 .. MaxStops
  BY DEF Kept, Inv, TypeOK
<1>6. loaded' \in [Authorities -> [key : {None} \cup Key, cert : {None} \cup Key]]
  BY DEF Inv, TypeOK
<1> QED
  BY <1>2, <1>3, <1>4, <1>5, <1>6, QuietInv

LEMMA ConnectInv ==
  ASSUME Inv, NEW w \in Towers, Connect(w)
  PROVE  Inv'
<1> DEFINE p == [proc[w] EXCEPT !.pc = "decide"]
<1>1. proc[w] \in Proc
  BY DEF Inv, TypeOK, Proc
<1>2. p \in Proc /\ p.pc = "decide" /\ p.n = proc[w].n
  BY <1>1 DEF Proc
<1>3. proc' = [proc EXCEPT ![w] = p]
  BY DEF Connect, Go, Inv, TypeOK
<1> HIDE DEF p
<1> QED
  BY ZenonT(40), <1>2, <1>3, WaitInv DEF Connect

LEMMA RetryInv ==
  ASSUME Inv, NEW w \in Towers, Retry(w)
  PROVE  Inv'
<1> USE TowerAssumption
<1>1. proc[w].pc = "connect" /\ proc[w].n = 1 /\ proc[w].attempt \in 0 .. Attempts
  BY DEF Retry, Inv, PlacesSound, TypeOK
<1>2. CASE proc[w].attempt < Attempts
  <2> DEFINE m == proc[w].attempt + 1
             p == [pc |-> "connect", attempt |-> m, n |-> 1]
  <2>1. m \in 0 .. Attempts
    BY <1>1, <1>2
  <2>2. proc' = [proc EXCEPT ![w] = p]
    BY <1>2 DEF Retry
  <2> HIDE DEF m
  <2>3. p \in Proc /\ p.pc = "connect" /\ p.n = proc[w].n
    BY <1>1, <2>1 DEF Proc
  <2> HIDE DEF p
  <2> QED
    BY ZenonT(40), <1>1, <2>2, <2>3, WaitInv DEF Retry
<1>3. CASE ~(proc[w].attempt < Attempts)
  <2>1. proc' = [proc EXCEPT ![w] = Down] /\ loaded' = loaded
    BY <1>3 DEF Retry
  <2>2. Down \in Proc
    BY DEF Down, Proc
  <2>3. proc' \in [Towers -> Proc] /\ proc'[w] = Down /\ \A v \in Towers \ {w} : proc'[v] = proc[v]
    BY <2>1, <2>2 DEF Inv, TypeOK, Proc
  <2>4. PlacesSound'
    BY <2>3 DEF Inv, PlacesSound, Down
  <2>5. ASSUME NEW b \in Authorities PROVE Stage(b)' \in Unloaded \/ Stage(b)' = Stage(b)
    <3>1. Owner(b) \in Towers /\ Rank(b) \in 1 .. 3
      BY Lists DEF Rank
    <3> QED
      BY <2>3, <3>1 DEF Stage, Unloaded, Down
  <2>6. UNCHANGED <<file, generated, lost, offer, suit, signed, pinned>> /\ stops' \in 0 .. MaxStops
    BY DEF Retry, Kept, Inv, TypeOK
  <2>7. loaded' \in [Authorities -> [key : {None} \cup Key, cert : {None} \cup Key]]
    BY <2>1 DEF Inv, TypeOK
  <2> QED
    BY <2>1, <2>3, <2>4, <2>5, <2>6, <2>7, QuietInv
<1> QED
  BY <1>2, <1>3

LEMMA StopInv ==
  ASSUME Inv, NEW w \in Towers, Stop(w)
  PROVE  Inv'
<1>1. UNCHANGED <<file, generated, lost, offer, suit, signed, pinned>> /\ stops' \in 0 .. MaxStops
  BY TowerAssumption DEF Stop, Inv, TypeOK
<1>2. proc' = [proc EXCEPT ![w] = Down] /\ loaded' = Forgotten(w)
  BY DEF Stop
<1> QED
  BY ZenonT(40), <1>1, <1>2, GoesDown, QuietInv

\* load_or_generate_*: what parses is a key and the certificate of that key.
LEMMA LoadInv ==
  ASSUME Inv, NEW w \in Towers, Load(w)
  PROVE  Inv'
<1>1. PICK a \in Authorities : a = At(w) /\ Owner(a) = w /\ Rank(a) = proc[w].n
  BY AtSound DEF Load
<1> DEFINE k == file[<<a, "key">>]
           c == file[<<a, "cert">>]
           read == [key |-> k, cert |-> IF HasCert(a) THEN c ELSE None]
<1>2. UNCHANGED <<file, generated, lost, offer, suit, signed, pinned>> /\ stops' \in 0 .. MaxStops
  BY DEF Load, Kept, Inv, TypeOK
<1>3. CASE \E f \in FilesOf(a) : file[f] = 0
  <2>1. proc' = [proc EXCEPT ![w] = Down] /\ loaded' = Forgotten(w)
    BY ZenonT(40), <1>1, <1>3 DEF Load
  <2> QED
    BY ZenonT(40), <1>2, <2>1, GoesDown, QuietInv
<1>4. CASE ~\E f \in FilesOf(a) : file[f] = 0
  <2>1. loaded' = [loaded EXCEPT ![a] = read] /\ proc' = Proceed(w)
    BY <1>1, <1>4 DEF Load
  <2>2. \A f \in FilesOf(a) : file[f] \in Key
    <3>1. \A f \in FilesOf(a) : file[f] \notin {None, 0}
      BY <1>1, <1>4 DEF Load
    <3>2. \A f \in FilesOf(a) : f \in Files
      BY ZenonT(40), OwnFiles
    <3> QED
      BY <3>1, <3>2 DEF Inv, TypeOK
  <2>3. k \in Key /\ (HasCert(a) => c \in Key)
    BY <2>2, OwnFiles
  <2>4. <<a, "key">> \notin lost /\ HasCert(a) => c = k
    <3>1. FilesSound(a)
      BY DEF Inv
    <3>2. ~HasCert(a) \/ c \notin {None, 0}
      BY <2>3, TowerAssumption DEF Key
    <3> QED
      BY ZenonT(40), <3>1, <3>2 DEF FilesSound
  <2>5. FilesOf(a) \cap lost = {} => Complete(a)'
    <3>1. FilesOf(a) \cap lost = {} => <<a, "key">> \notin lost
      BY ZenonT(40), OwnFiles
    <3>2. \A f \in FilesOf(a) : f = <<a, "key">> \/ (HasCert(a) /\ f = <<a, "cert">>)
      BY ZenonT(40), OwnFiles
    <3> QED
      BY <1>2, <2>2, <2>4, <3>1, <3>2 DEF Complete
  <2>6. /\ read \in [key : {None} \cup Key, cert : {None} \cup Key]
        /\ read.key = k /\ (HasCert(a) => read.cert = c)
    BY <2>3
  <2> HIDE DEF read
  <2>7. /\ loaded' \in [Authorities -> [key : {None} \cup Key, cert : {None} \cup Key]]
        /\ loaded'[a] = read /\ \A b \in Authorities \ {a} : loaded'[b] = loaded[b]
    BY <2>1, <2>6 DEF Inv, TypeOK
  <2>8. /\ proc' \in [Towers -> Proc] /\ PlacesSound' /\ Stage(a)' = "memory"
        /\ \A b \in Authorities \ {a} : Stage(b)' = Stage(b) \/ Stage(b)' \in Unloaded
    BY ZenonT(40), <1>1, <2>1, Proceeds DEF Load
  <2>9. MemorySound(a)'
    BY <1>2, <2>3, <2>4, <2>6, <2>7, <2>8 DEF MemorySound
  <2>10. FilesSound(a)'
    <3>1. FilesSound(a)
      BY DEF Inv
    <3> QED
      BY ZenonT(40), <1>2, <2>5, <2>6, <2>7, <2>8, <3>1 DEF FilesSound
  <2>11. file' \in [Files -> {None, 0} \cup Key] /\ generated' \in 0 .. MaxGenerated
    BY <1>2 DEF Inv, TypeOK
  <2> QED
    BY ZenonT(40), <1>2, <2>7, <2>8, <2>9, <2>10, <2>11, StepInv
<1> QED
  BY <1>3, <1>4

\* Nothing is generated over files that are all there.
LEMMA GenerateInv ==
  ASSUME Inv, NEW w \in Towers, Generate(w)
  PROVE  Inv'
<1> USE TowerAssumption
<1>1. PICK a \in Authorities : a = At(w) /\ Owner(a) = w /\ Rank(a) = proc[w].n
  BY ZenonT(40), AtSound DEF Generate
<1> DEFINE g == generated + 1
           fresh == [key |-> g, cert |-> IF HasCert(a) THEN g ELSE None]
           p == [proc[w] EXCEPT !.pc = "cut key"]
<1>2. /\ UNCHANGED <<file, lost, offer, suit, signed, pinned>> /\ stops' \in 0 .. MaxStops
      /\ loaded' = [loaded EXCEPT ![a] = fresh] /\ generated' = g
  BY ZenonT(40), <1>1 DEF Generate, Kept, Inv, TypeOK
<1>3. g \in Key /\ g \in 0 .. MaxGenerated
  <2>1. generated \in 0 .. MaxGenerated /\ generated < MaxGenerated
    BY ZenonT(40) DEF Generate, Inv, TypeOK
  <2> QED
    BY <2>1 DEF Key
<1> HIDE DEF g
<1>4. /\ fresh \in [key : {None} \cup Key, cert : {None} \cup Key] /\ fresh.key = g
      /\ HasCert(a) => fresh.cert = g
  BY <1>3
<1> HIDE DEF fresh
<1>5. proc[w] \in Proc
  BY DEF Inv, TypeOK, Proc
<1>6. p \in Proc /\ p.pc = "cut key" /\ p.n = proc[w].n
  BY ZenonT(40), <1>5 DEF Proc, Writes
<1>7. proc' = [proc EXCEPT ![w] = p]
  BY ZenonT(40) DEF Generate, Go, Inv, TypeOK
<1> HIDE DEF p
<1>8. Stage(a)' = "cut key" /\ \A b \in Authorities \ {a} : Stage(b)' = Stage(b)
  BY ZenonT(40), <1>1, <1>6, <1>7, Stays DEF Generate
<1>9. proc' \in [Towers -> Proc] /\ PlacesSound'
  <2>1. proc' \in [Towers -> Proc] /\ proc'[w] = p /\ \A v \in Towers \ {w} : proc'[v] = proc[v]
    BY ZenonT(40), <1>6, <1>7 DEF Inv, TypeOK, Proc
  <2> QED
    BY ZenonT(40), <1>6, <2>1 DEF Inv, PlacesSound, Generate
<1>10. /\ loaded' \in [Authorities -> [key : {None} \cup Key, cert : {None} \cup Key]]
       /\ loaded'[a] = fresh /\ \A b \in Authorities \ {a} : loaded'[b] = loaded[b]
  BY <1>2, <1>4 DEF Inv, TypeOK
<1>11. MemorySound(a)'
  BY ZenonT(40), <1>3, <1>4, <1>8, <1>10 DEF MemorySound
<1>12. FilesSound(a)'
  <2>1. FilesSound(a)
    BY DEF Inv
  <2>2. file[<<a, "key">>] = None \/ (HasCert(a) /\ file[<<a, "cert">>] = None)
    BY ZenonT(40), <1>1, OwnFiles DEF Generate
  <2>3. None \notin Key
    BY DEF Key
  <2> QED
    BY ZenonT(40), <1>2, <1>8, <2>1, <2>2, <2>3 DEF FilesSound
<1>13. file' \in [Files -> {None, 0} \cup Key] /\ generated' \in 0 .. MaxGenerated
  BY SMTT(30), <1>2, <1>3 DEF Inv, TypeOK
<1> QED
  BY ZenonT(40), <1>2, <1>8, <1>9, <1>10, <1>11, <1>12, <1>13, StepInv

\* A tower that writes is at an authority of its list, which is in that stage.
LEMMA WritesAt ==
  ASSUME Inv, NEW w \in Towers, proc[w].pc \in Writes
  PROVE  \E a \in Authorities : a = At(w) /\ Stage(a) = proc[w].pc
<1>1. PICK a \in Authorities : a = At(w) /\ Owner(a) = w /\ Rank(a) = proc[w].n
  BY ZenonT(40), AtSound DEF Writes
<1>2. ~(proc[w].n < proc[w].n) /\ proc[w].pc # "serve"
  <2>1. proc[w].n \in 0 .. 3
    BY DEF Inv, TypeOK
  <2>2. \A n \in 0 .. 3 : ~(n < n)
    OBVIOUS
  <2>3. proc[w].pc # "serve"
    BY ZenonT(40) DEF Writes
  <2> QED
    BY <2>1, <2>2, <2>3
<1> QED
  BY <1>1, <1>2 DEF Stage

\* A step of std::fs::write in ca.rs save: one file of the authority gets value v.
LEMMA WriteInv ==
  ASSUME Inv, NEW w \in Towers, proc[w].pc \in Writes,
         NEW a \in Authorities, a = At(w), NEW g \in FilesOf(a), NEW v \in {None, 0} \cup Key,
         file' = [file EXCEPT ![g] = v], UNCHANGED <<loaded, generated>>, Kept,
         proc' \in [Towers -> Proc], PlacesSound',
         \A b \in Authorities \ {a} : Stage(b)' = Stage(b) \/ Stage(b)' \in Unloaded,
         Stage(a)' \in {"cut cert", "write cert"} => HasCert(a),
         FilesSound(a)'
  PROVE  Inv'
<1> USE TowerAssumption
<1>1. /\ UNCHANGED <<lost, offer, suit, signed, pinned>> /\ stops' \in 0 .. MaxStops
      /\ loaded' \in [Authorities -> [key : {None} \cup Key, cert : {None} \cup Key]]
      /\ generated' \in 0 .. MaxGenerated
  BY ZenonT(40) DEF Kept, Inv, TypeOK
<1>2. g \in Files
  BY ZenonT(40), OwnFiles
<1>3. file' \in [Files -> {None, 0} \cup Key] /\ \A f \in Files \ FilesOf(a) : file'[f] = file[f]
  BY ZenonT(40), <1>2 DEF Inv, TypeOK
<1>4. Stage(a) = proc[w].pc
  BY ZenonT(40), WritesAt
<1>5. MemorySound(a)'
  <2>1. MemorySound(a)
    BY ZenonT(40) DEF Inv
  <2>2. /\ loaded[a].key \in Key /\ (HasCert(a) => loaded[a].cert \in Key)
        /\ HasCert(a) => loaded[a].cert = loaded[a].key
    BY ZenonT(40), <1>4, <2>1 DEF MemorySound, Writes
  <2> QED
    BY ZenonT(40), <2>2 DEF MemorySound
<1>6. ~(FilesOf(a) \cap lost = {} /\ Complete(a))
  <2>1. FilesSound(a) /\ (Stage(a) \in {"cut cert", "write cert"} => HasCert(a))
    BY ZenonT(40) DEF Inv, MemorySound, Writes
  <2>2. /\ <<a, "key">> \in FilesOf(a) /\ (HasCert(a) => <<a, "cert">> \in FilesOf(a))
    BY ZenonT(40), OwnFiles
  <2>3. None \notin Key /\ 0 \notin Key
    BY ZenonT(40), NotKeys
  <2> SUFFICES ASSUME FilesOf(a) \cap lost = {}, Complete(a) PROVE FALSE
    BY ZenonT(40)
  <2>4. <<a, "key">> \notin lost /\ file[<<a, "key">>] \in Key /\ (HasCert(a) => file[<<a, "cert">>] \in Key)
    BY ZenonT(40), <2>2 DEF Complete
  <2> QED
    BY ZenonT(40), <1>4, <2>1, <2>3, <2>4 DEF FilesSound, Writes
<1> QED
  BY ZenonT(40), <1>1, <1>3, <1>5, <1>6, StepInv

\* The stage of the authority that is written, and where the tower goes next.
LEMMA Writing ==
  ASSUME Inv, NEW w \in Towers, proc[w].pc \in Writes, NEW pc \in Writes, Go(w, pc),
         NEW a \in Authorities, a = At(w)
  PROVE  /\ proc' \in [Towers -> Proc] /\ PlacesSound'
         /\ Stage(a)' = pc /\ \A b \in Authorities \ {a} : Stage(b)' = Stage(b)
<1> DEFINE p == [proc[w] EXCEPT !.pc = pc]
<1>1. proc[w] \in Proc
  BY DEF Inv, TypeOK, Proc
<1>2. p \in Proc /\ p.pc = pc /\ p.n = proc[w].n
  BY <1>1 DEF Proc
<1>3. proc' = [proc EXCEPT ![w] = p]
  BY DEF Go, Inv, TypeOK
<1> HIDE DEF p
<1>4. proc' \in [Towers -> Proc] /\ proc'[w] = p /\ \A v \in Towers \ {w} : proc'[v] = proc[v]
  BY <1>2, <1>3 DEF Inv, TypeOK, Proc
<1>5. pc \notin {"down", "connect", "serve"} /\ proc[w].pc \notin {"down", "connect", "serve"}
  BY ZenonT(40) DEF Writes
<1>6. PlacesSound'
  BY <1>2, <1>4, <1>5 DEF Inv, PlacesSound
<1>7. Stage(a)' = p.pc /\ \A b \in Authorities \ {a} : Stage(b)' = Stage(b)
  BY ZenonT(40), <1>2, <1>3, <1>5, Stays
<1> QED
  BY <1>2, <1>4, <1>6, <1>7

LEMMA CutKeyInv ==
  ASSUME Inv, NEW w \in Towers, CutKey(w)
  PROVE  Inv'
<1>1. proc[w].pc = "cut key" /\ "cut key" \in Writes /\ "write key" \in Writes
  BY ZenonT(40) DEF CutKey, Writes
<1>2. PICK a \in Authorities : a = At(w) /\ Stage(a) = "cut key"
  BY ZenonT(40), <1>1, WritesAt
<1>3. /\ proc' \in [Towers -> Proc] /\ PlacesSound'
      /\ Stage(a)' = "write key" /\ \A b \in Authorities \ {a} : Stage(b)' = Stage(b)
  <2>1. PICK pc \in Writes : pc = "write key"
    BY ZenonT(40), <1>1
  <2>2. Go(w, pc) /\ proc[w].pc \in Writes
    BY ZenonT(40), <1>1, <2>1 DEF CutKey
  <2> QED
    BY ZenonT(40), <1>2, <2>1, <2>2, Writing
<1>4. file' = [file EXCEPT ![<<a, "key">>] = 0] /\ UNCHANGED <<loaded, generated>> /\ Kept
  BY ZenonT(40), <1>2 DEF CutKey
<1>5. <<a, "key">> \in FilesOf(a) /\ <<a, "key">> \in Files /\ (HasCert(a) => <<a, "cert">> \in Files)
  BY OwnFiles
<1>6. file'[<<a, "key">>] = 0 /\ (HasCert(a) => file'[<<a, "cert">>] = file[<<a, "cert">>])
  BY <1>4, <1>5 DEF Inv, TypeOK
<1>7. FilesSound(a)'
  <2>1. FilesSound(a) /\ lost' = lost
    BY <1>4 DEF Inv, Kept
  <2> QED
    BY ZenonT(40), <1>2, <1>3, <1>6, <2>1 DEF FilesSound
<1> QED
  BY ZenonT(40), <1>1, <1>2, <1>3, <1>4, <1>5, <1>7, WriteInv

LEMMA WriteKeyInv ==
  ASSUME Inv, NEW w \in Towers, WriteKey(w)
  PROVE  Inv'
<1>1. proc[w].pc = "write key" /\ "write key" \in Writes /\ "cut cert" \in Writes
  BY ZenonT(40) DEF WriteKey, Writes
<1>2. PICK a \in Authorities : a = At(w) /\ Stage(a) = "write key"
  BY ZenonT(40), <1>1, WritesAt
<1> DEFINE k == loaded[a].key
<1>3. k \in Key
  BY ZenonT(40), <1>1, <1>2 DEF Inv, MemorySound
<1>4. file' = [file EXCEPT ![<<a, "key">>] = k] /\ UNCHANGED <<loaded, generated>> /\ Kept
  BY ZenonT(40), <1>2 DEF WriteKey
<1>5. <<a, "key">> \in FilesOf(a) /\ <<a, "key">> \in Files /\ (HasCert(a) => <<a, "cert">> \in Files)
  BY OwnFiles
<1>6. file'[<<a, "key">>] = k /\ (HasCert(a) => file'[<<a, "cert">>] = file[<<a, "cert">>])
  BY <1>4, <1>5 DEF Inv, TypeOK
<1>7. FilesSound(a) /\ lost' = lost /\ loaded'[a].key = k
  BY <1>4 DEF Inv, Kept
<1>8. CASE HasCert(a)
  <2>1. PICK pc \in Writes : pc = "cut cert"
    BY ZenonT(40), <1>1
  <2>2. /\ proc' \in [Towers -> Proc] /\ PlacesSound'
        /\ Stage(a)' = "cut cert" /\ \A b \in Authorities \ {a} : Stage(b)' = Stage(b)
    <3>1. Go(w, pc) /\ proc[w].pc \in Writes
      BY ZenonT(40), <1>1, <1>2, <1>8, <2>1 DEF WriteKey, Go
    <3> QED
      BY ZenonT(40), <1>2, <2>1, <3>1, Writing
  <2>3. FilesSound(a)'
    BY ZenonT(40), <1>2, <1>6, <1>7, <1>8, <2>2 DEF FilesSound
  <2> HIDE DEF k
  <2> QED
    BY ZenonT(40), <1>1, <1>2, <1>3, <1>4, <1>5, <1>8, <2>2, <2>3, WriteInv
<1>9. CASE ~HasCert(a)
  <2>1. proc' = Proceed(w) /\ proc[w].pc \notin {"down", "serve"}
    BY ZenonT(40), <1>1, <1>2, <1>9 DEF WriteKey
  <2>2. /\ proc' \in [Towers -> Proc] /\ PlacesSound' /\ Stage(a)' = "memory"
        /\ \A b \in Authorities \ {a} : Stage(b)' = Stage(b) \/ Stage(b)' \in Unloaded
    BY ZenonT(30), <1>2, <2>1, Proceeds
  <2>3. Complete(a)'
    <3>1. \A f \in FilesOf(a) : f = <<a, "key">>
      BY ZenonT(40), <1>9, OwnFiles
    <3> QED
      BY <1>3, <1>6, <3>1 DEF Complete
  <2>4. FilesSound(a)'
    BY ZenonT(40), <1>6, <1>7, <1>9, <2>2, <2>3 DEF FilesSound
  <2> HIDE DEF k
  <2> QED
    BY ZenonT(40), <1>1, <1>2, <1>3, <1>4, <1>5, <2>2, <2>4, WriteInv
<1> QED
  BY <1>8, <1>9

LEMMA CutCertInv ==
  ASSUME Inv, NEW w \in Towers, CutCert(w)
  PROVE  Inv'
<1>1. proc[w].pc = "cut cert" /\ "cut cert" \in Writes /\ "write cert" \in Writes
  BY ZenonT(40) DEF CutCert, Writes
<1>2. PICK a \in Authorities : a = At(w) /\ Stage(a) = "cut cert"
  BY ZenonT(40), <1>1, WritesAt
<1>3. /\ proc' \in [Towers -> Proc] /\ PlacesSound'
      /\ Stage(a)' = "write cert" /\ \A b \in Authorities \ {a} : Stage(b)' = Stage(b)
  <2>1. PICK pc \in Writes : pc = "write cert"
    BY ZenonT(40), <1>1
  <2>2. Go(w, pc) /\ proc[w].pc \in Writes
    BY ZenonT(40), <1>1, <2>1 DEF CutCert
  <2> QED
    BY ZenonT(40), <1>2, <2>1, <2>2, Writing
<1>4. file' = [file EXCEPT ![<<a, "cert">>] = 0] /\ UNCHANGED <<loaded, generated>> /\ Kept
  BY ZenonT(40), <1>2 DEF CutCert
<1>5. MemorySound(a) /\ FilesSound(a) /\ lost' = lost
  BY <1>4 DEF Inv, Kept
<1>6. HasCert(a) /\ loaded[a].key \in Key
  BY ZenonT(40), <1>1, <1>2, <1>5 DEF MemorySound
<1>7. <<a, "cert">> \in FilesOf(a) /\ <<a, "key">> \in Files /\ <<a, "cert">> \in Files
  BY <1>6, OwnFiles
<1>8. file'[<<a, "cert">>] = 0 /\ file'[<<a, "key">>] = file[<<a, "key">>]
  BY <1>4, <1>7 DEF Inv, TypeOK
<1>9. FilesSound(a)'
  BY ZenonT(40), <1>2, <1>3, <1>4, <1>5, <1>6, <1>8 DEF FilesSound
<1> QED
  BY ZenonT(40), <1>1, <1>2, <1>3, <1>4, <1>6, <1>7, <1>9, WriteInv

LEMMA WriteCertInv ==
  ASSUME Inv, NEW w \in Towers, WriteCert(w)
  PROVE  Inv'
<1>1. proc[w].pc = "write cert" /\ "write cert" \in Writes /\ proc[w].pc \notin {"down", "serve"}
  BY ZenonT(40) DEF WriteCert, Writes
<1>2. PICK a \in Authorities : a = At(w) /\ Stage(a) = "write cert"
  BY ZenonT(40), <1>1, WritesAt
<1> DEFINE c == loaded[a].cert
<1>3. /\ proc' \in [Towers -> Proc] /\ PlacesSound' /\ Stage(a)' = "memory"
      /\ \A b \in Authorities \ {a} : Stage(b)' = Stage(b) \/ Stage(b)' \in Unloaded
  BY ZenonT(40), <1>1, <1>2, Proceeds DEF WriteCert
<1>4. file' = [file EXCEPT ![<<a, "cert">>] = c] /\ UNCHANGED <<loaded, generated>> /\ Kept
  BY ZenonT(40), <1>2 DEF WriteCert
<1>5. MemorySound(a) /\ FilesSound(a) /\ lost' = lost
  BY <1>4 DEF Inv, Kept
<1>6. HasCert(a) /\ c \in Key /\ loaded[a].key = c
  BY ZenonT(40), <1>1, <1>2, <1>5 DEF MemorySound
<1>7. <<a, "cert">> \in FilesOf(a) /\ <<a, "key">> \in Files /\ <<a, "cert">> \in Files
  BY <1>6, OwnFiles
<1>8. file'[<<a, "cert">>] = c /\ file'[<<a, "key">>] = file[<<a, "key">>]
  BY <1>4, <1>7 DEF Inv, TypeOK
<1>9. <<a, "key">> \notin lost => file'[<<a, "key">>] = c /\ Complete(a)'
  <2>1. \A f \in FilesOf(a) : f = <<a, "key">> \/ f = <<a, "cert">>
    BY ZenonT(40), OwnFiles
  <2>2. <<a, "key">> \notin lost => file[<<a, "key">>] = c
    BY ZenonT(40), <1>2, <1>5, <1>6 DEF FilesSound
  <2> QED
    BY <1>6, <1>8, <2>1, <2>2 DEF Complete
<1>10. FilesSound(a)'
  BY ZenonT(40), <1>3, <1>4, <1>5, <1>6, <1>8, <1>9 DEF FilesSound
<1> HIDE DEF c
<1> QED
  BY ZenonT(40), <1>1, <1>2, <1>3, <1>4, <1>6, <1>7, <1>10, WriteInv

\* A file that is lost, outside the program.
LEMMA LoseInv ==
  ASSUME Inv, NEW g \in Files, Lose(g)
  PROVE  Inv'
<1>1. /\ file' = [file EXCEPT ![g] = None] /\ lost' = lost \cup {g} /\ g \in Losable
      /\ UNCHANGED <<loaded, proc, generated, stops, offer, suit, signed, pinned>>
  BY DEF Lose
<1>2. /\ file' \in [Files -> {None, 0} \cup Key] /\ file'[g] = None
      /\ \A f \in Files \ {g} : file'[f] = file[f]
  BY <1>1 DEF Inv, TypeOK
<1>3. \A a \in Authorities : Stage(a)' = Stage(a)
  BY ZenonT(40), <1>1 DEF Stage
<1>4. PlacesSound'
  BY <1>1 DEF Inv, PlacesSound
<1>5. ASSUME NEW a \in Authorities PROVE MemorySound(a)' /\ FilesSound(a)'
  <2>1. MemorySound(a) /\ FilesSound(a)
    BY DEF Inv
  <2>2. /\ <<a, "key">> \in Files /\ (HasCert(a) => <<a, "cert">> \in Files)
        /\ <<a, "key">> \in FilesOf(a) /\ (HasCert(a) => <<a, "cert">> \in FilesOf(a))
        /\ \A f \in FilesOf(a) : f \in Files
    BY OwnFiles
  <2>3. MemorySound(a)'
    BY ZenonT(40), <1>1, <1>3, <2>1 DEF MemorySound
  <2>4. CASE g = <<a, "key">>
    BY <1>1, <2>3, <2>4 DEF FilesSound
  <2>5. CASE g = <<a, "cert">> /\ HasCert(a)
    <3>1. file'[<<a, "cert">>] = None /\ file'[<<a, "key">>] = file[<<a, "key">>]
      BY <1>2, <2>2, <2>5
    <3>2. FilesOf(a) \cap lost' # {} /\ lost \subseteq lost'
      BY <1>1, <2>2, <2>5
    <3> QED
      BY ZenonT(30), <1>1, <1>3, <2>1, <2>3, <3>1, <3>2 DEF FilesSound
  <2>6. CASE g \notin FilesOf(a)
    <3>1. \A f \in FilesOf(a) : file'[f] = file[f]
      BY <1>2, <2>2, <2>6
    <3>2. /\ file'[<<a, "key">>] = file[<<a, "key">>]
          /\ HasCert(a) => file'[<<a, "cert">>] = file[<<a, "cert">>]
      BY <2>2, <3>1
    <3>3. Complete(a)' = Complete(a)
      BY <3>1, <3>2 DEF Complete
    <3>4. FilesOf(a) \cap lost' = FilesOf(a) \cap lost /\ (<<a, "key">> \notin lost' <=> <<a, "key">> \notin lost)
      BY <1>1, <2>2, <2>6
    <3>5. Stage(a) = "write cert" => HasCert(a)
      BY ZenonT(40), <2>1 DEF MemorySound, Writes
    <3> QED
      BY ZenonT(30), <1>1, <1>3, <2>1, <2>3, <3>2, <3>3, <3>4, <3>5 DEF FilesSound
  <2> QED
    BY ZenonT(40), <2>4, <2>5, <2>6, OwnFiles
<1>6. MadeSound'
  <2> SUFFICES ASSUME NEW m \in Made', FilesOf(m[1]) \cap lost' = {}
               PROVE  Complete(m[1])' /\ file'[<<m[1], "key">>] = m[2]
    BY DEF MadeSound
  <2>1. m \in Made
    BY <1>1 DEF Made
  <2>2. m[1] \in Authorities
    BY <2>1 DEF Made, Inv, TypeOK, Authorities
  <2>3. FilesOf(m[1]) \cap lost = {} /\ g \notin FilesOf(m[1])
    BY <1>1
  <2>4. Complete(m[1]) /\ file[<<m[1], "key">>] = m[2]
    BY <2>1, <2>3 DEF Inv, MadeSound
  <2>5. \A f \in FilesOf(m[1]) : file'[f] = file[f]
    BY ZenonT(40), <1>2, <2>2, <2>3, OwnFiles
  <2> QED
    BY ZenonT(40), <2>2, <2>4, <2>5, OwnFiles DEF Complete
<1>7. TypeOK'
  <2>1. \A w \in Towers : Serves(w)' =>
          \A i \in DOMAIN OrderOf(w) : loaded'[OrderOf(w)[i]].key \in Key
    BY ZenonT(40), <1>5, ServesLoaded
  <2> QED
    BY ZenonT(40), <1>1, <1>2, <2>1 DEF Inv, TypeOK, OrderOf, Key
<1> QED
  BY <1>4, <1>5, <1>6, <1>7 DEF Inv

-----------------------------------------------------------------------------
(* What serving towers make                                                *)

\* A serving tower has the keys on file, unless one of the files was lost.
LEMMA Serving ==
  ASSUME Inv, NEW a \in Authorities, Serves(Owner(a))
  PROVE  /\ loaded[a].key \in Key /\ (HasCert(a) => loaded[a].cert \in Key)
         /\ FilesOf(a) \cap lost = {} =>
              /\ Complete(a) /\ file[<<a, "key">>] = loaded[a].key
              /\ HasCert(a) => file[<<a, "key">>] = loaded[a].cert
<1>1. Stage(a) = "memory"
  BY DEF Stage, Serves
<1>2. MemorySound(a) /\ FilesSound(a)
  BY DEF Inv
<1>3. FilesOf(a) \cap lost = {} => <<a, "key">> \notin lost
  BY ZenonT(40), OwnFiles
<1> QED
  BY <1>1, <1>2, <1>3 DEF MemorySound, FilesSound

\* A pair <<a, k>> that a serving tower may put into a signature or an anchor.
Sound(m) == /\ m \in Authorities \X Key
            /\ FilesOf(m[1]) \cap lost = {} => Complete(m[1]) /\ file[<<m[1], "key">>] = m[2]

\* Steps that only make signatures and anchors, from sound pairs.
LEMMA MakeInv ==
  ASSUME Inv, Memory, offer' \in {None} \cup Key,
         \A m \in Made' : m \in Made \/ Sound(m)
  PROVE  Inv'
<1>1. UNCHANGED <<file, loaded, proc, generated, stops, lost>>
  BY DEF Memory
<1>2. \A a \in Authorities : Stage(a)' = Stage(a) /\ Complete(a)' = Complete(a)
  BY <1>1 DEF Stage, Complete
<1>3. \A a \in Authorities : MemorySound(a)' /\ FilesSound(a)'
  BY ZenonT(40), <1>1, <1>2 DEF Inv, MemorySound, FilesSound
<1>4. MadeSound'
  BY ZenonT(40), <1>1 DEF Inv, MadeSound, Sound, Complete
<1>5. PlacesSound'
  BY <1>1 DEF Inv, PlacesSound
<1>6. signed' \cup pinned' \cup suit' \subseteq Authorities \X Key
  <2>1. ASSUME NEW m \in Made PROVE m \in Authorities \X Key
    <3>1. CASE m \in signed \cup pinned \cup suit
      BY <3>1 DEF Inv, TypeOK
    <3>2. CASE offer # None /\ m = <<"sw-authority", offer>>
      BY <3>2 DEF Inv, TypeOK, Authorities
    <3> QED
      BY <3>1, <3>2 DEF Made
  <2>2. \A m \in Made' : m \in Authorities \X Key
    BY ZenonT(40), <2>1 DEF Sound
  <2> QED
    BY <2>2 DEF Made
<1>7. TypeOK'
  BY ZenonT(40), <1>1, <1>6 DEF Inv, TypeOK, Serves
<1> QED
  BY <1>3, <1>4, <1>5, <1>7 DEF Inv

\* What a serving tower has in memory is sound.
LEMMA ServingSound ==
  ASSUME Inv, NEW a \in Authorities, Serves(Owner(a))
  PROVE  Sound(<<a, loaded[a].key>>) /\ (HasCert(a) => Sound(<<a, loaded[a].cert>>))
  BY Serving DEF Sound

LEMMA Names ==
  /\ \A a \in {"key-authority", "identity", "delegation"} :
       a \in Authorities /\ Owner(a) = "ca" /\ HasCert(a)
  /\ "sw-authority" \in Authorities /\ Owner("sw-authority") = "hub"
  BY DEF Authorities, Owner, HasCert

\* The signatures, roots and anchors of serving towers.
LEMMA ServeInv ==
  ASSUME Inv, SignManifest \/ SignLeaf \/ MintDelegate \/ TrustBundle \/ InstallKeystore
  PROVE  Inv'
<1>1. Memory /\ offer' = offer /\ suit' = suit
  BY DEF SignManifest, SignLeaf, MintDelegate, TrustBundle, InstallKeystore
<1>2. CASE SignManifest
  <2>1. Sound(<<"sw-authority", loaded["sw-authority"].key>>)
    BY ZenonT(40), <1>2, Names, ServingSound DEF SignManifest
  <2>2. Made' = Made \cup {<<"sw-authority", loaded["sw-authority"].key>>}
    BY ZenonT(40), <1>1, <1>2 DEF SignManifest, Made
  <2> QED
    BY ZenonT(40), <1>1, <2>1, <2>2, MakeInv DEF Inv, TypeOK
<1>3. CASE SignLeaf
  <2>1. Sound(<<"identity", loaded["identity"].key>>)
    BY ZenonT(40), <1>3, Names, ServingSound DEF SignLeaf
  <2>2. Made' = Made \cup {<<"identity", loaded["identity"].key>>}
    BY ZenonT(40), <1>1, <1>3 DEF SignLeaf, Made
  <2> QED
    BY <1>1, <2>1, <2>2, MakeInv DEF Inv, TypeOK
<1>4. CASE MintDelegate
  <2>1. Sound(<<"delegation", loaded["delegation"].key>>) /\ Sound(<<"delegation", loaded["delegation"].cert>>)
    BY <1>4, Names, ServingSound DEF MintDelegate
  <2>2. Made' = Made \cup {<<"delegation", loaded["delegation"].key>>, <<"delegation", loaded["delegation"].cert>>}
    BY SMTT(30), <1>1, <1>4 DEF MintDelegate, Made
  <2> QED
    BY <1>1, <2>1, <2>2, MakeInv DEF Inv, TypeOK
<1>5. CASE TrustBundle
  <2>1. \A a \in {"identity", "delegation"} : Sound(<<a, loaded[a].cert>>)
    BY ZenonT(40), <1>5, Names, ServingSound DEF TrustBundle
  <2>2. Made' = Made \cup {<<a, loaded[a].cert>> : a \in {"identity", "delegation"}}
    BY ZenonT(40), <1>1, <1>5 DEF TrustBundle, Made
  <2> QED
    BY ZenonT(40), <1>1, <2>1, <2>2, MakeInv DEF Inv, TypeOK
<1>6. CASE InstallKeystore
  <2>1. Made' = Made
    BY <1>1, <1>6 DEF InstallKeystore, Made
  <2> QED
    BY <1>1, <2>1, MakeInv DEF Inv, TypeOK
<1> QED
  BY ZenonT(40), <1>2, <1>3, <1>4, <1>5, <1>6

\* `ca mint-keystore` reads Tower 2's key and then has Tower 1 mint with it.
LEMMA MintInv ==
  ASSUME Inv, ReadSigner \/ MintKeystore
  PROVE  Inv'
<1>1. Memory /\ UNCHANGED <<signed, pinned>>
  BY DEF ReadSigner, MintKeystore
<1>2. CASE ReadSigner
  <2> DEFINE k == loaded["sw-authority"].key
  <2>1. k \in Key /\ Sound(<<"sw-authority", k>>)
    BY ZenonT(40), <1>2, Names, Serving, ServingSound DEF ReadSigner
  <2>2. offer' = k /\ suit' = suit
    BY <1>2 DEF ReadSigner
  <2> HIDE DEF k
  <2>3. \A m \in Made' : m \in Made \/ m = <<"sw-authority", k>>
    BY <1>1, <2>2 DEF Made
  <2> QED
    BY <1>1, <2>1, <2>2, <2>3, MakeInv
<1>3. CASE MintKeystore
  <2> DEFINE k == loaded["key-authority"].key
             c == loaded["delegation"].cert
  <2>1. Sound(<<"key-authority", k>>) /\ Sound(<<"delegation", c>>)
    BY ZenonT(30), <1>3, Names, ServingSound DEF MintKeystore
  <2>2. offer' = None /\ suit' = {<<"sw-authority", offer>>, <<"key-authority", k>>, <<"delegation", c>>}
    BY <1>3 DEF MintKeystore
  <2> HIDE DEF k, c
  <2>3. <<"sw-authority", offer>> \in Made
    BY <1>3 DEF MintKeystore, Made
  <2>4. \A m \in Made' : m \in Made \/ m = <<"key-authority", k>> \/ m = <<"delegation", c>>
    BY <1>1, <2>2, <2>3 DEF Made
  <2> QED
    BY <1>1, <2>1, <2>2, <2>4, MakeInv
<1> QED
  BY <1>2, <1>3

LEMMA NextInv == Inv /\ [Next]_vars => Inv'
<1> SUFFICES ASSUME Inv, [Next]_vars PROVE Inv'
  OBVIOUS
<1>1. CASE UNCHANGED vars
  <2>1. Memory /\ offer' = offer /\ Made' = Made
    BY <1>1 DEF vars, Memory, Made
  <2> QED
    BY ZenonT(40), <2>1, MakeInv DEF Inv, TypeOK
<1>2. CASE Next
  BY <1>2, StartInv, ConnectInv, RetryInv, LoadInv, GenerateInv, CutKeyInv, WriteKeyInv, CutCertInv,
     WriteCertInv, StopInv, LoseInv, ServeInv, MintInv
  DEF Next, Step
<1> QED
  BY <1>1, <1>2

-----------------------------------------------------------------------------
(* Theorems                                                                *)

\* The towers keep the inductive invariant, whatever stops, restarts and lost files.
THEOREM TowerInvariant == Spec => []Inv
  BY InitInv, NextInv, PTL DEF Spec

\* Type correctness; a tower that serves has all the keys that main loads.
THEOREM TowerTypeOK == Spec => []TypeOK
<1>1. Inv => TypeOK
  BY DEF Inv
<1> QED
  BY <1>1, TowerInvariant, PTL

\* Every signature of an authority verifies against every anchor for it that was
\* handed out, unless one of the authority's own files was lost: load_or_generate_*
\* loads what it saved on first run, or refuses.
THEOREM ChainsAlwaysVerify == Spec => []ChainsVerify
<1>1. Inv => ChainsVerify
  BY ZenonT(40) DEF Inv, ChainsVerify, MadeSound, Made
<1> QED
  BY <1>1, TowerInvariant, PTL

\* Where only certificate files can be lost, a serving CA's certificate certifies its
\* key: Ca::save writes the key before the certificate, so a start that follows an
\* interrupted save never reads an old certificate beside a new key.
THEOREM RootsAlwaysCertify ==
  ASSUME \A a \in Authorities : <<a, "key">> \notin Losable
  PROVE  Spec => []RootsCertify
<1>1. Inv => RootsCertify
  <2> SUFFICES ASSUME Inv, Serves("ca"), NEW i \in DOMAIN OrderOf("ca")
               PROVE  loaded[OrderOf("ca")[i]].cert = loaded[OrderOf("ca")[i]].key
    BY DEF RootsCertify
  <2>1. i \in 1 .. 3 /\ i <= Len(OrderOf("ca")) /\ "ca" \in Towers
    BY Lists DEF Towers
  <2>2. PICK a \in Authorities : a = OrderOf("ca")[i] /\ Owner(a) = "ca"
    BY ZenonT(40), <2>1, Lists
  <2>3. HasCert(a) /\ Stage(a) = "memory" /\ <<a, "key">> \notin lost
    BY <2>2 DEF Owner, Stage, Serves, Inv, TypeOK
  <2>4. MemorySound(a)
    BY DEF Inv
  <2> QED
    BY ZenonT(40), <2>2, <2>3, <2>4 DEF MemorySound
<1> QED
  BY <1>1, TowerInvariant, PTL
=============================================================================
