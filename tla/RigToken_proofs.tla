-------------------------- MODULE RigToken_proofs --------------------------
(***************************************************************************)
(* Proofs about RigToken, for any number of concurrent calls and reboots.  *)
(***************************************************************************)
EXTENDS RigToken, TLAPS

\* Time limits of the provers: the time they take varies with the length of the run.
USE SMTT(40), ZenonT(40)

LEMMA InitInv == Init => Inv
  BY TokenAssumption
  DEF Init, Inv, TypeOK, TokenFresh, BootsLive, Boots, Call, NewCall

\* A step of one call that leaves the rig and the cache alone, or files a token of the
\* boot it read, keeps the invariant when the call it becomes is sound.
LEMMA CallMove ==
  ASSUME Inv, NEW c \in Callers, NEW s \in Call,
         call' = [call EXCEPT ![c] = s],
         boot' = boot,
         \/ cached' = cached
         \/ \E b \in Boots : b <= boot /\ cached' = [boot |-> b, token |-> b],
         \/ holder' = holder /\ (s.pc \in {"ecu", "mint"} <=> holder = c)
         \/ holder = None /\ holder' = c /\ s.pc \in {"ecu", "mint"}
         \/ holder = c /\ holder' = None /\ s.pc \notin {"ecu", "mint"},
         s.pc # "idle" => s.since \in 1 .. boot,
         s.pc \in {"lock", "ecu", "mint"} => s.boot \in s.since .. boot,
         s.pc = "answered" => s.token \in s.since .. boot
  PROVE  Inv'
<1> USE TokenAssumption
<1>1. call'[c] = s /\ \A d \in Callers \ {c} : call'[d] = call[d]
  BY DEF Inv, TypeOK
<1>2. TypeOK'
  <2>1. cached' \in [boot : Boots, token : Boots] \cup {None}
    BY DEF Inv, TypeOK
  <2>2. call' \in [Callers -> Call] /\ holder' \in Callers \cup {None}
    BY DEF Inv, TypeOK
  <2>3. ASSUME NEW d \in Callers PROVE call'[d].pc \in {"ecu", "mint"} <=> holder' = d
    BY <1>1 DEF Inv, TypeOK
  <2> QED
    BY <2>1, <2>2, <2>3 DEF Inv, TypeOK
<1>3. TokenFresh'
  BY <1>1 DEF Inv, TokenFresh
<1>4. BootsLive'
  <2>1. cached' # None => cached'.token = cached'.boot /\ cached'.boot <= boot
    BY DEF Inv, BootsLive
  <2> QED
    BY <1>1, <2>1 DEF Inv, BootsLive
<1> QED
  BY <1>2, <1>3, <1>4 DEF Inv

\* A reboot only adds to the boots that a call has lived through.
LEMMA RebootInv ==
  ASSUME Inv, Reboot
  PROVE  Inv'
<1> USE TokenAssumption
<1>1. boot \in Nat /\ boot' = boot + 1 /\ boot' \in Boots
  BY DEF Inv, TypeOK, Reboot, Boots
<1>2. TypeOK'
  BY <1>1 DEF Inv, TypeOK, Reboot
<1>3. \A c \in Callers : /\ call[c] \in Call
                         /\ call[c].pc # "idle" => call[c].since \in Nat
  <2>1. \A c \in Callers : call[c].pc # "idle" => call[c].since \in 1 .. boot
    BY DEF Inv, BootsLive
  <2>2. 1 .. boot \subseteq Nat
    BY <1>1
  <2> QED
    BY ZenonT(40), <2>1, <2>2 DEF Inv, TypeOK
<1>4. \A i \in Nat : i .. boot \subseteq i .. boot'
  BY <1>1
<1>5. TokenFresh'
  BY <1>3, <1>4 DEF Inv, TokenFresh, Reboot
<1>6. BootsLive'
  <2>1. cached # None => cached.boot \in Nat
    BY DEF Inv, TypeOK, Boots
  <2> QED
    BY <1>1, <1>3, <1>4, <2>1 DEF Inv, BootsLive, Reboot
<1> QED
  BY <1>2, <1>5, <1>6 DEF Inv

\* Every step preserves the invariant.
LEMMA NextInv == Inv /\ [Next]_vars => Inv'
<1> USE TokenAssumption
<1> SUFFICES ASSUME Inv, [Next]_vars PROVE Inv'
  OBVIOUS
<1>0. boot \in Boots /\ \A c \in Callers : call[c] \in Call
  BY DEF Inv, TypeOK
<1>1. ASSUME NEW c \in Callers, Begin(c) PROVE Inv'
  <2> DEFINE s == [NewCall EXCEPT !.pc = "boot", !.since = boot]
  <2>1. boot \in 1 .. boot
    BY DEF Inv, TypeOK, Boots
  <2>2. s \in Call /\ s.pc = "boot" /\ s.since = boot
    BY ZenonT(40) DEF NewCall, Call, Inv, TypeOK
  <2>3. holder # c
    BY <1>1 DEF Begin, Inv, TypeOK
  <2>4. call' = [call EXCEPT ![c] = s] /\ UNCHANGED <<boot, cached, holder>>
    BY <1>1 DEF Begin
  <2> HIDE DEF s
  <2> QED
    BY ZenonT(40), <2>1, <2>2, <2>3, <2>4, CallMove
<1>2. ASSUME NEW c \in Callers, ReadBoot(c) PROVE Inv'
  <2> DEFINE s == [call[c] EXCEPT !.pc = "lock", !.boot = boot]
  <2>1. call[c].since \in 1 .. boot /\ boot \in call[c].since .. boot
    <3>1. call[c].since \in 1 .. boot
      BY <1>2 DEF ReadBoot, Inv, BootsLive
    <3> QED
      BY <3>1 DEF Inv, TypeOK, Boots
  <2>2. s \in Call /\ s.pc = "lock" /\ s.boot = boot /\ s.since = call[c].since
    BY ZenonT(40), <1>0 DEF Call
  <2>3. holder # c
    BY <1>2 DEF ReadBoot, Inv, TypeOK
  <2>4. call' = [call EXCEPT ![c] = s] /\ UNCHANGED <<boot, cached, holder>>
    BY ZenonT(40), <1>2 DEF ReadBoot, Inv, TypeOK
  <2> HIDE DEF s
  <2> QED
    BY ZenonT(40), <2>1, <2>2, <2>3, <2>4, CallMove
<1>3. ASSUME NEW c \in Callers, Lock(c) PROVE Inv'
  <2>1. /\ call[c].pc = "lock" /\ holder = None /\ UNCHANGED <<boot, cached>>
        /\ call[c].since \in 1 .. boot /\ call[c].boot \in call[c].since .. boot
    BY <1>3 DEF Lock, Inv, BootsLive
  <2>2. CASE cached # None /\ cached.boot = call[c].boot
    <3> DEFINE s == [call[c] EXCEPT !.pc = "answered", !.token = cached.token]
    <3>1. cached.token = call[c].boot /\ cached.token \in Boots
      BY <2>2 DEF Inv, BootsLive, TypeOK
    <3>2. s \in Call /\ s.pc = "answered" /\ s.since = call[c].since /\ s.token = call[c].boot
      BY ZenonT(40), <1>0, <3>1 DEF Call
    <3>3. call' = [call EXCEPT ![c] = s] /\ holder' = holder
      BY ZenonT(40), <1>3, <2>2 DEF Lock, Inv, TypeOK
    <3>4. holder # c
      BY <2>1
    <3> HIDE DEF s
    <3> QED
      BY ZenonT(40), <2>1, <3>2, <3>3, <3>4, CallMove
  <2>3. CASE ~(cached # None /\ cached.boot = call[c].boot)
    <3> DEFINE s == [call[c] EXCEPT !.pc = "ecu"]
    <3>1. /\ s \in Call /\ s.pc = "ecu"
          /\ s.since = call[c].since /\ s.boot = call[c].boot
      BY <1>0 DEF Call
    <3>2. call' = [call EXCEPT ![c] = s] /\ holder' = c
      BY <1>3, <2>3 DEF Lock, Inv, TypeOK
    <3> HIDE DEF s
    <3> QED
      BY ZenonT(40), <2>1, <3>1, <3>2, CallMove
  <2> QED
    BY <2>2, <2>3
<1>4. ASSUME NEW c \in Callers, ReadEcu(c) PROVE Inv'
  <2> DEFINE s == [call[c] EXCEPT !.pc = "mint"]
  <2>1. /\ call[c].since \in 1 .. boot /\ call[c].boot \in call[c].since .. boot
        /\ holder = c
    BY <1>4 DEF ReadEcu, Inv, BootsLive, TypeOK
  <2>2. s \in Call /\ s.pc = "mint" /\ s.since = call[c].since /\ s.boot = call[c].boot
    BY <1>0 DEF Call
  <2>3. call' = [call EXCEPT ![c] = s] /\ UNCHANGED <<boot, cached, holder>>
    BY <1>4 DEF ReadEcu, Inv, TypeOK
  <2> HIDE DEF s
  <2> QED
    BY ZenonT(40), <2>1, <2>2, <2>3, CallMove
<1>5. ASSUME NEW c \in Callers, Mint(c) PROVE Inv'
  <2> DEFINE s == [call[c] EXCEPT !.pc = "answered", !.token = call[c].boot]
  <2>1. /\ call[c].since \in 1 .. boot /\ call[c].boot \in call[c].since .. boot
        /\ holder = c
    BY <1>5 DEF Mint, Inv, BootsLive, TypeOK
  <2>2. call[c].boot \in Boots /\ call[c].boot <= boot
    BY <2>1 DEF Boots, Inv, TypeOK
  <2>3. s \in Call /\ s.pc = "answered" /\ s.since = call[c].since /\ s.token = call[c].boot
    BY ZenonT(40), <1>0, <2>2 DEF Call
  <2>4. /\ call' = [call EXCEPT ![c] = s] /\ boot' = boot /\ holder' = None
        /\ cached' = [boot |-> call[c].boot, token |-> call[c].boot]
    BY ZenonT(40), <1>5 DEF Mint, Inv, TypeOK
  <2> HIDE DEF s
  <2> QED
    BY ZenonT(40), <2>1, <2>2, <2>3, <2>4, CallMove
<1>6. ASSUME NEW c \in Callers, Fail(c) PROVE Inv'
  <2> DEFINE s == [call[c] EXCEPT !.pc = "failed"]
  <2>1. s \in Call /\ s.pc = "failed" /\ s.since = call[c].since
    BY <1>0 DEF Call
  <2>2. call[c].since \in 1 .. boot
    BY <1>6 DEF Fail, Inv, BootsLive
  <2>3. /\ call' = [call EXCEPT ![c] = s] /\ UNCHANGED <<boot, cached>>
        /\ holder' = IF holder = c THEN None ELSE holder
    BY <1>6 DEF Fail, Inv, TypeOK
  <2> HIDE DEF s
  <2> QED
    BY ZenonT(40), <2>1, <2>2, <2>3, CallMove
<1>7. CASE UNCHANGED vars
  BY <1>7 DEF vars, Inv, TypeOK, TokenFresh, BootsLive
<1> QED
  BY <1>1, <1>2, <1>3, <1>4, <1>5, <1>6, <1>7, RebootInv DEF Next

\* The token cache keeps its inductive invariant over all interleavings and reboots.
THEOREM TokenInvariant == Spec => []Inv
  BY InitInv, NextInv, PTL DEF Spec

\* Type correctness, and mutual exclusion of the calls that mint: the one that holds the
\* mutex is the one between lock and answer.
THEOREM TokenTypeOK == Spec => []TypeOK
<1>1. Inv => TypeOK
  BY DEF Inv
<1> QED
  BY <1>1, TokenInvariant, PTL

\* RigToken::token never returns a token of a boot that ended before the call began,
\* whatever other calls cache and however often the rig reboots meanwhile.
THEOREM TokensAreFresh == Spec => []TokenFresh
<1>1. Inv => TokenFresh
  BY DEF Inv
<1> QED
  BY <1>1, TokenInvariant, PTL
=============================================================================
