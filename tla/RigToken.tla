------------------------------ MODULE RigToken ------------------------------
(***************************************************************************)
(* The flash engine's bearer tokens (RigToken, orchestrator/src/lib.rs):   *)
(* calls of token() share one cached pair of boot id and token behind an   *)
(* async mutex, while the rig reboots.  A token is minted for the boot id  *)
(* that the call read before it took the lock.                             *)
(*                                                                         *)
(* A token stands for the boot it is bound to.  The fixed-token variant    *)
(* has no state and is left out.                                           *)
(***************************************************************************)
EXTENDS Naturals

CONSTANTS
  Callers,      \* calls of token() at once
  MaxBoot,      \* bound on the rig's boots
  None

ASSUME TokenAssumption ==
  /\ MaxBoot \in Nat \ {0}
  /\ None \notin Callers \cup Nat \cup [boot : Nat, token : Nat]

VARIABLES
  boot,      \* the rig's live boot id
  cached,    \* Mutex<Option<(boot_id, token)>>
  holder,    \* the call that holds the mutex
  call       \* per caller: [pc, boot, token], and since, the boot when it began

vars == <<boot, cached, holder, call>>

Boots == 1 .. MaxBoot
NewCall == [pc |-> "idle", boot |-> None, token |-> None, since |-> None]

Init ==
  /\ boot = 1
  /\ cached = None
  /\ holder = None
  /\ call = [c \in Callers |-> NewCall]

Reboot ==
  /\ boot < MaxBoot
  /\ boot' = boot + 1
  /\ UNCHANGED <<cached, holder, call>>

Begin(c) ==
  /\ call[c].pc \in {"idle", "answered", "failed"}
  /\ call' = [call EXCEPT ![c] = [NewCall EXCEPT !.pc = "boot", !.since = boot]]
  /\ UNCHANGED <<boot, cached, holder>>

\* fetch_rig_boot_id.
ReadBoot(c) ==
  /\ call[c].pc = "boot"
  /\ call' = [call EXCEPT ![c].pc = "lock", ![c].boot = boot]
  /\ UNCHANGED <<boot, cached, holder>>

MutLockAnyToken(c) ==
  /\ call[c].pc = "lock" /\ holder = None
  /\ IF cached # None
     THEN /\ call' = [call EXCEPT ![c].pc = "answered", ![c].token = cached.token]
          /\ UNCHANGED holder
     ELSE /\ call' = [call EXCEPT ![c].pc = "ecu"]
          /\ holder' = c
  /\ UNCHANGED <<boot, cached>>

\* The lock is taken; a token cached for the boot that was read is the answer and the
\* guard is dropped, else the lock is kept over the mint.
Lock(c) ==
  /\ call[c].pc = "lock" /\ holder = None
  /\ IF cached # None /\ cached.boot = call[c].boot
     THEN /\ call' = [call EXCEPT ![c].pc = "answered", ![c].token = cached.token]
          /\ UNCHANGED holder
     ELSE /\ call' = [call EXCEPT ![c].pc = "ecu"]
          /\ holder' = c
  /\ UNCHANGED <<boot, cached>>

\* fetch_rig_ecu_id; the id never changes.
ReadEcu(c) ==
  /\ call[c].pc = "ecu"
  /\ call' = [call EXCEPT ![c].pc = "mint"]
  /\ UNCHANGED <<boot, cached, holder>>

\* The minter signs a token for the boot read earlier; it replaces the cached one.
Mint(c) ==
  /\ call[c].pc = "mint"
  /\ cached' = [boot |-> call[c].boot, token |-> call[c].boot]
  /\ call' = [call EXCEPT ![c].pc = "answered", ![c].token = call[c].boot]
  /\ holder' = None
  /\ UNCHANGED boot

MutFailRetries(c) ==
  /\ call[c].pc \in {"boot", "ecu", "mint"}
  /\ call' = [call EXCEPT ![c].pc = IF @ = "boot" THEN "failed" ELSE "ecu"]
  /\ UNCHANGED <<boot, cached, holder>>

\* A read or the mint fails, as reads do while the rig boots; the guard is dropped.  A
\* request that stalls is one for which no step is taken.
Fail(c) ==
  /\ call[c].pc \in {"boot", "ecu", "mint"}
  /\ call' = [call EXCEPT ![c].pc = "failed"]
  /\ holder' = IF holder = c THEN None ELSE holder
  /\ UNCHANGED <<boot, cached>>

Next ==
  \/ Reboot
  \/ \E c \in Callers :
       Begin(c) \/ ReadBoot(c) \/ Lock(c) \/ ReadEcu(c) \/ Mint(c) \/ Fail(c)

Spec == Init /\ [][Next]_vars

\* Only the mutex is fair: it queues its waiters.  Neither the rig's HTTP client nor
\* the minter's has a timeout, so a request need not end.
Fairness == \A c \in Callers : SF_vars(Lock(c))

FairSpec == Spec /\ Fairness

-----------------------------------------------------------------------------
Call ==
  [pc : {"idle", "boot", "lock", "ecu", "mint", "answered", "failed"},
   boot : Boots \cup {None}, token : Boots \cup {None}, since : Boots \cup {None}]

\* Type invariant; the holder is the one call between lock and answer.
TypeOK ==
  /\ boot \in Boots
  /\ cached \in [boot : Boots, token : Boots] \cup {None}
  /\ holder \in Callers \cup {None}
  /\ call \in [Callers -> Call]
  /\ \A c \in Callers : call[c].pc \in {"ecu", "mint"} <=> holder = c

\* A token that token() returns is bound to a boot that was live during the call:
\* never to one that ended before it, whatever another call cached meanwhile.
TokenFresh ==
  \A c \in Callers : call[c].pc = "answered" =>
    call[c].token \in call[c].since .. boot

\* What a call carries from its first read on: a boot that was live since it began.
\* A cached token is of the boot it is filed under, and that boot has begun.
BootsLive ==
  /\ cached # None => cached.token = cached.boot /\ cached.boot <= boot
  /\ \A c \in Callers :
       /\ call[c].pc # "idle" => call[c].since \in 1 .. boot
       /\ call[c].pc \in {"lock", "ecu", "mint"} => call[c].boot \in call[c].since .. boot

\* The inductive invariant.
Inv == TypeOK /\ TokenFresh /\ BootsLive

\* A call waits for the mutex for ever only behind one request, to the rig or to the
\* minter, that never ends: a read or a mint that fails does not keep the mutex, as
\* token() leaves with `?` and does not try again under it, and a call that is waiting
\* is not passed over by later ones.
WaitsBehindRequest ==
  \A c \in Callers :
    \/ []<>(call[c].pc # "lock")
    \/ \E d \in Callers, request \in {"ecu", "mint"} : <>[](call[d].pc = request)
=============================================================================
