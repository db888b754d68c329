----------------------------- MODULE Capability -----------------------------
(***************************************************************************)
(* From grant to access, for one operator: the scope and epoch contracts   *)
(* with the part of the device registry they meet (AgentKeysScope.sol,     *)
(* K3EpochCounter.sol, SidecarRegistry.sol), the broker's capability mint  *)
(* (handlers/cap.rs) and its use at a worker and its object store          *)
(* (capability_verify.rs, storage_worker.rs, agentkeys-local-store).       *)
(*                                                                         *)
(* A mint and a use read the chain three times each per check, and the     *)
(* chain moves in between.  An actor has one device; the operator's own    *)
(* actor is Owner, whose last device the registry does not let go.  The    *)
(* client proof is the time it was signed at, NoPop when it is left out.   *)
(* Left out of the mint: the role ROLE_CAP_MINT, which every device has    *)
(* here, and clocks apart, a proof signed up to 60 seconds ahead.          *)
(***************************************************************************)
EXTENDS Integers, FiniteSets

CONSTANTS
  Owner, Delegates, Services,
  Ops,        \* of "cred_store", "cred_fetch", "mem_store", "canonical",
              \* "teardown"
  Minters,    \* concurrent mints
  Users,      \* concurrent uses
  MinTtl, Ttl, \* of a capability, the least and the most
  PopAge,     \* CAP_POP_MAX_AGE_SECS
  MaxTime, MaxEpoch, MaxMasters, MaxCaps   \* bounds

Actors == {Owner} \cup Delegates
NoPop == -1
Pops == 0..MaxTime \cup {NoPop}

ASSUME CapabilityAssumption ==
  /\ Owner \notin Delegates /\ Ttl \in Nat \ {0} /\ MinTtl \in 0..Ttl /\ PopAge \in Nat
  /\ MaxTime \in Nat /\ MaxEpoch \in Nat \ {0} /\ MaxMasters \in Nat

Caps == [actor : Actors, op : Ops, svc : Services, epoch : 1..MaxEpoch,
         expires : 0..(MaxTime + Ttl), pop : Pops]
Asks == [session : Actors, actor : Actors, op : Ops, svc : Services,
         pop : Pops]
Checks == {"device", "scope", "epoch"}

VARIABLES
  now,
  master,   \* which of its masters the operator has, 0 for none
  masters,  \* masters so far
  device,   \* actor -> "none", "active" or "revoked"
  scope,    \* delegate -> services granted
  epoch,    \* currentEpoch
  caps,     \* capabilities signed
  mint,     \* mint handler -> its step and request
  use,      \* use -> its step and capability
  missing,  \* history: use -> checks not met since its storage call began
  done      \* history: storage calls carried out

chain == <<master, masters, device, scope, epoch>>
vars == <<now, chain, caps, mint, use, missing, done>>

NoMint == [step |-> "idle"]
NoUse == [step |-> "idle"]
Steps == {"worker device", "worker scope", "worker epoch",
          "device", "scope", "epoch", "call", "wait"}

\* Types, and a capability lives no longer than its time to live.
TypeOK ==
  /\ now \in 0..MaxTime /\ master \in 0..masters /\ masters \in 0..MaxMasters
  /\ device \in [Actors -> {"none", "active", "revoked"}]
  /\ scope \in [Delegates -> SUBSET Services] /\ epoch \in 1..MaxEpoch
  /\ caps \subseteq Caps /\ \A c \in caps : c.expires <= now + Ttl
  /\ mint \in [Minters -> [step : Checks, ask : Asks] \cup {NoMint}]
  /\ use \in [Users -> [step : Steps, cap : Caps] \cup {NoUse}]
  /\ missing \in [Users -> SUBSET Checks]
  /\ done \subseteq [cap : Caps, missing : SUBSET Checks]

Init ==
  /\ now = 0
  /\ master = 0 /\ masters = 0 /\ epoch = 1
  /\ device = [a \in Actors |-> "none"]
  /\ scope = [d \in Delegates |-> {}]
  /\ caps = {} /\ done = {}
  /\ mint = [m \in Minters |-> NoMint]
  /\ use = [u \in Users |-> NoUse] /\ missing = [u \in Users |-> {}]
-----------------------------------------------------------------------------
(* The chain.                                                              *)

isServiceInScope(actor, svc) ==
  svc \in IF actor = Owner THEN Services ELSE scope[actor]

\* What the chain says of a capability now.
Met(check, c) ==
  CASE check = "device" -> device[c.actor] = "active"
    [] check = "scope" -> isServiceInScope(c.actor, c.svc)
    [] check = "epoch" -> epoch = c.epoch

\* Calls under way see each state the chain goes through.
Observed ==
  missing' = [u \in Users |-> IF use[u] = NoUse THEN {}
                ELSE {k \in missing[u] : ~Met(k, use[u].cap)'}]

Chain == UNCHANGED <<now, caps, mint, use, done>> /\ Observed

registerFirstMasterDevice ==
  /\ master = 0 /\ device[Owner] = "none" /\ masters < MaxMasters
  /\ masters' = masters + 1 /\ master' = masters'
  /\ device' = [device EXCEPT ![Owner] = "active"]
  /\ UNCHANGED <<scope, epoch>> /\ Chain

registerDelegate(d) ==
  /\ master # 0 /\ device[d] = "none"
  /\ device' = [device EXCEPT ![d] = "active"]
  /\ UNCHANGED <<master, masters, scope, epoch>> /\ Chain

revokeAgentDevice(d) ==
  /\ device[d] = "active"
  /\ device' = [device EXCEPT ![d] = "revoked"]
  /\ UNCHANGED <<master, masters, scope, epoch>> /\ Chain

\* Deletes every device of the operator; the scope contract is not told.
resetMaster ==
  /\ master # 0
  /\ master' = 0 /\ device' = [a \in Actors |-> "none"]
  /\ UNCHANGED <<masters, scope, epoch>> /\ Chain

setScope(d, services) ==
  /\ master # 0
  /\ scope' = [scope EXCEPT ![d] = services]
  /\ UNCHANGED <<master, masters, device, epoch>> /\ Chain

\* revokeScope leaves what an empty grant leaves.
revokeScope(d) == scope[d] # {} /\ setScope(d, {})

advanceEpoch ==
  /\ epoch < MaxEpoch
  /\ epoch' = epoch + 1
  /\ UNCHANGED <<master, masters, device, scope>> /\ Chain
-----------------------------------------------------------------------------
(* The mint.                                                               *)

session_holder_ok(a) ==
  CASE a.op = "canonical" -> a.session = a.actor
    [] a.op = "teardown" -> a.session = Owner
    [] OTHER -> a.session \in {Owner, a.actor}

enforce_cred_store_master_self(a) == a.op = "cred_store" => a.actor = a.session

\* A proof, when there is one, is not stale.
verify_cap_pop(pop) == pop = NoPop \/ now - pop <= PopAge

MintGoes(m, step) ==
  /\ mint' = [mint EXCEPT ![m] = step]
  /\ UNCHANGED <<now, chain, use, missing, done>>

mint_cap(m, a) ==
  /\ mint[m] = NoMint /\ a.pop <= now
  /\ session_holder_ok(a) /\ enforce_cred_store_master_self(a)
  /\ MintGoes(m, [step |-> "device", ask |-> a])
  /\ UNCHANGED caps

\* The device and then the proof, then the scope.
MintReads(m) ==
  LET a == mint[m].ask
  IN /\ \/ /\ mint[m].step = "device"
           /\ device[a.actor] = "active" /\ verify_cap_pop(a.pop)
           /\ MintGoes(m, [step |-> "scope", ask |-> a])
        \/ /\ mint[m].step = "scope"
           /\ isServiceInScope(a.actor, a.svc)
           /\ MintGoes(m, [step |-> "epoch", ask |-> a])
     /\ UNCHANGED caps

\* Refused by a read, or the chain is not reached.
MintFails(m) == mint[m] # NoMint /\ MintGoes(m, NoMint) /\ UNCHANGED caps

Clamped(ttl) == IF ttl < MinTtl THEN MinTtl ELSE IF ttl > Ttl THEN Ttl ELSE ttl

\* The epoch is read and embedded, the time is the time of signing.
MintSigns(m, ttl) ==
  LET a == mint[m].ask
  IN /\ mint[m] # NoMint /\ mint[m].step = "epoch"
     /\ Cardinality(caps) < MaxCaps
     /\ caps' = caps \cup {[actor |-> a.actor, op |-> a.op, svc |-> a.svc,
                            epoch |-> epoch, expires |-> now + Clamped(ttl), pop |-> a.pop]}
     /\ MintGoes(m, NoMint)
-----------------------------------------------------------------------------
(* The use.                                                                *)

\* check_freshness, and enforce_client_pop, which requires the proof.
Fresh(c) == c.expires > now /\ c.pop # NoPop /\ now - c.pop <= PopAge

\* Mutant of authorize_key: a delegate may write under its own prefix.
authorize_key_own(c) == c.op = "teardown" => c.actor = Owner

\* The store's check of the key, which the workers repeat: credentials are
\* written, and anything is torn down, by the owner alone.
authorize_key(c) == c.op \in {"cred_store", "teardown"} => c.actor = Owner

UseGoes(u, next) ==
  /\ use' = [use EXCEPT ![u] = next]
  /\ UNCHANGED <<now, chain, caps, mint>>

\* verify_authority at the worker's endpoint.
verify_authority(u, c) ==
  /\ use[u] = NoUse /\ c \in caps /\ Fresh(c)
  /\ UseGoes(u, [step |-> "worker device", cap |-> c])
  /\ UNCHANGED <<missing, done>>

WorkerReads(u) ==
  LET c == use[u].cap
  IN /\ \/ /\ use[u].step = "worker device" /\ Met("device", c)
           /\ UseGoes(u, [step |-> "worker scope", cap |-> c])
        \/ /\ use[u].step = "worker scope" /\ Met("scope", c)
           /\ UseGoes(u, [step |-> "worker epoch", cap |-> c])
     /\ UNCHANGED <<missing, done>>

\* A storage call begins: the store repeats every check.
Calls(u) ==
  LET c == use[u].cap
  IN /\ Fresh(c) /\ authorize_key(c)
     /\ UseGoes(u, [step |-> "device", cap |-> c])
     /\ missing' = [missing EXCEPT ![u] = {k \in Checks : ~Met(k, c)}]
     /\ UNCHANGED done

WorkerCalls(u) ==
  /\ \/ use[u].step = "worker epoch" /\ Met("epoch", use[u].cap)
     \/ use[u].step = "wait"
  /\ Calls(u)

\* Mutant of StoreMet: the store leaves the device to the worker.
StoreMetScope(k, c) == k = "device" \/ Met(k, c)

StoreMet(k, c) == Met(k, c)

\* execute: device, scope and epoch, one read each.
StoreReads(u) ==
  LET c == use[u].cap
  IN /\ \/ /\ use[u].step = "device" /\ StoreMet("device", c)
           /\ UseGoes(u, [step |-> "scope", cap |-> c])
        \/ /\ use[u].step = "scope" /\ StoreMet("scope", c)
           /\ UseGoes(u, [step |-> "epoch", cap |-> c])
        \/ /\ use[u].step = "epoch" /\ StoreMet("epoch", c)
           /\ UseGoes(u, [step |-> "call", cap |-> c])
     /\ UNCHANGED <<missing, done>>

\* Under the connection's lock, the time is checked once more.  The worker
\* may go on with another call, as a poll does after its wait.
execute_verified(u, again) ==
  LET c == use[u].cap
  IN /\ use[u].step = "call" /\ Fresh(c)
     /\ done' = done \cup {[cap |-> c, missing |-> missing[u]]}
     /\ UseGoes(u, IF again THEN [step |-> "wait", cap |-> c] ELSE NoUse)
     /\ missing' = [missing EXCEPT ![u] = {}]

UseFails(u) ==
  /\ use[u] # NoUse
  /\ UseGoes(u, NoUse)
  /\ missing' = [missing EXCEPT ![u] = {}]
  /\ UNCHANGED done

Tick ==
  /\ now < MaxTime /\ now' = now + 1
  /\ UNCHANGED <<chain, caps, mint, use, missing, done>>

Next ==
  \/ registerFirstMasterDevice \/ resetMaster \/ advanceEpoch
  \/ \E d \in Delegates :
       \/ registerDelegate(d) \/ revokeAgentDevice(d) \/ revokeScope(d)
       \/ \E S \in SUBSET Services : setScope(d, S)
  \/ \E m \in Minters :
       \/ \E a \in Asks : mint_cap(m, a)
       \/ MintReads(m) \/ MintFails(m)
       \/ \E ttl \in 0..(Ttl + 1) : MintSigns(m, ttl)
  \/ \E u \in Users :
       \/ \E c \in caps : verify_authority(u, c)
       \/ WorkerReads(u) \/ WorkerCalls(u) \/ StoreReads(u)
       \/ \E again \in BOOLEAN : execute_verified(u, again)
       \/ UseFails(u)
  \/ Tick

Spec == Init /\ [][Next]_vars
-----------------------------------------------------------------------------
(* Properties.                                                             *)

\* Whatever the chain does between the three reads of a storage call, each of
\* the device, the grant and the epoch a call was carried out on held at some
\* moment of that call, so that a reader revoked during the wait of a long
\* poll is given nothing afterwards (local-storage.md:60).
AuthorityDuringOperation == \A a \in done : a.missing = {}

\* Credentials are written by the owner's own actor and nothing is torn down
\* but by the owner, whatever the mint signed.
VaultWrittenByOwnerOnly ==
  \A a \in done : a.cap.op \in {"cred_store", "teardown"} => a.cap.actor = Owner

\* Types with no capability beyond its time to live, and credentials written
\* by their owner only, whatever was minted (cap.rs:509, object_store.rs:65).
CapabilityInv == TypeOK /\ VaultWrittenByOwnerOnly
=============================================================================
