-------------------------- MODULE CapabilityProofs --------------------------
(***************************************************************************)
(* Theorems about minting and using capabilities, for any number of        *)
(* delegates, services, concurrent mints and uses, and any bounds.         *)
(*                                                                         *)
(* A storage call reads the chain three times and the chain moves between  *)
(* the reads, so no single state shows all three conditions.  The argument *)
(* is about each of them alone: CallInv says that a condition still        *)
(* missing does not hold now, so that the read that finds it met shows     *)
(* that it is not missing any more, and what was met stays met.            *)
(***************************************************************************)
EXTENDS Capability, TLAPS

StoreSteps == {"device", "scope", "epoch", "call"}

CallInv ==
  \A u \in Users :
    /\ use[u] # NoUse => \A k \in missing[u] : ~Met(k, use[u].cap)
    /\ use[u].step = "scope" => "device" \notin missing[u]
    /\ use[u].step = "epoch" => "device" \notin missing[u] /\ "scope" \notin missing[u]
    /\ use[u].step = "call" => missing[u] = {}
    /\ use[u].step \in StoreSteps => authorize_key(use[u].cap)
    /\ use[u].step \notin StoreSteps => missing[u] = {}

Parts == VaultWrittenByOwnerOnly /\ AuthorityDuringOperation /\ CallInv

IInv == TypeOK /\ Parts

ChainTypes ==
  /\ masters \in 0..MaxMasters /\ master \in 0..masters
  /\ device \in [Actors -> {"none", "active", "revoked"}]
  /\ scope \in [Delegates -> SUBSET Services] /\ epoch \in 1..MaxEpoch

LEMMA InitInv == Init => IInv
<1> SUFFICES ASSUME Init PROVE IInv
  OBVIOUS
<1>1. TypeOK
  BY CapabilityAssumption DEF Init, TypeOK
<1>2. \A u \in Users : use[u] = NoUse /\ use[u].step = "idle"
  BY DEF Init, NoUse
<1>3. CallInv
  BY <1>2 DEF Init, CallInv, StoreSteps
<1> QED BY <1>1, <1>3
        DEF Init, IInv, Parts, VaultWrittenByOwnerOnly, AuthorityDuringOperation

\* What a step of the chain leaves alone, and what it does to calls under way.
LEMMA ChainStep ==
  ASSUME TypeOK, Parts, Chain
  PROVE  Parts' /\ missing' \in [Users -> SUBSET Checks]
<1>1. UNCHANGED <<now, caps, mint, use, done>>
  BY DEF Chain
<1>2. missing' = [u \in Users |-> IF use[u] = NoUse THEN {}
                    ELSE {k \in missing[u] : ~Met(k, use[u].cap)'}]
  BY DEF Chain, Observed
<1>3. missing' \in [Users -> SUBSET Checks]
  BY <1>2 DEF TypeOK
<1>4. \A u \in Users :
        /\ missing'[u] \subseteq missing[u]
        /\ use[u] # NoUse => \A k \in missing'[u] : ~Met(k, use[u].cap)'
  BY <1>2
<1>5. CallInv'
  BY <1>1, <1>4 DEF Parts, CallInv, authorize_key, StoreSteps
<1> QED BY <1>1, <1>3, <1>5
        DEF Parts, VaultWrittenByOwnerOnly, AuthorityDuringOperation

LEMMA ChainActions ==
  ASSUME IInv,
         \/ registerFirstMasterDevice \/ resetMaster \/ advanceEpoch
         \/ \E d \in Delegates :
              \/ registerDelegate(d) \/ revokeAgentDevice(d) \/ revokeScope(d)
              \/ \E S \in SUBSET Services : setScope(d, S)
  PROVE  IInv'
<1>0. TypeOK /\ Parts
  BY DEF IInv
<1>1. Chain
  BY DEF registerFirstMasterDevice, resetMaster, advanceEpoch, registerDelegate,
         revokeAgentDevice, revokeScope, setScope
<1>2. /\ Parts' /\ missing' \in [Users -> SUBSET Checks]
      /\ UNCHANGED <<now, caps, mint, use, done>>
  BY <1>0, <1>1, ChainStep DEF Chain
<1>3. ChainTypes'
  <2>1. CASE registerFirstMasterDevice
    <3>1. masters' \in 0..MaxMasters /\ master' \in 0..masters'
      BY <1>0, <2>1, CapabilityAssumption DEF registerFirstMasterDevice, TypeOK
    <3>2. /\ device' \in [Actors -> {"none", "active", "revoked"}]
          /\ UNCHANGED <<scope, epoch>>
      BY <1>0, <2>1 DEF registerFirstMasterDevice, TypeOK
    <3> QED BY <1>0, <3>1, <3>2 DEF TypeOK, ChainTypes
  <2>2. CASE resetMaster
    BY <1>0, <2>2, CapabilityAssumption DEF resetMaster, TypeOK, ChainTypes
  <2>3. CASE advanceEpoch
    BY <1>0, <2>3, CapabilityAssumption DEF advanceEpoch, TypeOK, ChainTypes
  <2>4. ASSUME NEW d \in Delegates, registerDelegate(d) \/ revokeAgentDevice(d)
        PROVE  ChainTypes'
    BY <1>0, <2>4 DEF registerDelegate, revokeAgentDevice, TypeOK, ChainTypes
  <2>5. ASSUME NEW d \in Delegates, NEW S \in SUBSET Services, setScope(d, S)
        PROVE  ChainTypes'
    BY <1>0, <2>5 DEF setScope, TypeOK, ChainTypes
  <2> QED BY <2>1, <2>2, <2>3, <2>4, <2>5 DEF revokeScope
<1> QED BY <1>0, <1>2, <1>3 DEF IInv, TypeOK, ChainTypes

\* A mint handler changes the mint and, when it signs, the capabilities.
LEMMA MintStep ==
  ASSUME IInv, NEW m \in Minters, NEW h \in [step : Checks, ask : Asks] \cup {NoMint},
         MintGoes(m, h), caps' \subseteq Caps,
         \A c \in caps' : c.expires <= now + Ttl
  PROVE  IInv'
<1>0. TypeOK /\ Parts
  BY DEF IInv
<1>1. /\ mint' = [mint EXCEPT ![m] = h]
      /\ UNCHANGED <<now, master, masters, device, scope, epoch, use, missing, done>>
  BY DEF MintGoes, chain
<1>2. TypeOK'
  BY <1>0, <1>1 DEF TypeOK
<1>3. \A k, c : Met(k, c)' = Met(k, c)
  BY <1>1 DEF Met, isServiceInScope
<1>4. Parts'
  BY <1>0, <1>1, <1>3 DEF Parts, VaultWrittenByOwnerOnly,
     AuthorityDuringOperation, CallInv, authorize_key, StoreSteps
<1> QED BY <1>2, <1>4 DEF IInv

LEMMA MintActions ==
  ASSUME IInv, NEW m \in Minters,
         \/ \E a \in Asks : mint_cap(m, a)
         \/ MintReads(m) \/ MintFails(m)
         \/ \E ttl \in 0..(Ttl + 1) : MintSigns(m, ttl)
  PROVE  IInv'
<1>0. TypeOK
  BY DEF IInv
<1>1. ASSUME NEW a \in Asks, mint_cap(m, a)
      PROVE  IInv'
  <2>1. [step |-> "device", ask |-> a] \in [step : Checks, ask : Asks]
    BY DEF Checks
  <2> QED BY <1>0, <1>1, <2>1, MintStep DEF mint_cap, TypeOK
<1>2. mint[m] # NoMint => mint[m] \in [step : Checks, ask : Asks]
  BY <1>0 DEF TypeOK
<1>3. CASE MintReads(m)
  <2>1. mint[m] # NoMint
    BY <1>3 DEF MintReads, NoMint
  <2>2. /\ [step |-> "scope", ask |-> mint[m].ask] \in [step : Checks, ask : Asks]
        /\ [step |-> "epoch", ask |-> mint[m].ask] \in [step : Checks, ask : Asks]
    BY <1>2, <2>1 DEF Checks
  <2> QED BY <1>0, <1>3, <2>2, MintStep DEF MintReads, TypeOK
<1>4. CASE MintFails(m)
  BY <1>0, <1>4, MintStep DEF MintFails, TypeOK
<1>5. ASSUME NEW ttl \in 0..(Ttl + 1), MintSigns(m, ttl)
      PROVE  IInv'
  <2> DEFINE a == mint[m].ask
             new == [actor |-> a.actor, op |-> a.op, svc |-> a.svc, epoch |-> epoch,
                     expires |-> now + Clamped(ttl), pop |-> a.pop]
  <2>1. /\ mint[m] # NoMint /\ caps' = caps \cup {new} /\ MintGoes(m, NoMint)
    BY <1>5 DEF MintSigns
  <2>2. a \in Asks
    BY <1>2, <2>1
  <2>3. Clamped(ttl) \in 0..Ttl
    BY CapabilityAssumption DEF Clamped
  <2>4. now + Clamped(ttl) \in 0..(MaxTime + Ttl) /\ now + Clamped(ttl) <= now + Ttl
    BY <1>0, <2>3, CapabilityAssumption DEF TypeOK
  <2>5. new \in Caps /\ new.expires <= now + Ttl
    BY <1>0, <2>2, <2>4 DEF Caps, Asks, TypeOK
  <2> QED BY <1>0, <2>1, <2>5, MintStep DEF TypeOK
<1> QED BY <1>1, <1>3, <1>4, <1>5

\* CallInv of one use, of its next record and the checks it then misses.
CallFits(x, lacks) ==
  /\ x # NoUse => \A k \in lacks : ~Met(k, x.cap)
  /\ x.step = "scope" => "device" \notin lacks
  /\ x.step = "epoch" => "device" \notin lacks /\ "scope" \notin lacks
  /\ x.step = "call" => lacks = {}
  /\ x.step \in StoreSteps => authorize_key(x.cap)
  /\ x.step \notin StoreSteps => lacks = {}

UseRecords == [step : Steps, cap : Caps] \cup {NoUse}

LEMMA CallFitsAll == CallInv <=> \A u \in Users : CallFits(use[u], missing[u])
BY DEF CallInv, CallFits

\* A use changes itself and what it misses; the others see nothing.
LEMMA UseStep ==
  ASSUME IInv, NEW u \in Users, NEW next \in UseRecords, NEW lacks \in SUBSET Checks,
         UseGoes(u, next), missing' = [missing EXCEPT ![u] = lacks],
         done' \subseteq [cap : Caps, missing : SUBSET Checks],
         (VaultWrittenByOwnerOnly /\ AuthorityDuringOperation)',
         CallFits(next, lacks)
  PROVE  IInv'
<1>0. TypeOK /\ Parts
  BY DEF IInv
<1>1. /\ use' = [use EXCEPT ![u] = next]
      /\ UNCHANGED <<now, master, masters, device, scope, epoch, caps, mint>>
  BY DEF UseGoes, chain
<1>2. TypeOK'
  BY <1>0, <1>1 DEF TypeOK, UseRecords
<1>3. \A k, c : Met(k, c)' = Met(k, c)
  BY <1>1 DEF Met, isServiceInScope
<1>4. \A v \in Users : /\ use'[v] = IF v = u THEN next ELSE use[v]
                       /\ missing'[v] = IF v = u THEN lacks ELSE missing[v]
  BY <1>0, <1>1 DEF TypeOK
<1>5. \A v \in Users : CallFits(use[v], missing[v])
  BY <1>0, CallFitsAll DEF Parts
<1>6. \A v \in Users : CallFits(use'[v], missing'[v])
  BY <1>4, <1>5
<1>7. CallInv'
  BY <1>3, <1>6 DEF CallInv, CallFits, authorize_key, StoreSteps
<1> QED BY <1>2, <1>7 DEF IInv, Parts

LEMMA UseActions ==
  ASSUME IInv, NEW u \in Users,
         \/ \E c \in caps : verify_authority(u, c)
         \/ WorkerReads(u) \/ WorkerCalls(u) \/ StoreReads(u)
         \/ \E again \in BOOLEAN : execute_verified(u, again)
         \/ UseFails(u)
  PROVE  IInv'
<1> DEFINE cap == use[u].cap
           lacks == missing[u]
           At(step, c) == [step |-> step, cap |-> c]
<1>0. TypeOK /\ Parts
  BY DEF IInv
<1>1. /\ use[u] \in UseRecords /\ lacks \in SUBSET Checks
      /\ missing = [missing EXCEPT ![u] = lacks]
      /\ done \subseteq [cap : Caps, missing : SUBSET Checks]
  BY <1>0 DEF TypeOK, UseRecords
<1>2. VaultWrittenByOwnerOnly /\ AuthorityDuringOperation /\ CallFits(use[u], lacks)
  BY <1>0, CallFitsAll DEF Parts
<1>3. UNCHANGED done => (VaultWrittenByOwnerOnly /\ AuthorityDuringOperation)'
  BY <1>2 DEF VaultWrittenByOwnerOnly, AuthorityDuringOperation
<1>4. use[u].step # "idle" => use[u] # NoUse /\ cap \in Caps
  <2>1. NoUse.step = "idle"
    BY DEF NoUse
  <2>2. use[u] # NoUse => cap \in Caps
    BY <1>1 DEF UseRecords
  <2> QED BY <2>1, <2>2
<1>5. \A step \in Steps, c \in Caps :
        At(step, c) \in UseRecords /\ At(step, c) # NoUse
  BY DEF UseRecords, NoUse, Steps
<1>6. CallFits(NoUse, {}) /\ NoUse \in UseRecords
  BY DEF CallFits, NoUse, StoreSteps, UseRecords
<1>7. ASSUME NEW step \in Steps \ StoreSteps, NEW c \in Caps, lacks = {},
             UseGoes(u, At(step, c)), UNCHANGED <<missing, done>>
      PROVE  IInv'
  <2>1. CallFits(At(step, c), {})
    BY <1>7 DEF CallFits, StoreSteps
  <2> QED BY <1>1, <1>3, <1>5, <1>7, <2>1, UseStep
<1>8. ASSUME NEW c \in caps, verify_authority(u, c)
      PROVE  IInv'
  <2>1. c \in Caps /\ use[u] = NoUse
    BY <1>0, <1>8 DEF TypeOK, verify_authority
  <2>2. lacks = {}
    BY <1>2, <2>1 DEF CallFits, NoUse, StoreSteps
  <2>3. "worker device" \in Steps \ StoreSteps
    BY DEF Steps, StoreSteps
  <2> QED BY <1>7, <1>8, <2>1, <2>2, <2>3 DEF verify_authority
<1>9. CASE WorkerReads(u)
  <2>1. use[u].step \in {"worker device", "worker scope"}
    BY <1>9 DEF WorkerReads
  <2>2. use[u] # NoUse /\ cap \in Caps
    BY <2>1, <1>4
  <2>3. lacks = {}
    BY <1>2, <2>1 DEF CallFits, StoreSteps
  <2>4. "worker scope" \in Steps \ StoreSteps /\ "worker epoch" \in Steps \ StoreSteps
    BY DEF Steps, StoreSteps
  <2> QED BY <1>7, <1>9, <2>2, <2>3, <2>4 DEF WorkerReads
<1>10. CASE WorkerCalls(u)
  <2>1. use[u].step \in {"worker epoch", "wait"} /\ Calls(u)
    BY <1>10 DEF WorkerCalls
  <2>2. use[u] # NoUse /\ cap \in Caps
    BY <2>1, <1>4
  <2> DEFINE new == {k \in Checks : ~Met(k, cap)}
  <2>3. /\ authorize_key(cap) /\ UseGoes(u, At("device", cap))
        /\ missing' = [missing EXCEPT ![u] = new] /\ UNCHANGED done
    BY <2>1 DEF Calls
  <2>4. CallFits(At("device", cap), new)
    BY <2>3 DEF CallFits, StoreSteps
  <2>5. new \in SUBSET Checks /\ "device" \in Steps
    BY DEF Steps
  <2>6. At("device", cap) \in UseRecords
    BY <1>5, <2>2, <2>5
  <2> HIDE DEF new, At
  <2> QED BY <1>1, <1>3, <2>3, <2>4, <2>5, <2>6, UseStep
\* A read that finds its condition met shows that it is not missing.
<1>11. CASE StoreReads(u)
  <2>1. /\ use[u].step \in {"device", "scope", "epoch"}
        /\ UNCHANGED <<missing, done>>
    BY <1>11 DEF StoreReads
  <2>2. use[u] # NoUse /\ cap \in Caps
    BY <2>1, <1>4
  <2>3. authorize_key(cap) /\ \A k \in lacks : ~Met(k, cap)
    BY <1>2, <2>1, <2>2 DEF CallFits, StoreSteps
  <2>4. PICK step \in {"scope", "epoch", "call"} :
          /\ UseGoes(u, At(step, cap))
          /\ step = "scope" => use[u].step = "device" /\ Met("device", cap)
          /\ step = "epoch" => use[u].step = "scope" /\ Met("scope", cap)
          /\ step = "call" => use[u].step = "epoch" /\ Met("epoch", cap)
    BY <1>11 DEF StoreReads, StoreMet
  <2>5. CallFits(At(step, cap), lacks)
    <3>1. step = "scope" => "device" \notin lacks
      BY <2>3, <2>4
    <3>2. step = "epoch" => "device" \notin lacks /\ "scope" \notin lacks
      BY <1>2, <2>3, <2>4 DEF CallFits
    <3>3. step = "call" => lacks = {}
      BY <1>1, <1>2, <2>3, <2>4 DEF CallFits, Checks
    <3> QED BY <2>3, <2>4, <3>1, <3>2, <3>3 DEF CallFits, StoreSteps
  <2>6. At(step, cap) \in UseRecords
    BY <1>5, <2>2, <2>4 DEF Steps
  <2> HIDE DEF At
  <2> QED BY <1>1, <1>3, <2>1, <2>4, <2>5, <2>6, UseStep
<1>12. ASSUME NEW again \in BOOLEAN, execute_verified(u, again)
       PROVE  IInv'
  <2> DEFINE next == IF again THEN At("wait", cap) ELSE NoUse
             new == [cap |-> cap, missing |-> lacks]
  <2>1. /\ use[u].step = "call" /\ done' = done \cup {new}
        /\ UseGoes(u, next) /\ missing' = [missing EXCEPT ![u] = {}]
    BY <1>12 DEF execute_verified
  <2>2. use[u] # NoUse /\ cap \in Caps
    BY <2>1, <1>4
  <2>3. lacks = {} /\ authorize_key(cap)
    BY <1>2, <2>1 DEF CallFits, StoreSteps
  <2>4. new \in [cap : Caps, missing : SUBSET Checks]
    BY <1>1, <2>2
  <2>5. (VaultWrittenByOwnerOnly /\ AuthorityDuringOperation)'
    BY <1>2, <2>1, <2>3
       DEF VaultWrittenByOwnerOnly, AuthorityDuringOperation, authorize_key
  <2>6. CallFits(next, {}) /\ next \in UseRecords
    <3>1. At("wait", cap) \in UseRecords
      BY <1>5, <2>2 DEF Steps
    <3>2. CallFits(At("wait", cap), {})
      BY DEF CallFits, StoreSteps
    <3> HIDE DEF At
    <3> QED BY <1>6, <3>1, <3>2
  <2>7. done' \subseteq [cap : Caps, missing : SUBSET Checks]
    BY <1>1, <2>1, <2>4
  <2> HIDE DEF next, new
  <2> QED BY <2>1, <2>5, <2>6, <2>7, UseStep
<1>13. CASE UseFails(u)
  BY <1>1, <1>3, <1>6, <1>13, UseStep DEF UseFails
<1> QED BY <1>8, <1>9, <1>10, <1>11, <1>12, <1>13

\* Time alone lengthens what a capability may still live.
LEMMA TickInv == ASSUME IInv, Tick PROVE IInv'
<1>0. TypeOK /\ Parts
  BY DEF IInv
<1>1. /\ now' = now + 1 /\ now < MaxTime
      /\ UNCHANGED <<master, masters, device, scope, epoch, caps, mint, use,
                      missing, done>>
  BY DEF Tick, chain
<1>2. now \in 0..MaxTime /\ now' \in 0..MaxTime
  BY <1>0, <1>1, CapabilityAssumption DEF TypeOK
<1>3. \A c \in caps : c.expires <= now' + Ttl
  <2> SUFFICES ASSUME NEW c \in caps PROVE c.expires <= now' + Ttl
    OBVIOUS
  <2>1. c \in Caps /\ c.expires <= now + Ttl
    BY <1>0 DEF TypeOK
  <2>2. c.expires \in 0..(MaxTime + Ttl)
    BY <2>1 DEF Caps
  <2> QED BY <1>1, <1>2, <2>1, <2>2, CapabilityAssumption
<1>4. TypeOK'
  BY <1>0, <1>1, <1>2, <1>3 DEF TypeOK
<1>5. \A k, c : Met(k, c)' = Met(k, c)
  BY <1>1 DEF Met, isServiceInScope
<1>6. Parts'
  BY <1>0, <1>1, <1>5 DEF Parts, VaultWrittenByOwnerOnly,
     AuthorityDuringOperation, CallInv, authorize_key, StoreSteps
<1> QED BY <1>4, <1>6 DEF IInv

LEMMA NextInv == IInv /\ [Next]_vars => IInv'
<1> SUFFICES ASSUME IInv, [Next]_vars PROVE IInv'
  OBVIOUS
<1>1. CASE Next
  BY <1>1, ChainActions, MintActions, UseActions, TickInv DEF Next
<1>2. CASE UNCHANGED vars
  <2>1. /\ UNCHANGED <<now, master, masters, device, scope, epoch, caps, mint>>
        /\ UNCHANGED <<use, missing, done>>
    BY <1>2 DEF vars, chain
  <2>2. TypeOK'
    BY <2>1 DEF IInv, TypeOK
  <2>3. \A k, c : Met(k, c)' = Met(k, c)
    BY <2>1 DEF Met, isServiceInScope
  <2> QED BY <2>1, <2>2, <2>3 DEF IInv, Parts, VaultWrittenByOwnerOnly,
          AuthorityDuringOperation, CallInv, authorize_key, StoreSteps
<1> QED BY <1>1, <1>2

\* The invariant the two theorems below are read from.
LEMMA Inductive == Spec => []IInv
BY InitInv, NextInv, PTL DEF Spec

\* A capability never outlives its time to live (the clamp of cap.rs), and the
\* store writes credentials and tears down for the owner's actor alone, whatever
\* the mint signed (authorize_key in object_store.rs).
THEOREM VaultSafe == Spec => []CapabilityInv
<1>1. IInv => CapabilityInv
  BY DEF IInv, Parts, CapabilityInv
<1> QED BY <1>1, Inductive, PTL

\* Of every storage call the store carried out, the device, the grant and the
\* epoch each held at some moment of that call, whatever the chain did between
\* the three reads of execute and during the worker's waits.
THEOREM AuthorityHeld == Spec => []AuthorityDuringOperation
<1>1. IInv => AuthorityDuringOperation
  BY DEF IInv, Parts
<1> QED BY <1>1, Inductive, PTL
=============================================================================
