--------------------------- MODULE SidecarRegistry ---------------------------
(***************************************************************************)
(* The on-chain device registry (crates/agentkeys-chain/src/               *)
(* SidecarRegistry.sol): which device keys exist, which operator each one  *)
(* belongs to, which account is the operator's master, the quorum that may *)
(* revoke a master, and how many delegates an operator may have.           *)
(*                                                                         *)
(* Every external function is one action: a transaction is atomic and a    *)
(* revert changes nothing, so a call that would revert is a disabled       *)
(* action.  K11 assertions are made by authenticators outside the chain    *)
(* (SignChallenge) and stay usable by whoever holds them, so that old ones *)
(* may be submitted again at any time.                                     *)
(***************************************************************************)
EXTENDS Integers, Sequences, FiniteSets

CONSTANTS
  Operators,    \* operator omnis
  Devices,      \* device key hashes; each device carries its own passkey
  Actors,       \* actor omnis a row may name
  Accounts,     \* contract accounts that may call the registry
  NoAccount,    \* address(0)
  NoOperator,   \* operatorOmni of an absent row (registeredAt = 0)
  NoActor,      \* actorOmni of an absent row
  RoleSets,     \* the role bitfields a master may be registered with
  CountingKeys, \* devices whose authenticator increments its signCount
  Allowances,   \* values the owner may set as the default allowance (uint16)
  Overrides,    \* values the owner may set for one operator (uint16)
  MaxNonce,     \* bound: K11-gated mutations explored per operator
  MaxSigned,    \* bound: assertions in somebody's hands at a time
  MaxSignCount  \* bound: assertions a counting authenticator makes

U8Max == 255
U16Max == 65535

ASSUME RegistryAssumption ==
  /\ IsFiniteSet(Devices)
  /\ NoAccount \notin Accounts
  /\ NoOperator \notin Operators
  /\ NoActor \notin Actors
  /\ CountingKeys \subseteq Devices
  /\ RoleSets \subseteq SUBSET {"CAP_MINT", "RECOVERY", "SCOPE_MGMT"}
  /\ Allowances \subseteq 0..U16Max /\ Overrides \subseteq 0..U16Max
  /\ MaxNonce \in Nat /\ MaxSigned \in Nat /\ MaxSignCount \in Nat

VARIABLES
  devices,               \* deviceKeyHash -> DeviceEntry
  operatorDevices,       \* operatorOmni -> the list of its device key hashes
  operatorMasterWallet,  \* operatorOmni -> master account
  recoveryThreshold,     \* operatorOmni -> assertions needed to revoke a master
  operatorNonce,         \* operatorOmni -> nonce in the next challenge
  defaultAgentSlotAllowance,
  agentSlotOverride,     \* operatorOmni -> {} or {total}
  agentSlotsUsed,        \* operatorOmni -> delegates counted by the contract
  signed,                \* assertions made by authenticators and still held
  signCounter,           \* each authenticator's own counter
  accepted,              \* history: held assertions accepted since the last reset
  replayed               \* history: the ones it accepted again

slotVars == <<defaultAgentSlotAllowance, agentSlotOverride, agentSlotsUsed>>
quorumVars == <<recoveryThreshold, operatorNonce>>
k11Vars == <<signed, signCounter, accepted, replayed>>
vars == <<devices, operatorDevices, operatorMasterWallet, quorumVars,
          slotVars, k11Vars>>

Roles == {"CAP_MINT", "RECOVERY", "SCOPE_MGMT"}
Tiers == {"MASTER", "AGENT", "DEVICE"}

DeviceEntry ==
  [operatorOmni : Operators, actorOmni : Actors, tier : Tiers,
   roles : SUBSET Roles, lastSignCount : Nat, revoked : BOOLEAN]

NoEntry ==
  [operatorOmni |-> NoOperator, actorOmni |-> NoActor, tier |-> "DEVICE",
   roles |-> {}, lastSignCount |-> 0, revoked |-> FALSE]

\* What a challenge commits to: the operation, its parameters, the nonce.
Challenges ==
       [op : {"REGISTER_2ND_MASTER"}, operatorOmni : Operators,
        target : Devices, roles : RoleSets, nonce : 0..MaxNonce]
  \cup [op : {"REVOKE_MASTER"}, operatorOmni : Operators,
        target : Devices, nonce : 0..MaxNonce]
  \cup [op : {"SET_THRESHOLD"}, operatorOmni : Operators,
        threshold : 1..Cardinality(Devices), nonce : 0..MaxNonce]

Assertions ==
  [device : Devices, challenge : Challenges, signCount : 0..MaxSignCount]

TypeOK ==
  /\ devices \in [Devices -> DeviceEntry \cup {NoEntry}]
  /\ operatorDevices \in [Operators -> Seq(Devices)]
  /\ operatorMasterWallet \in [Operators -> Accounts \cup {NoAccount}]
  /\ recoveryThreshold \in [Operators -> 0..U8Max]
  /\ operatorNonce \in [Operators -> Nat]
  /\ defaultAgentSlotAllowance \in 0..U16Max
  /\ agentSlotOverride \in [Operators -> SUBSET (0..U16Max)]
  /\ agentSlotsUsed \in [Operators -> 0..U16Max]
  /\ signed \in SUBSET Assertions
  /\ signCounter \in [Devices -> 0..MaxSignCount]
  /\ accepted \subseteq signed
  /\ replayed \subseteq signed
-----------------------------------------------------------------------------
\* Mutant of Registered: a revoked row no longer blocks its key hash.
RegisteredUnlessRevoked(d) ==
  devices[d].operatorOmni # NoOperator /\ ~devices[d].revoked

Registered(d) == devices[d].operatorOmni # NoOperator

isActive(d) == Registered(d) /\ ~devices[d].revoked

\* Sequence positions of the operator's list that hold a live recovery master.
RecoveryPositions(o) ==
  {i \in DOMAIN operatorDevices[o] :
     LET d == operatorDevices[o][i] IN
       /\ isActive(d)
       /\ devices[d].tier = "MASTER"
       /\ "RECOVERY" \in devices[d].roles}

activeRecoveryMasterCount(o) ==
  LET n == Cardinality(RecoveryPositions(o)) IN IF n > U8Max THEN U8Max ELSE n

agentSlotAllowance(o) ==
  IF agentSlotOverride[o] # {}
  THEN CHOOSE t \in agentSlotOverride[o] : TRUE
  ELSE defaultAgentSlotAllowance

MasterEntry(o, actor, roles) ==
  [operatorOmni |-> o, actorOmni |-> actor, tier |-> "MASTER",
   roles |-> roles, lastSignCount |-> 0, revoked |-> FALSE]

K10Entry(o, actor, tier) ==
  [operatorOmni |-> o, actorOmni |-> actor, tier |-> tier,
   roles |-> {"CAP_MINT"}, lastSignCount |-> 0, revoked |-> FALSE]

\* _verifyK11One: the attesting device is a live master of this operator with
\* the role, the counter is not stale, the signature is over this challenge.
ValidK11(a, challenge, o) ==
  LET e == devices[a.device] IN
    /\ isActive(a.device)
    /\ e.tier = "MASTER"
    /\ e.operatorOmni = o
    /\ "RECOVERY" \in e.roles
    /\ e.lastSignCount = 0 \/ a.signCount > e.lastSignCount
    /\ a.challenge = challenge

\* The device rows once each assertion of A has stored its signCount.
WithSignCounts(A) ==
  [d \in Devices |->
     IF \E a \in A : a.device = d
     THEN [devices[d] EXCEPT !.lastSignCount =
             (CHOOSE a \in A : a.device = d).signCount]
     ELSE devices[d]]

\* Mutant of ConsumeNonce: the nonce does not move on.
KeepNonce(o) == UNCHANGED operatorNonce

ConsumeNonce(o) == operatorNonce' = [operatorNonce EXCEPT ![o] = @ + 1]

\* _verifyQuorum: distinct attesting devices, every assertion valid, at least
\* threshold of them; the operator nonce moves on.
VerifyQuorum(A, challenge, o, threshold) ==
  /\ A \subseteq signed
  /\ \A a, b \in A : a.device = b.device => a = b
  /\ \A a \in A : ValidK11(a, challenge, o)
  /\ Cardinality(A) >= threshold
  /\ ConsumeNonce(o)
  /\ accepted' = accepted \cup A
  /\ replayed' = replayed \cup (A \cap accepted)
-----------------------------------------------------------------------------
Init ==
  /\ devices = [d \in Devices |-> NoEntry]
  /\ operatorDevices = [o \in Operators |-> <<>>]
  /\ operatorMasterWallet = [o \in Operators |-> NoAccount]
  /\ recoveryThreshold = [o \in Operators |-> 0]
  /\ operatorNonce = [o \in Operators |-> 0]
  /\ defaultAgentSlotAllowance \in Allowances
  /\ agentSlotOverride = [o \in Operators |-> {}]
  /\ agentSlotsUsed = [o \in Operators |-> 0]
  /\ signed = {}
  /\ signCounter = [d \in Devices |-> 0]
  /\ accepted = {}
  /\ replayed = {}

\* An authenticator signs a challenge built from the current chain state, for
\* a live recovery master of the operator.  External: the passkey ceremony runs
\* in the owner's browser or CLI, long before or after other transactions.
SignChallenge(d, c) ==
  LET count == IF d \in CountingKeys THEN signCounter[d] + 1 ELSE 0
      a == [device |-> d, challenge |-> c, signCount |-> count] IN
  /\ Cardinality(signed) < MaxSigned
  /\ isActive(d)
  /\ devices[d].tier = "MASTER" /\ "RECOVERY" \in devices[d].roles
  /\ devices[d].operatorOmni = c.operatorOmni
  /\ c.nonce = operatorNonce[c.operatorOmni]
  /\ count <= MaxSignCount
  /\ a \notin signed
  /\ signed' = signed \cup {a}
  /\ signCounter' = [signCounter EXCEPT ![d] = count]
  /\ UNCHANGED <<devices, operatorDevices, operatorMasterWallet, quorumVars,
                 slotVars, accepted, replayed>>

\* External: nobody holds the assertion any more.
ForgetAssertion(a) ==
  /\ signed' = signed \ {a}
  /\ accepted' = accepted \ {a}
  /\ replayed' = replayed \ {a}
  /\ UNCHANGED <<devices, operatorDevices, operatorMasterWallet, quorumVars,
                 slotVars, signCounter>>

registerFirstMasterDevice(sender, d, o, actor, roles) ==
  /\ ~Registered(d)
  /\ operatorMasterWallet[o] = NoAccount
  /\ operatorMasterWallet' = [operatorMasterWallet EXCEPT ![o] = sender]
  /\ recoveryThreshold' = [recoveryThreshold EXCEPT ![o] = 1]
  /\ devices' = [devices EXCEPT ![d] = MasterEntry(o, actor, roles)]
  /\ operatorDevices' = [operatorDevices EXCEPT ![o] = Append(@, d)]
  /\ UNCHANGED <<operatorNonce, slotVars, k11Vars>>

registerAdditionalMasterDevice(sender, d, o, actor, roles) ==
  /\ ~Registered(d)
  /\ operatorMasterWallet[o] # NoAccount
  /\ sender = operatorMasterWallet[o]
  /\ operatorNonce[o] < MaxNonce
  /\ \E a \in signed :
       /\ VerifyQuorum({a}, [op |-> "REGISTER_2ND_MASTER", operatorOmni |-> o,
                             target |-> d, roles |-> roles,
                             nonce |-> operatorNonce[o]], o, 1)
       /\ devices' = [WithSignCounts({a}) EXCEPT ![d] =
                        MasterEntry(o, actor, roles)]
  /\ operatorDevices' = [operatorDevices EXCEPT ![o] = Append(@, d)]
  /\ UNCHANGED <<operatorMasterWallet, recoveryThreshold, slotVars, signed,
                 signCounter>>

\* _registerK10Actor
RegisterK10Actor(sender, d, o, actor, tier) ==
  /\ ~Registered(d)
  /\ operatorMasterWallet[o] # NoAccount
  /\ sender = operatorMasterWallet[o]
  /\ devices' = [devices EXCEPT ![d] = K10Entry(o, actor, tier)]
  /\ operatorDevices' = [operatorDevices EXCEPT ![o] = Append(@, d)]
  /\ UNCHANGED <<operatorMasterWallet, quorumVars, k11Vars>>

registerAgentDevice(sender, d, o, actor) ==
  /\ RegisterK10Actor(sender, d, o, actor, "DEVICE")
  /\ UNCHANGED slotVars

registerDelegate(sender, d, o, actor) ==
  /\ agentSlotsUsed[o] < agentSlotAllowance(o)
  /\ RegisterK10Actor(sender, d, o, actor, "AGENT")
  /\ agentSlotsUsed' = [agentSlotsUsed EXCEPT ![o] = @ + 1]
  /\ UNCHANGED <<defaultAgentSlotAllowance, agentSlotOverride>>

\* Mutant of SlotsAfterRevoke: a device frees a slot too.
SlotsAfterRevokeAnyTier(d) ==
  LET o == devices[d].operatorOmni IN
  IF agentSlotsUsed[o] > 0 THEN [agentSlotsUsed EXCEPT ![o] = @ - 1]
                           ELSE agentSlotsUsed

SlotsAfterRevoke(d) ==
  LET o == devices[d].operatorOmni IN
  IF devices[d].tier = "AGENT" /\ agentSlotsUsed[o] > 0
  THEN [agentSlotsUsed EXCEPT ![o] = @ - 1]
  ELSE agentSlotsUsed

revokeAgentDevice(sender, d) ==
  LET o == devices[d].operatorOmni IN
  /\ isActive(d)
  /\ devices[d].tier \in {"AGENT", "DEVICE"}
  /\ sender = operatorMasterWallet[o]
  /\ devices' = [devices EXCEPT ![d].revoked = TRUE]
  /\ agentSlotsUsed' = SlotsAfterRevoke(d)
  /\ UNCHANGED <<operatorDevices, operatorMasterWallet, quorumVars, k11Vars,
                 defaultAgentSlotAllowance, agentSlotOverride>>

\* Mutant of MinRequired: the threshold is not looked at.
JustOne(o) == 1

\* The masters that must stay live after a revocation.
MinRequired(o) == IF recoveryThreshold[o] > 1 THEN recoveryThreshold[o] ELSE 1

\* Mutant of RemainingAfter: the master being revoked is still counted.
RemainingBefore(o) == activeRecoveryMasterCount(o)

RemainingAfter(o) == activeRecoveryMasterCount(o) - 1

revokeMasterDevice(sender, d, A) ==
  LET o == devices[d].operatorOmni IN
  /\ isActive(d)
  /\ devices[d].tier = "MASTER"
  /\ sender = operatorMasterWallet[o]
  /\ RemainingAfter(o) >= MinRequired(o)
  /\ operatorNonce[o] < MaxNonce
  /\ VerifyQuorum(A, [op |-> "REVOKE_MASTER", operatorOmni |-> o, target |-> d,
                      nonce |-> operatorNonce[o]], o, MinRequired(o))
  /\ devices' = [WithSignCounts(A) EXCEPT ![d].revoked = TRUE]
  /\ UNCHANGED <<operatorDevices, operatorMasterWallet, recoveryThreshold,
                 slotVars, signed, signCounter>>

setRecoveryThreshold(sender, o, n) ==
  /\ operatorMasterWallet[o] # NoAccount
  /\ sender = operatorMasterWallet[o]
  /\ n # 0
  /\ n <= activeRecoveryMasterCount(o)
  /\ operatorNonce[o] < MaxNonce
  /\ \E a \in signed :
       /\ VerifyQuorum({a}, [op |-> "SET_THRESHOLD", operatorOmni |-> o,
                             threshold |-> n, nonce |-> operatorNonce[o]], o, 1)
       /\ devices' = WithSignCounts({a})
  /\ recoveryThreshold' = [recoveryThreshold EXCEPT ![o] = n]
  /\ UNCHANGED <<operatorDevices, operatorMasterWallet, slotVars, signed, signCounter>>

ListedDevices(o) == {operatorDevices[o][i] : i \in DOMAIN operatorDevices[o]}

\* Mutant of RowsToDelete: a reset passes over the revoked rows.
ListedLiveDevices(o) == {d \in ListedDevices(o) : ~devices[d].revoked}

RowsToDelete(o) == ListedDevices(o)

\* Owner (deployer) functions: the caller check is the action itself.
resetMaster(o) ==
  /\ devices' = [d \in Devices |->
                   IF d \in RowsToDelete(o) THEN NoEntry ELSE devices[d]]
  /\ operatorDevices' = [operatorDevices EXCEPT ![o] = <<>>]
  /\ operatorMasterWallet' = [operatorMasterWallet EXCEPT ![o] = NoAccount]
  /\ recoveryThreshold' = [recoveryThreshold EXCEPT ![o] = 0]
  /\ operatorNonce' = [operatorNonce EXCEPT ![o] = 0]
  /\ agentSlotsUsed' = [agentSlotsUsed EXCEPT ![o] = 0]
  /\ agentSlotOverride' = [agentSlotOverride EXCEPT ![o] = {}]
  /\ accepted' = {a \in accepted : a.challenge.operatorOmni # o}
  /\ UNCHANGED <<defaultAgentSlotAllowance, signed, signCounter, replayed>>

setDefaultAgentSlotAllowance(n) ==
  /\ defaultAgentSlotAllowance' = n
  /\ UNCHANGED <<devices, operatorDevices, operatorMasterWallet, quorumVars,
                 agentSlotOverride, agentSlotsUsed, k11Vars>>

setAgentSlotAllowance(o, n) ==
  /\ agentSlotOverride' = [agentSlotOverride EXCEPT ![o] = {n}]
  /\ UNCHANGED <<devices, operatorDevices, operatorMasterWallet, quorumVars,
                 defaultAgentSlotAllowance, agentSlotsUsed, k11Vars>>

clearAgentSlotAllowance(o) ==
  /\ agentSlotOverride' = [agentSlotOverride EXCEPT ![o] = {}]
  /\ UNCHANGED <<devices, operatorDevices, operatorMasterWallet, quorumVars,
                 defaultAgentSlotAllowance, agentSlotsUsed, k11Vars>>
-----------------------------------------------------------------------------
MasterNext ==
  \E sender \in Accounts, d \in Devices :
    \/ \E o \in Operators, actor \in Actors :
         \/ \E roles \in RoleSets :
              \/ registerFirstMasterDevice(sender, d, o, actor, roles)
              \/ registerAdditionalMasterDevice(sender, d, o, actor, roles)
         \/ registerAgentDevice(sender, d, o, actor)
         \/ registerDelegate(sender, d, o, actor)
    \/ revokeAgentDevice(sender, d)
    \/ \E A \in SUBSET {a \in signed : a.challenge.op = "REVOKE_MASTER"} :
         revokeMasterDevice(sender, d, A)

QuorumNext ==
  \E sender \in Accounts, o \in Operators, n \in 1..Cardinality(Devices) :
    setRecoveryThreshold(sender, o, n)

OwnerNext ==
  \E o \in Operators :
    \/ clearAgentSlotAllowance(o)
    \/ \E n \in Allowances : setDefaultAgentSlotAllowance(n)
    \/ \E n \in Overrides : setAgentSlotAllowance(o, n)

AuthenticatorNext ==
  \/ \E d \in Devices, c \in Challenges : SignChallenge(d, c)
  \/ \E a \in signed : ForgetAssertion(a)

ResetNext == \E o \in Operators : resetMaster(o)

Next == MasterNext \/ QuorumNext \/ OwnerNext \/ AuthenticatorNext \/ ResetNext

Spec == Init /\ [][Next]_vars
-----------------------------------------------------------------------------
ActiveDelegates(o) ==
  {d \in Devices : /\ isActive(d)
                   /\ devices[d].tier = "AGENT"
                   /\ devices[d].operatorOmni = o}

\* The slot counter the spawn gate reads is exactly the number of live
\* delegates of the operator, over any interleaving of registrations,
\* archives, quota changes and resets (SidecarRegistry.sol:93).
SlotsMatchDelegates ==
  \A o \in Operators : agentSlotsUsed[o] = Cardinality(ActiveDelegates(o))

\* The device rows and the per-operator lists describe the same registrations:
\* a registered row is listed once, under its own operator, and nothing else
\* is listed.  resetMaster deletes through the list, so a row missing from it
\* would survive the reset.
ListsMatchRows ==
  /\ \A d \in Devices : Registered(d) =>
       \E i \in DOMAIN operatorDevices[devices[d].operatorOmni] :
         operatorDevices[devices[d].operatorOmni][i] = d
  /\ \A o \in Operators : \A i \in DOMAIN operatorDevices[o] :
       devices[operatorDevices[o][i]].operatorOmni = o
  /\ \A o \in Operators : \A i, j \in DOMAIN operatorDevices[o] :
       operatorDevices[o][i] = operatorDevices[o][j] => i = j

\* The recovery quorum can always be met by live masters: once an operator has
\* a recovery-capable master, no sequence of revocations and threshold changes
\* leaves fewer of them than the threshold asks for (the "never strand the
\* operator" rule of SidecarRegistry.sol:409 and :468).
QuorumSatisfiable ==
  \A o \in Operators :
    RecoveryPositions(o) # {} => recoveryThreshold[o] \in 1..Cardinality(RecoveryPositions(o))

\* A live recovery master only disappears as the last one through resetMaster.
NeverStranded ==
  [][\A o \in Operators :
       /\ RecoveryPositions(o) # {}
       /\ operatorMasterWallet'[o] # NoAccount
       => RecoveryPositions(o)' # {}]_vars

\* A revoked device key stays revoked for as long as its row exists: it cannot
\* be registered again, under any operator, without a reset of its operator.
RevokedStaysRevoked ==
  [][\A d \in Devices :
       devices[d].revoked => \/ devices'[d] = devices[d]
                             \/ devices'[d] = NoEntry]_vars

\* "captured K11 sigs from a previous tx don't validate" (K11Verifier.sol:34):
\* between two resets of its operator no assertion is accepted twice, however
\* long it is held.  resetMaster takes the nonce back to 0 and is the one
\* exception: an assertion of an earlier registration fits again after it.
AcceptedAtMostOnce == replayed = {}
=============================================================================
