------------------------ MODULE SidecarRegistryProofs ------------------------
(***************************************************************************)
(* Proofs about SidecarRegistry for every set of operators and devices:    *)
(* type correctness, agreement of the rows with the per-operator lists,    *)
(* the slot counter, permanence of a revocation, single use of K11         *)
(* assertions as long as the registry is not reset, and a recovery quorum  *)
(* that the live masters can always meet.                                  *)
(***************************************************************************)
EXTENDS SidecarRegistry, FiniteSetTheorems, TLAPS

\* The widths are only ever used through these two facts: the provers would
\* enumerate an interval with literal bounds.
LEMMA WidthType == U8Max \in Nat \ {0} /\ U16Max \in Nat
  BY DEF U8Max, U16Max

LEMMA DevicesCount == Cardinality(Devices) \in Nat
  BY RegistryAssumption, FS_CardinalityType

\* A row is either absent or a typed entry, and absent exactly when it is
\* not registered.
LEMMA RowCases ==
  ASSUME TypeOK, NEW d \in Devices
  PROVE  /\ Registered(d) => devices[d] \in DeviceEntry
         /\ ~Registered(d) => devices[d] = NoEntry
         /\ devices[d].revoked => Registered(d)
         /\ devices[d].tier = "AGENT" => Registered(d)
         /\ devices[d].tier = "MASTER" => Registered(d)
<1>1. devices[d] \in DeviceEntry \cup {NoEntry}
  BY DEF TypeOK
<1>2. NoOperator \notin Operators
  BY RegistryAssumption
<1>3. CASE devices[d] \in DeviceEntry
  BY <1>2, <1>3 DEF Registered, DeviceEntry
<1>4. CASE devices[d] = NoEntry
  BY <1>4 DEF Registered, NoEntry
<1> QED BY <1>1, <1>3, <1>4

\* Storing sign counts changes no other field of any row (SidecarRegistry.sol
\* _verifyK11One writes entry.lastSignCount and nothing else).
LEMMA SignCountRows ==
  ASSUME TypeOK, NEW A \in SUBSET signed, \A a \in A : Registered(a.device)
  PROVE  /\ WithSignCounts(A) \in [Devices -> DeviceEntry \cup {NoEntry}]
         /\ \A d \in Devices :
              LET e == WithSignCounts(A)[d] IN
              /\ e.operatorOmni = devices[d].operatorOmni
              /\ e.tier = devices[d].tier
              /\ e.roles = devices[d].roles
              /\ e.revoked = devices[d].revoked
              /\ (\A a \in A : a.device # d) => e = devices[d]
<1> DEFINE W == WithSignCounts(A)
<1>1. ASSUME NEW d \in Devices
      PROVE  /\ W[d] \in DeviceEntry \cup {NoEntry}
             /\ W[d].operatorOmni = devices[d].operatorOmni
             /\ W[d].tier = devices[d].tier
             /\ W[d].roles = devices[d].roles
             /\ W[d].revoked = devices[d].revoked
             /\ (\A a \in A : a.device # d) => W[d] = devices[d]
  <2>1. CASE \E a \in A : a.device = d
    <3> DEFINE b == CHOOSE a \in A : a.device = d
    <3>1. b \in A /\ b.device = d
      BY <2>1
    <3>2. b.signCount \in Nat
      <4>1. b \in Assertions
        BY <3>1 DEF TypeOK
      <4>2. MaxSignCount \in Nat
        BY RegistryAssumption
      <4> HIDE DEF b
      <4> QED BY <4>1, <4>2 DEF Assertions
    <3>3. devices[d] \in DeviceEntry
      BY <2>1, RowCases
    <3>4. W[d] = [devices[d] EXCEPT !.lastSignCount = b.signCount]
      BY <2>1 DEF WithSignCounts
    <3> HIDE DEF b
    <3> QED BY <3>2, <3>3, <3>4, <2>1 DEF DeviceEntry
  <2>2. CASE ~ \E a \in A : a.device = d
    BY <2>2 DEF WithSignCounts, TypeOK
  <2> QED BY <2>1, <2>2
<1>2. W = [d \in Devices |-> W[d]]
  BY DEF WithSignCounts
<1> QED BY <1>1, <1>2

\* An accepted quorum only names registered devices.
LEMMA QuorumRegistered ==
  ASSUME NEW A, NEW c, NEW o, NEW t, VerifyQuorum(A, c, o, t)
  PROVE  /\ A \in SUBSET signed
         /\ \A a \in A : Registered(a.device)
         /\ \A a \in A : ~devices[a.device].revoked
         /\ \A a \in A : a.challenge = c
  BY DEF VerifyQuorum, ValidK11, isActive

LEMMA RecoveryCount ==
  ASSUME TypeOK, NEW o \in Operators
  PROVE  activeRecoveryMasterCount(o) \in 0..U8Max
<1> DEFINE P == RecoveryPositions(o)
<1>1. P \subseteq 1..Len(operatorDevices[o]) /\ Len(operatorDevices[o]) \in Nat
  BY DEF TypeOK, RecoveryPositions
<1>2. IsFiniteSet(P)
  <2>1. IsFiniteSet(1..Len(operatorDevices[o]))
    BY <1>1, FS_Interval
  <2> HIDE DEF P
  <2> QED BY <1>1, <2>1, FS_Subset
<1>3. Cardinality(P) \in Nat
  BY <1>2, FS_CardinalityType
<1> QED BY <1>3, WidthType DEF activeRecoveryMasterCount

LEMMA AllowanceType ==
  ASSUME TypeOK, NEW o \in Operators
  PROVE  agentSlotAllowance(o) \in 0..U16Max
<1>1. CASE agentSlotOverride[o] # {}
  <2>1. (CHOOSE t \in agentSlotOverride[o] : TRUE) \in agentSlotOverride[o]
    BY <1>1
  <2> QED BY <2>1, <1>1 DEF agentSlotAllowance, TypeOK
<1>2. CASE agentSlotOverride[o] = {}
  <2>1. defaultAgentSlotAllowance \in 0..U16Max
    BY DEF TypeOK
  <2> QED BY <1>2, <2>1 DEF agentSlotAllowance
<1> QED BY <1>1, <1>2
-----------------------------------------------------------------------------
\* TypeOK is inductive.
LEMMA TypeInit == Init => TypeOK
  BY RegistryAssumption, WidthType DEF Init, TypeOK

LEMMA TypeNext ==
  ASSUME TypeOK, [Next]_vars
  PROVE  TypeOK'
<1> USE RegistryAssumption, WidthType
<1>1. ASSUME NEW sender \in Accounts, NEW d \in Devices, NEW o \in Operators,
             NEW actor \in Actors, NEW roles \in RoleSets,
             registerFirstMasterDevice(sender, d, o, actor, roles)
      PROVE  TypeOK'
  <2>1. MasterEntry(o, actor, roles) \in DeviceEntry
    BY DEF MasterEntry, DeviceEntry, Roles, Tiers
  <2> QED BY <1>1, <2>1 DEF registerFirstMasterDevice, TypeOK, slotVars, k11Vars
<1>2. ASSUME NEW sender \in Accounts, NEW d \in Devices, NEW o \in Operators,
             NEW actor \in Actors, NEW roles \in RoleSets,
             registerAdditionalMasterDevice(sender, d, o, actor, roles)
      PROVE  TypeOK'
  <2>1. MasterEntry(o, actor, roles) \in DeviceEntry
    BY DEF MasterEntry, DeviceEntry, Roles, Tiers
  <2>2. PICK a, c :
          /\ a \in signed
          /\ VerifyQuorum({a}, c, o, 1)
          /\ devices' = [WithSignCounts({a}) EXCEPT ![d] = MasterEntry(o, actor, roles)]
    BY <1>2 DEF registerAdditionalMasterDevice
  <2>3. WithSignCounts({a}) \in [Devices -> DeviceEntry \cup {NoEntry}]
    BY <2>2, QuorumRegistered, SignCountRows
  <2>4. devices' \in [Devices -> DeviceEntry \cup {NoEntry}]
    BY <2>1, <2>2, <2>3
  <2>5. /\ operatorNonce' \in [Operators -> Nat]
        /\ accepted' \subseteq signed
        /\ replayed' \subseteq signed
    BY <2>2 DEF VerifyQuorum, ConsumeNonce, TypeOK
  <2>6. operatorDevices' \in [Operators -> Seq(Devices)]
    BY <1>2 DEF registerAdditionalMasterDevice, TypeOK
  <2>7. UNCHANGED <<operatorMasterWallet, recoveryThreshold, slotVars, signed,
                    signCounter>>
    BY <1>2 DEF registerAdditionalMasterDevice
  <2> QED BY <2>4, <2>5, <2>6, <2>7 DEF TypeOK, slotVars
<1>3. ASSUME NEW sender \in Accounts, NEW d \in Devices, NEW o \in Operators,
             NEW actor \in Actors, NEW tier \in {"AGENT", "DEVICE"},
             RegisterK10Actor(sender, d, o, actor, tier),
             defaultAgentSlotAllowance' = defaultAgentSlotAllowance,
             agentSlotOverride' = agentSlotOverride,
             agentSlotsUsed' \in [Operators -> 0..U16Max]
      PROVE  TypeOK'
  <2>1. K10Entry(o, actor, tier) \in DeviceEntry
    BY DEF K10Entry, DeviceEntry, Roles, Tiers
  <2> QED BY <1>3, <2>1 DEF RegisterK10Actor, TypeOK, quorumVars, k11Vars
<1>4. ASSUME NEW sender \in Accounts, NEW d \in Devices, NEW o \in Operators,
             NEW actor \in Actors, registerAgentDevice(sender, d, o, actor)
      PROVE  TypeOK'
  BY <1>3, <1>4 DEF registerAgentDevice, slotVars, TypeOK
<1>5. ASSUME NEW sender \in Accounts, NEW d \in Devices, NEW o \in Operators,
             NEW actor \in Actors, registerDelegate(sender, d, o, actor)
      PROVE  TypeOK'
  <2>1. agentSlotsUsed' \in [Operators -> 0..U16Max]
    BY <1>5, AllowanceType DEF registerDelegate, TypeOK
  <2> QED BY <1>3, <1>5, <2>1 DEF registerDelegate
<1>6. ASSUME NEW sender \in Accounts, NEW d \in Devices, revokeAgentDevice(sender, d)
      PROVE  TypeOK'
  <2>1. devices[d] \in DeviceEntry
    BY <1>6, RowCases DEF revokeAgentDevice, isActive
  <2>2. devices' \in [Devices -> DeviceEntry \cup {NoEntry}]
    BY <1>6, <2>1 DEF revokeAgentDevice, TypeOK, DeviceEntry
  <2>3. agentSlotsUsed' \in [Operators -> 0..U16Max]
    BY <1>6, <2>1 DEF revokeAgentDevice, SlotsAfterRevoke, TypeOK, DeviceEntry
  <2> QED BY <1>6, <2>2, <2>3 DEF revokeAgentDevice, TypeOK, quorumVars, k11Vars
<1>7. ASSUME NEW sender \in Accounts, NEW d \in Devices, NEW A,
             revokeMasterDevice(sender, d, A)
      PROVE  TypeOK'
  <2>1. devices[d] \in DeviceEntry
    BY <1>7, RowCases DEF revokeMasterDevice, isActive
  <2>2. PICK c, t : VerifyQuorum(A, c, devices[d].operatorOmni, t)
    BY <1>7 DEF revokeMasterDevice
  <2>3. /\ WithSignCounts(A) \in [Devices -> DeviceEntry \cup {NoEntry}]
        /\ WithSignCounts(A)[d].operatorOmni = devices[d].operatorOmni
    BY <2>2, QuorumRegistered, SignCountRows
  <2>4. WithSignCounts(A)[d] \in DeviceEntry
    BY <2>1, <2>3 DEF DeviceEntry, NoEntry
  <2>5. devices' \in [Devices -> DeviceEntry \cup {NoEntry}]
    BY <1>7, <2>3, <2>4 DEF revokeMasterDevice, DeviceEntry
  <2>6. /\ operatorNonce' \in [Operators -> Nat]
        /\ accepted' \subseteq signed
        /\ replayed' \subseteq signed
    BY <2>1, <2>2 DEF VerifyQuorum, ConsumeNonce, TypeOK, DeviceEntry
  <2> QED BY <1>7, <2>5, <2>6 DEF revokeMasterDevice, TypeOK, slotVars
<1>8. ASSUME NEW sender \in Accounts, NEW o \in Operators,
             NEW n \in 1..Cardinality(Devices), setRecoveryThreshold(sender, o, n)
      PROVE  TypeOK'
  <2>1. n \in 0..U8Max
    BY <1>8, RecoveryCount, DevicesCount DEF setRecoveryThreshold
  <2>2. PICK a, c :
          /\ a \in signed
          /\ VerifyQuorum({a}, c, o, 1)
          /\ devices' = WithSignCounts({a})
    BY <1>8 DEF setRecoveryThreshold
  <2>3. devices' \in [Devices -> DeviceEntry \cup {NoEntry}]
    BY <2>2, QuorumRegistered, SignCountRows
  <2>4. /\ operatorNonce' \in [Operators -> Nat]
        /\ accepted' \subseteq signed
        /\ replayed' \subseteq signed
    BY <2>2 DEF VerifyQuorum, ConsumeNonce, TypeOK
  <2> QED BY <1>8, <2>1, <2>3, <2>4 DEF setRecoveryThreshold, TypeOK, slotVars
<1>9. ASSUME NEW o \in Operators, resetMaster(o)
      PROVE  TypeOK'
  BY <1>9 DEF resetMaster, TypeOK, k11Vars
<1>10. ASSUME NEW o \in Operators, NEW n \in Allowances \cup Overrides,
              setDefaultAgentSlotAllowance(n) \/ setAgentSlotAllowance(o, n)
       PROVE  TypeOK'
  <2>1. n \in 0..U16Max
    OBVIOUS
  <2>2. CASE setDefaultAgentSlotAllowance(n)
    BY <2>1, <2>2 DEF setDefaultAgentSlotAllowance, TypeOK, quorumVars, k11Vars
  <2>3. CASE setAgentSlotAllowance(o, n)
    BY <2>1, <2>3 DEF setAgentSlotAllowance, TypeOK, quorumVars, k11Vars
  <2> QED BY <1>10, <2>2, <2>3
<1>11. ASSUME NEW o \in Operators, clearAgentSlotAllowance(o)
       PROVE  TypeOK'
  BY <1>11 DEF clearAgentSlotAllowance, TypeOK, quorumVars, k11Vars
<1>12. ASSUME NEW d \in Devices, NEW c \in Challenges, SignChallenge(d, c)
       PROVE  TypeOK'
  <2> DEFINE count == IF d \in CountingKeys THEN signCounter[d] + 1 ELSE 0
  <2>1. count \in 0..MaxSignCount
    BY <1>12 DEF SignChallenge, TypeOK
  <2>2. [device |-> d, challenge |-> c, signCount |-> count] \in Assertions
    BY <2>1 DEF Assertions
  <2> QED BY <1>12, <2>1, <2>2 DEF SignChallenge, TypeOK, quorumVars, slotVars
<1>13. ASSUME NEW a \in signed, ForgetAssertion(a)
       PROVE  TypeOK'
  BY <1>13 DEF ForgetAssertion, TypeOK, quorumVars, slotVars
<1>14. CASE UNCHANGED vars
  BY <1>14 DEF vars, TypeOK, quorumVars, slotVars, k11Vars
<1> QED
  BY <1>1, <1>2, <1>4, <1>5, <1>6, <1>7, <1>8, <1>9, <1>10, <1>11, <1>12,
     <1>13, <1>14
  DEF Next, MasterNext, QuorumNext, OwnerNext, AuthenticatorNext,
      ResetNext

\* Type correctness of the registry: no counter leaves its width, no row mixes
\* the fields of an absent and a present entry, the history variables only
\* name held assertions (SidecarRegistry.sol:69-94).
THEOREM TypeCorrect == Spec => []TypeOK
<1>1. TypeOK /\ [Next]_vars => TypeOK'
  BY TypeNext
<1> QED BY TypeInit, <1>1, PTL DEF Spec
-----------------------------------------------------------------------------
(***************************************************************************)
(* The four ways a step can touch the rows.  SameRow leaves lastSignCount   *)
(* open, except for a revoked row, which nothing may touch.  The threshold  *)
(* moves with the masters it asks for.                                      *)
(***************************************************************************)
SameRow(x) ==
  /\ devices'[x].operatorOmni = devices[x].operatorOmni
  /\ devices'[x].tier = devices[x].tier
  /\ devices'[x].roles = devices[x].roles
  /\ devices'[x].revoked = devices[x].revoked
  /\ devices[x].revoked => devices'[x] = devices[x]

RecoveryMaster(x, o) ==
  /\ isActive(x) /\ devices[x].operatorOmni = o
  /\ devices[x].tier = "MASTER" /\ "RECOVERY" \in devices[x].roles

NewThreshold(o, n) == recoveryThreshold' = [recoveryThreshold EXCEPT ![o] = n]

KeepStep ==
  /\ UNCHANGED <<operatorDevices, agentSlotsUsed>>
  /\ \A x \in Devices : SameRow(x)
  /\ \/ UNCHANGED recoveryThreshold
     \/ \E o \in Operators, n \in Nat \ {0} :
          n <= activeRecoveryMasterCount(o) /\ NewThreshold(o, n)

RegisterStep(d, o) ==
  /\ ~Registered(d)
  /\ operatorDevices' = [operatorDevices EXCEPT ![o] = Append(@, d)]
  /\ devices'[d].operatorOmni = o
  /\ devices'[d].revoked = FALSE
  /\ \A x \in Devices \ {d} : SameRow(x)
  /\ agentSlotsUsed' = IF devices'[d].tier = "AGENT"
                       THEN [agentSlotsUsed EXCEPT ![o] = @ + 1]
                       ELSE agentSlotsUsed
  /\ \/ NewThreshold(o, 1)
     \/ /\ UNCHANGED recoveryThreshold
        /\ devices'[d].tier = "MASTER" => \E x \in Devices : RecoveryMaster(x, o)

RevokeStep(d) ==
  /\ isActive(d)
  /\ UNCHANGED operatorDevices
  /\ devices'[d].operatorOmni = devices[d].operatorOmni
  /\ devices'[d].tier = devices[d].tier
  /\ devices'[d].revoked = TRUE
  /\ \A x \in Devices \ {d} : SameRow(x)
  /\ agentSlotsUsed' = SlotsAfterRevoke(d)
  /\ UNCHANGED recoveryThreshold
  /\ LET o == devices[d].operatorOmni IN
     devices[d].tier = "MASTER" => RemainingAfter(o) >= MinRequired(o)

LEMMA QuorumSameRows ==
  ASSUME TypeOK, NEW A, NEW c, NEW o, NEW t, VerifyQuorum(A, c, o, t)
  PROVE  /\ WithSignCounts(A) \in [Devices -> DeviceEntry \cup {NoEntry}]
         /\ \A x \in Devices :
              LET e == WithSignCounts(A)[x] IN
              /\ e.operatorOmni = devices[x].operatorOmni
              /\ e.tier = devices[x].tier
              /\ e.roles = devices[x].roles
              /\ e.revoked = devices[x].revoked
              /\ devices[x].revoked => e = devices[x]
<1>1. /\ A \in SUBSET signed
      /\ \A a \in A : Registered(a.device)
      /\ \A a \in A : ~devices[a.device].revoked
  BY QuorumRegistered
<1> QED BY <1>1, SignCountRows

LEMMA StepShape ==
  ASSUME TypeOK, [Next]_vars
  PROVE  \/ KeepStep
         \/ \E d \in Devices, o \in Operators : RegisterStep(d, o)
         \/ \E d \in Devices : RevokeStep(d)
         \/ \E o \in Operators : resetMaster(o)
<1> DEFINE Goal == \/ KeepStep
                   \/ \E d \in Devices, o \in Operators : RegisterStep(d, o)
                   \/ \E d \in Devices : RevokeStep(d)
                   \/ \E o \in Operators : resetMaster(o)
<1>1. ASSUME NEW sender \in Accounts, NEW d \in Devices, NEW o \in Operators,
             NEW actor \in Actors, NEW roles \in RoleSets,
             registerFirstMasterDevice(sender, d, o, actor, roles)
      PROVE  RegisterStep(d, o)
  BY <1>1 DEF registerFirstMasterDevice, RegisterStep, SameRow, MasterEntry,
              slotVars, TypeOK, NewThreshold
<1>2. ASSUME NEW sender \in Accounts, NEW d \in Devices, NEW o \in Operators,
             NEW actor \in Actors, NEW roles \in RoleSets,
             registerAdditionalMasterDevice(sender, d, o, actor, roles)
      PROVE  RegisterStep(d, o)
  <2>1. PICK a, c :
          /\ a \in signed
          /\ VerifyQuorum({a}, c, o, 1)
          /\ devices' = [WithSignCounts({a}) EXCEPT ![d] = MasterEntry(o, actor, roles)]
    BY <1>2 DEF registerAdditionalMasterDevice
  <2>2. /\ devices'[d] = MasterEntry(o, actor, roles)
        /\ \A x \in Devices \ {d} : SameRow(x)
    BY <2>1, QuorumSameRows DEF SameRow
  <2>3. \E x \in Devices : RecoveryMaster(x, o)
    <3>1. a \in Assertions
      BY <2>1 DEF TypeOK
    <3>2. a.device \in Devices
      BY <3>1 DEF Assertions
    <3> QED BY <2>1, <3>2 DEF VerifyQuorum, ValidK11, RecoveryMaster
  <2> QED BY <1>2, <2>2, <2>3 DEF registerAdditionalMasterDevice, RegisterStep,
                            MasterEntry, slotVars
<1>3. ASSUME NEW sender \in Accounts, NEW d \in Devices, NEW o \in Operators,
             NEW actor \in Actors, registerAgentDevice(sender, d, o, actor)
      PROVE  RegisterStep(d, o)
  BY <1>3 DEF registerAgentDevice, RegisterK10Actor, RegisterStep, SameRow,
              K10Entry, slotVars, TypeOK, quorumVars
<1>4. ASSUME NEW sender \in Accounts, NEW d \in Devices, NEW o \in Operators,
             NEW actor \in Actors, registerDelegate(sender, d, o, actor)
      PROVE  RegisterStep(d, o)
  BY <1>4 DEF registerDelegate, RegisterK10Actor, RegisterStep, SameRow,
              K10Entry, slotVars, TypeOK, quorumVars
<1>5. ASSUME NEW sender \in Accounts, NEW d \in Devices, revokeAgentDevice(sender, d)
      PROVE  RevokeStep(d)
  <2>1. devices[d] \in DeviceEntry
    BY <1>5, RowCases DEF revokeAgentDevice, isActive
  <2> QED BY <1>5, <2>1 DEF revokeAgentDevice, RevokeStep, SameRow, TypeOK,
                            DeviceEntry, quorumVars
<1>6. ASSUME NEW sender \in Accounts, NEW d \in Devices, NEW A,
             revokeMasterDevice(sender, d, A)
      PROVE  RevokeStep(d)
  <2>1. PICK c, t : VerifyQuorum(A, c, devices[d].operatorOmni, t)
    BY <1>6 DEF revokeMasterDevice
  <2>2. devices' = [WithSignCounts(A) EXCEPT ![d].revoked = TRUE]
    BY <1>6 DEF revokeMasterDevice
  <2>3. isActive(d) /\ devices[d].tier = "MASTER" /\ devices[d] \in DeviceEntry
    BY <1>6, RowCases DEF revokeMasterDevice, isActive
  <2>4. /\ WithSignCounts(A) \in [Devices -> DeviceEntry \cup {NoEntry}]
        /\ WithSignCounts(A)[d].operatorOmni = devices[d].operatorOmni
        /\ WithSignCounts(A)[d].tier = devices[d].tier
    BY <2>1, QuorumSameRows
  <2>5. WithSignCounts(A)[d] \in DeviceEntry
    BY <2>3, <2>4, RegistryAssumption DEF DeviceEntry, NoEntry
  <2>6. /\ devices'[d].operatorOmni = devices[d].operatorOmni
        /\ devices'[d].tier = devices[d].tier
        /\ devices'[d].revoked = TRUE
    BY <2>2, <2>4, <2>5 DEF DeviceEntry
  <2>7. \A x \in Devices \ {d} : SameRow(x)
    BY <2>1, <2>2, QuorumSameRows DEF SameRow
  <2>8. agentSlotsUsed' = SlotsAfterRevoke(d) /\ UNCHANGED operatorDevices
    BY <1>6, <2>3 DEF revokeMasterDevice, SlotsAfterRevoke, slotVars
  <2>9. /\ UNCHANGED recoveryThreshold
        /\ RemainingAfter(devices[d].operatorOmni) >= MinRequired(devices[d].operatorOmni)
    BY <1>6 DEF revokeMasterDevice
  <2> QED BY <2>3, <2>6, <2>7, <2>8, <2>9 DEF RevokeStep
<1>7. ASSUME NEW sender \in Accounts, NEW o \in Operators,
             NEW n \in 1..Cardinality(Devices), setRecoveryThreshold(sender, o, n)
      PROVE  KeepStep
  <2>1. PICK a, c :
          /\ a \in signed
          /\ VerifyQuorum({a}, c, o, 1)
          /\ devices' = WithSignCounts({a})
    BY <1>7 DEF setRecoveryThreshold
  <2>2. \A x \in Devices : SameRow(x)
    BY <2>1, QuorumSameRows DEF SameRow
  <2>3. /\ n \in Nat \ {0} /\ n <= activeRecoveryMasterCount(o)
        /\ NewThreshold(o, n)
    BY <1>7, DevicesCount DEF setRecoveryThreshold, NewThreshold
  <2> QED BY <1>7, <2>2, <2>3 DEF setRecoveryThreshold, KeepStep, slotVars
<1>8. ASSUME UNCHANGED <<devices, operatorDevices, agentSlotsUsed, recoveryThreshold>>
      PROVE  KeepStep
  BY <1>8 DEF KeepStep, SameRow
<1>9. ASSUME NEW o \in Operators, NEW n \in Allowances \cup Overrides,
             setDefaultAgentSlotAllowance(n) \/ setAgentSlotAllowance(o, n)
      PROVE  KeepStep
  BY <1>8, <1>9 DEF setDefaultAgentSlotAllowance, setAgentSlotAllowance, quorumVars
<1>10. ASSUME NEW o \in Operators, clearAgentSlotAllowance(o)
       PROVE  KeepStep
  BY <1>8, <1>10 DEF clearAgentSlotAllowance, quorumVars
<1>11. ASSUME NEW d \in Devices, NEW c \in Challenges, SignChallenge(d, c)
       PROVE  KeepStep
  BY <1>8, <1>11 DEF SignChallenge, slotVars, quorumVars
<1>12. ASSUME NEW a \in signed, ForgetAssertion(a)
       PROVE  KeepStep
  BY <1>8, <1>12 DEF ForgetAssertion, slotVars, quorumVars
<1>13. CASE UNCHANGED vars
  BY <1>8, <1>13 DEF vars, slotVars, quorumVars
<1> HIDE DEF Goal
<1> QED
  <2> SUFFICES Goal
    BY DEF Goal
  <2>1. CASE MasterNext
    BY <1>1, <1>2, <1>3, <1>4, <1>5, <1>6, <2>1 DEF MasterNext, Goal
  <2>2. CASE QuorumNext
    BY <1>7, <2>2 DEF QuorumNext, Goal
  <2>3. CASE OwnerNext
    BY <1>9, <1>10, <2>3 DEF OwnerNext, Goal
  <2>4. CASE AuthenticatorNext
    BY <1>11, <1>12, <2>4 DEF AuthenticatorNext, Goal
  <2>5. CASE ResetNext
    BY <2>5 DEF ResetNext, Goal
  <2> QED BY <1>13, <2>1, <2>2, <2>3, <2>4, <2>5 DEF Next, Goal
-----------------------------------------------------------------------------
\* resetMaster removes exactly the operator's rows, because the lists match.
LEMMA ResetRows ==
  ASSUME TypeOK, ListsMatchRows, NEW o \in Operators, resetMaster(o),
         NEW x \in Devices
  PROVE  /\ devices[x].operatorOmni = o => devices'[x] = NoEntry
         /\ devices[x].operatorOmni # o => devices'[x] = devices[x]
<1>1. devices'[x] = IF x \in ListedDevices(o) THEN NoEntry ELSE devices[x]
  BY DEF resetMaster, RowsToDelete
<1>2. x \in ListedDevices(o) => devices[x].operatorOmni = o
  BY DEF ListedDevices, ListsMatchRows
<1>3. devices[x].operatorOmni = o => x \in ListedDevices(o)
  BY RegistryAssumption DEF ListedDevices, ListsMatchRows, Registered
<1> QED BY <1>1, <1>2, <1>3

LEMMA ListsRegister ==
  ASSUME TypeOK, ListsMatchRows, NEW d \in Devices, NEW o \in Operators,
         RegisterStep(d, o)
  PROVE  ListsMatchRows'
<1> DEFINE L == operatorDevices
<1>1. /\ L \in [Operators -> Seq(Devices)]
      /\ L' = [L EXCEPT ![o] = Append(L[o], d)]
  BY DEF TypeOK, RegisterStep
<1>2. \A p \in Operators : \A i \in DOMAIN L[p] : L[p][i] # d
  BY RegistryAssumption DEF ListsMatchRows, RegisterStep, Registered
<1>3. /\ DOMAIN L'[o] = 1..(Len(L[o]) + 1)
      /\ DOMAIN L[o] = 1..Len(L[o])
      /\ Len(L[o]) \in Nat
      /\ \A i \in DOMAIN L[o] : L'[o][i] = L[o][i]
      /\ L'[o][Len(L[o]) + 1] = d
      /\ \A p \in Operators : p # o => L'[p] = L[p]
  BY <1>1
<1>4. ASSUME NEW x \in Devices, Registered(x)'
      PROVE  \E i \in DOMAIN L'[devices'[x].operatorOmni] :
               L'[devices'[x].operatorOmni][i] = x
  <2>1. CASE x = d
    BY <1>3, <2>1 DEF RegisterStep
  <2>2. CASE x # d
    <3>1. /\ devices'[x].operatorOmni = devices[x].operatorOmni
          /\ Registered(x)
      BY <1>4, <2>2 DEF RegisterStep, SameRow, Registered
    <3>2. PICK i \in DOMAIN L[devices[x].operatorOmni] :
            L[devices[x].operatorOmni][i] = x
      BY <3>1 DEF ListsMatchRows
    <3>3. devices[x].operatorOmni \in Operators
      BY <3>1, RowCases DEF DeviceEntry
    <3> QED BY <1>3, <3>1, <3>2, <3>3
  <2> QED BY <2>1, <2>2
<1>5. ASSUME NEW p \in Operators, NEW i \in DOMAIN L'[p]
      PROVE  devices'[L'[p][i]].operatorOmni = p
  <2>1. CASE p = o /\ i = Len(L[o]) + 1
    BY <1>3, <2>1 DEF RegisterStep
  <2>2. CASE ~(p = o /\ i = Len(L[o]) + 1)
    <3>1. i \in DOMAIN L[p] /\ L'[p][i] = L[p][i]
      BY <1>3, <1>5, <2>2
    <3>2. L[p][i] \in Devices \ {d}
      BY <1>1, <1>2, <3>1
    <3> QED BY <3>1, <3>2 DEF RegisterStep, SameRow, ListsMatchRows
  <2> QED BY <2>1, <2>2
<1>6. ASSUME NEW p \in Operators, NEW i \in DOMAIN L'[p], NEW j \in DOMAIN L'[p],
             L'[p][i] = L'[p][j]
      PROVE  i = j
  <2>1. CASE p # o
    BY <1>3, <1>6, <2>1 DEF ListsMatchRows
  <2>2. CASE p = o
    <3>1. CASE i \in DOMAIN L[o] /\ j \in DOMAIN L[o]
      BY <1>3, <1>6, <2>2, <3>1 DEF ListsMatchRows
    <3>2. CASE i \notin DOMAIN L[o] \/ j \notin DOMAIN L[o]
      BY <1>2, <1>3, <1>6, <2>2, <3>2
    <3> QED BY <3>1, <3>2
  <2> QED BY <2>1, <2>2
<1> QED BY <1>4, <1>5, <1>6 DEF ListsMatchRows

LEMMA ListsFrame ==
  ASSUME TypeOK, ListsMatchRows, UNCHANGED operatorDevices,
         \A x \in Devices : devices'[x].operatorOmni = devices[x].operatorOmni
  PROVE  ListsMatchRows'
<1>1. \A o \in Operators : \A i \in DOMAIN operatorDevices[o] :
        operatorDevices[o][i] \in Devices
  BY DEF TypeOK
<1> QED BY <1>1 DEF ListsMatchRows, Registered

LEMMA ListsReset ==
  ASSUME TypeOK, ListsMatchRows, NEW o \in Operators, resetMaster(o)
  PROVE  ListsMatchRows'
<1> DEFINE L == operatorDevices
<1>1. /\ L \in [Operators -> Seq(Devices)]
      /\ L' = [L EXCEPT ![o] = <<>>]
  BY DEF TypeOK, resetMaster
<1>2. L'[o] = <<>> /\ \A p \in Operators : p # o => L'[p] = L[p]
  BY <1>1
<1>3. ASSUME NEW x \in Devices, Registered(x)'
      PROVE  \E i \in DOMAIN L'[devices'[x].operatorOmni] :
               L'[devices'[x].operatorOmni][i] = x
  <2>1. devices'[x].operatorOmni # NoOperator
    BY <1>3 DEF Registered
  <2>2. devices[x].operatorOmni # o /\ devices'[x] = devices[x]
    BY <2>1, ResetRows DEF NoEntry
  <2>3. Registered(x) /\ devices[x].operatorOmni \in Operators
    BY <2>1, <2>2, RowCases DEF Registered, DeviceEntry
  <2> QED BY <1>2, <2>2, <2>3 DEF ListsMatchRows
<1>4. ASSUME NEW p \in Operators, NEW i \in DOMAIN L'[p]
      PROVE  devices'[L'[p][i]].operatorOmni = p
  <2>1. p # o /\ L'[p] = L[p]
    BY <1>2, <1>4
  <2>2. L[p][i] \in Devices /\ devices[L[p][i]].operatorOmni = p
    BY <1>1, <1>4, <2>1 DEF ListsMatchRows
  <2> QED BY <2>1, <2>2, ResetRows
<1>5. \A p \in Operators : \A i, j \in DOMAIN L'[p] : L'[p][i] = L'[p][j] => i = j
  BY <1>2 DEF ListsMatchRows
<1> QED BY <1>3, <1>4, <1>5 DEF ListsMatchRows

LEMMA ListsNext ==
  ASSUME TypeOK, ListsMatchRows, [Next]_vars
  PROVE  ListsMatchRows'
<1>1. CASE KeepStep
  BY <1>1, ListsFrame DEF KeepStep, SameRow
<1>2. ASSUME NEW d \in Devices, RevokeStep(d)
      PROVE  ListsMatchRows'
  BY <1>2, ListsFrame DEF RevokeStep, SameRow
<1> QED BY <1>1, <1>2, ListsRegister, ListsReset, StepShape

LEMMA ListsInit == Init => ListsMatchRows
  BY DEF Init, ListsMatchRows, Registered, NoEntry

\* The rows and the per-operator lists agree in every reachable state, for any
\* number of operators and devices: no registration, revocation or reset
\* leaves a row that the next resetMaster would miss (SidecarRegistry.sol:153).
THEOREM ListsCorrect == Spec => []ListsMatchRows
<1>1. Init => TypeOK /\ ListsMatchRows
  BY TypeInit, ListsInit
<1>2. TypeOK /\ ListsMatchRows /\ [Next]_vars => (TypeOK /\ ListsMatchRows)'
  BY TypeNext, ListsNext
<1> QED BY <1>1, <1>2, PTL DEF Spec
-----------------------------------------------------------------------------
LEMMA DelegatesFinite ==
  \A o \in Operators : /\ IsFiniteSet(ActiveDelegates(o))
                       /\ Cardinality(ActiveDelegates(o)) \in Nat
<1> SUFFICES ASSUME NEW o \in Operators
             PROVE  /\ IsFiniteSet(ActiveDelegates(o))
                    /\ Cardinality(ActiveDelegates(o)) \in Nat
  OBVIOUS
<1>1. ActiveDelegates(o) \in SUBSET Devices
  BY DEF ActiveDelegates
<1>2. IsFiniteSet(Devices)
  BY RegistryAssumption
<1>3. IsFiniteSet(ActiveDelegates(o))
  BY <1>1, <1>2, FS_Subset
<1> QED BY <1>3, FS_CardinalityType

LEMMA SlotsKeep ==
  ASSUME TypeOK, SlotsMatchDelegates, UNCHANGED agentSlotsUsed,
         \A o \in Operators : ActiveDelegates(o)' = ActiveDelegates(o)
  PROVE  SlotsMatchDelegates'
  BY DEF SlotsMatchDelegates

LEMMA SlotsRegister ==
  ASSUME TypeOK, SlotsMatchDelegates, NEW d \in Devices, NEW o \in Operators,
         RegisterStep(d, o)
  PROVE  SlotsMatchDelegates'
<1>1. \A p \in Operators : d \notin ActiveDelegates(p)
  BY DEF ActiveDelegates, isActive, RegisterStep
<1>2. \A p \in Operators : \A x \in Devices \ {d} :
        x \in ActiveDelegates(p)' <=> x \in ActiveDelegates(p)
  BY DEF ActiveDelegates, isActive, Registered, RegisterStep, SameRow
<1>3. \A p \in Operators :
        d \in ActiveDelegates(p)' <=> p = o /\ devices'[d].tier = "AGENT"
  BY RegistryAssumption DEF ActiveDelegates, isActive, Registered, RegisterStep
<1>4. \A p \in Operators : /\ ActiveDelegates(p) \subseteq Devices
                           /\ ActiveDelegates(p)' \subseteq Devices
  BY DEF ActiveDelegates
<1>5. CASE devices'[d].tier # "AGENT"
  <2>1. \A p \in Operators : ActiveDelegates(p)' = ActiveDelegates(p)
    BY <1>1, <1>2, <1>3, <1>4, <1>5
  <2>2. UNCHANGED agentSlotsUsed
    BY <1>5 DEF RegisterStep
  <2> QED BY <2>1, <2>2, SlotsKeep
<1>6. CASE devices'[d].tier = "AGENT"
  <2>1. ActiveDelegates(o)' = ActiveDelegates(o) \cup {d}
    BY <1>1, <1>2, <1>3, <1>4, <1>6
  <2>2. \A p \in Operators \ {o} : ActiveDelegates(p)' = ActiveDelegates(p)
    BY <1>1, <1>2, <1>3, <1>4
  <2>3. Cardinality(ActiveDelegates(o)') = Cardinality(ActiveDelegates(o)) + 1
    BY <1>1, <2>1, DelegatesFinite, FS_AddElement
  <2>4. agentSlotsUsed' = [agentSlotsUsed EXCEPT ![o] = @ + 1]
    BY <1>6 DEF RegisterStep
  <2>5. agentSlotsUsed \in [Operators -> 0..U16Max]
    BY DEF TypeOK
  <2> QED BY <2>2, <2>3, <2>4, <2>5 DEF SlotsMatchDelegates
<1> QED BY <1>5, <1>6

LEMMA SlotsRevoke ==
  ASSUME TypeOK, SlotsMatchDelegates, NEW d \in Devices, RevokeStep(d)
  PROVE  SlotsMatchDelegates'
<1>1. PICK o \in Operators : o = devices[d].operatorOmni /\ isActive(d)
  BY RowCases DEF RevokeStep, isActive, DeviceEntry
<1>2. \A p \in Operators : \A x \in Devices \ {d} :
        x \in ActiveDelegates(p)' <=> x \in ActiveDelegates(p)
  BY DEF ActiveDelegates, isActive, Registered, RevokeStep, SameRow
<1>3. \A p \in Operators : d \notin ActiveDelegates(p)'
  BY DEF ActiveDelegates, isActive, RevokeStep
<1>4. \A p \in Operators :
        d \in ActiveDelegates(p) <=> p = o /\ devices[d].tier = "AGENT"
  BY <1>1 DEF ActiveDelegates
<1>5. \A p \in Operators : /\ ActiveDelegates(p) \subseteq Devices
                           /\ ActiveDelegates(p)' \subseteq Devices
  BY DEF ActiveDelegates
<1>6. CASE devices[d].tier # "AGENT"
  <2>1. \A p \in Operators : ActiveDelegates(p)' = ActiveDelegates(p)
    <3> SUFFICES ASSUME NEW p \in Operators
                 PROVE  ActiveDelegates(p)' = ActiveDelegates(p)
      OBVIOUS
    <3>1. d \notin ActiveDelegates(p) /\ d \notin ActiveDelegates(p)'
      BY <1>3, <1>4, <1>6
    <3> QED BY <1>2, <1>5, <3>1
  <2>2. UNCHANGED agentSlotsUsed
    BY <1>6 DEF RevokeStep, SlotsAfterRevoke
  <2> QED BY <2>1, <2>2, SlotsKeep
<1>7. CASE devices[d].tier = "AGENT"
  <2>1. ActiveDelegates(o)' = ActiveDelegates(o) \ {d} /\ d \in ActiveDelegates(o)
    BY <1>1, <1>2, <1>3, <1>4, <1>5, <1>7
  <2>2. \A p \in Operators \ {o} : ActiveDelegates(p)' = ActiveDelegates(p)
    BY <1>2, <1>3, <1>4, <1>5
  <2>3. /\ Cardinality(ActiveDelegates(o)') = Cardinality(ActiveDelegates(o)) - 1
        /\ Cardinality(ActiveDelegates(o)) # 0
        /\ Cardinality(ActiveDelegates(o)) \in Nat
    BY <1>1, <2>1, DelegatesFinite, FS_RemoveElement, FS_EmptySet
  <2>4. agentSlotsUsed' = [agentSlotsUsed EXCEPT ![o] = @ - 1]
    BY <1>1, <1>7, <2>3 DEF RevokeStep, SlotsAfterRevoke, SlotsMatchDelegates
  <2>5. agentSlotsUsed \in [Operators -> 0..U16Max]
    BY DEF TypeOK
  <2> QED BY <1>1, <2>2, <2>3, <2>4, <2>5 DEF SlotsMatchDelegates
<1> QED BY <1>6, <1>7

LEMMA SlotsReset ==
  ASSUME TypeOK, ListsMatchRows, SlotsMatchDelegates, NEW o \in Operators,
         resetMaster(o)
  PROVE  SlotsMatchDelegates'
<1>1. ActiveDelegates(o)' = {}
  <2> SUFFICES ASSUME NEW x \in Devices PROVE x \notin ActiveDelegates(o)'
    BY DEF ActiveDelegates
  <2>1. devices'[x].operatorOmni # o
    BY ResetRows, RegistryAssumption DEF NoEntry
  <2> QED BY <2>1 DEF ActiveDelegates
<1>2. ASSUME NEW p \in Operators, p # o
      PROVE  ActiveDelegates(p)' = ActiveDelegates(p)
  <2>1. \A x \in Devices :
          \/ devices'[x] = devices[x]
          \/ devices[x].operatorOmni = o /\ devices'[x].operatorOmni = NoOperator
    BY ResetRows DEF NoEntry
  <2> QED BY <1>2, <2>1, RegistryAssumption
          DEF ActiveDelegates, isActive, Registered
<1>3. agentSlotsUsed' = [agentSlotsUsed EXCEPT ![o] = 0]
  BY DEF resetMaster
<1>4. agentSlotsUsed \in [Operators -> 0..U16Max]
  BY DEF TypeOK
<1>5. Cardinality(ActiveDelegates(o)') = 0
  BY <1>1, FS_EmptySet
<1> QED BY <1>2, <1>3, <1>4, <1>5 DEF SlotsMatchDelegates

LEMMA SlotsNext ==
  ASSUME TypeOK, ListsMatchRows, SlotsMatchDelegates, [Next]_vars
  PROVE  SlotsMatchDelegates'
<1>1. CASE KeepStep
  <2>1. \A o \in Operators : ActiveDelegates(o)' = ActiveDelegates(o)
    BY <1>1 DEF KeepStep, SameRow, ActiveDelegates, isActive, Registered
  <2> QED BY <1>1, <2>1, SlotsKeep DEF KeepStep
<1> QED BY <1>1, SlotsRegister, SlotsRevoke, SlotsReset, StepShape

LEMMA SlotsInit == Init => SlotsMatchDelegates
<1> SUFFICES ASSUME Init, NEW o \in Operators
             PROVE  agentSlotsUsed[o] = Cardinality(ActiveDelegates(o))
  BY DEF SlotsMatchDelegates
<1>1. ActiveDelegates(o) = {}
  BY DEF Init, ActiveDelegates, isActive, Registered, NoEntry
<1> QED BY <1>1, FS_EmptySet DEF Init

\* The spawn quota counts exactly the operator's live delegates, for any number
\* of operators, devices and allowances.  The lists are part of the inductive
\* invariant: only through them does a reset delete the rows it stops counting.
THEOREM SlotsCorrect == Spec => []SlotsMatchDelegates
<1> DEFINE IInv == TypeOK /\ ListsMatchRows /\ SlotsMatchDelegates
<1>1. Init => IInv
  BY TypeInit, ListsInit, SlotsInit
<1>2. IInv /\ [Next]_vars => IInv'
  BY TypeNext, ListsNext, SlotsNext
<1> QED BY <1>1, <1>2, PTL DEF Spec
-----------------------------------------------------------------------------
\* A revoked key stays revoked until a reset deletes its row: no registration
\* path and no sign-count update can touch it (SidecarRegistry.sol:182, :321).
THEOREM RevocationPermanent == Spec => RevokedStaysRevoked
<1>1. ASSUME TypeOK, [Next]_vars, NEW d \in Devices, devices[d].revoked
      PROVE  devices'[d] = devices[d] \/ devices'[d] = NoEntry
  <2>1. CASE KeepStep
    BY <1>1, <2>1 DEF KeepStep, SameRow
  <2>2. ASSUME NEW e \in Devices, NEW o \in Operators, RegisterStep(e, o)
        PROVE  devices'[d] = devices[d]
    BY <1>1, <2>2, RowCases DEF RegisterStep, SameRow
  <2>3. ASSUME NEW e \in Devices, RevokeStep(e)
        PROVE  devices'[d] = devices[d]
    BY <1>1, <2>3 DEF RevokeStep, SameRow, isActive
  <2>4. ASSUME NEW o \in Operators, resetMaster(o)
        PROVE  devices'[d] = devices[d] \/ devices'[d] = NoEntry
    BY <2>4 DEF resetMaster
  <2> QED BY <1>1, <2>1, <2>2, <2>3, <2>4, StepShape
<1>2. TypeOK /\ [Next]_vars
        => [\A d \in Devices :
              devices[d].revoked => \/ devices'[d] = devices[d]
                                    \/ devices'[d] = NoEntry]_vars
  BY <1>1
<1> QED BY <1>2, TypeCorrect, PTL DEF Spec, RevokedStaysRevoked
-----------------------------------------------------------------------------
\* Accepted assertions carry a nonce the registry has moved past.
NonceAhead ==
  \A a \in accepted : a.challenge.nonce < operatorNonce[a.challenge.operatorOmni]

LEMMA NoncePasses ==
  ASSUME TypeOK, NonceAhead, replayed = {}, NEW o \in Operators, NEW A, NEW c,
         NEW t, VerifyQuorum(A, c, o, t), c.operatorOmni = o,
         c.nonce = operatorNonce[o]
  PROVE  NonceAhead' /\ replayed' = {}
<1>1. /\ A \subseteq signed /\ accepted \subseteq signed
      /\ \A a \in A : a.challenge = c
      /\ operatorNonce' = [operatorNonce EXCEPT ![o] = @ + 1]
      /\ accepted' = accepted \cup A
      /\ replayed' = replayed \cup (A \cap accepted)
  BY DEF VerifyQuorum, ValidK11, ConsumeNonce, TypeOK
<1>2. operatorNonce \in [Operators -> Nat]
  BY DEF TypeOK
<1>3. \A a \in signed : /\ a.challenge.operatorOmni \in Operators
                        /\ a.challenge.nonce \in Int
  <2> SUFFICES ASSUME NEW a \in signed
               PROVE  /\ a.challenge.operatorOmni \in Operators
                      /\ a.challenge.nonce \in Int
    OBVIOUS
  <2>1. a \in Assertions
    BY DEF TypeOK
  <2>2. a.challenge \in Challenges
    BY <2>1 DEF Assertions
  <2>3. MaxNonce \in Nat
    BY RegistryAssumption
  <2> QED BY <2>2, <2>3 DEF Challenges
<1>4. A \cap accepted = {}
  BY <1>1, <1>2 DEF NonceAhead
<1>5. \A a \in accepted' :
        a.challenge.nonce < operatorNonce'[a.challenge.operatorOmni]
  BY <1>1, <1>2, <1>3 DEF NonceAhead
<1> QED BY <1>1, <1>4, <1>5 DEF NonceAhead

LEMMA NonceNext ==
  ASSUME TypeOK, NonceAhead, replayed = {}, [Next]_vars
  PROVE  NonceAhead' /\ replayed' = {}
<1>1. ASSUME UNCHANGED <<operatorNonce, accepted, replayed>>
      PROVE  NonceAhead' /\ replayed' = {}
  BY <1>1 DEF NonceAhead
<1>2. ASSUME NEW sender \in Accounts, NEW d \in Devices, NEW o \in Operators,
             NEW actor \in Actors, NEW roles \in RoleSets,
             registerAdditionalMasterDevice(sender, d, o, actor, roles)
      PROVE  NonceAhead' /\ replayed' = {}
  <2> DEFINE c == [op |-> "REGISTER_2ND_MASTER", operatorOmni |-> o,
                   target |-> d, roles |-> roles, nonce |-> operatorNonce[o]]
  <2>1. c.operatorOmni = o /\ c.nonce = operatorNonce[o]
    OBVIOUS
  <2>2. PICK a : VerifyQuorum({a}, c, o, 1)
    BY <1>2 DEF registerAdditionalMasterDevice
  <2> HIDE DEF c
  <2> QED BY <2>1, <2>2, NoncePasses
<1>3. ASSUME NEW sender \in Accounts, NEW d \in Devices, NEW A,
             revokeMasterDevice(sender, d, A)
      PROVE  NonceAhead' /\ replayed' = {}
  <2> DEFINE o == devices[d].operatorOmni
             c == [op |-> "REVOKE_MASTER", operatorOmni |-> o, target |-> d,
                   nonce |-> operatorNonce[o]]
  <2>1. o \in Operators
    BY <1>3, RowCases DEF revokeMasterDevice, isActive, DeviceEntry
  <2>2. VerifyQuorum(A, c, o, MinRequired(o))
    BY <1>3 DEF revokeMasterDevice
  <2>3. c.operatorOmni = o /\ c.nonce = operatorNonce[o]
    OBVIOUS
  <2> HIDE DEF o, c
  <2> QED BY <2>1, <2>2, <2>3, NoncePasses
<1>4. ASSUME NEW sender \in Accounts, NEW o \in Operators,
             NEW n \in 1..Cardinality(Devices), setRecoveryThreshold(sender, o, n)
      PROVE  NonceAhead' /\ replayed' = {}
  <2> DEFINE c == [op |-> "SET_THRESHOLD", operatorOmni |-> o, threshold |-> n,
                   nonce |-> operatorNonce[o]]
  <2>1. c.operatorOmni = o /\ c.nonce = operatorNonce[o]
    OBVIOUS
  <2>2. PICK a : VerifyQuorum({a}, c, o, 1)
    BY <1>4 DEF setRecoveryThreshold
  <2> HIDE DEF c
  <2> QED BY <2>1, <2>2, NoncePasses
<1>5. ASSUME NEW a \in signed, ForgetAssertion(a)
      PROVE  NonceAhead' /\ replayed' = {}
  BY <1>5 DEF ForgetAssertion, NonceAhead, quorumVars
<1>6. CASE OwnerNext
  BY <1>1, <1>6 DEF OwnerNext, setDefaultAgentSlotAllowance, quorumVars, k11Vars,
     setAgentSlotAllowance, clearAgentSlotAllowance
<1>7. CASE \E d \in Devices, c \in Challenges : SignChallenge(d, c)
  BY <1>1, <1>7 DEF SignChallenge, quorumVars
<1>8. CASE MasterNext
  <2>1. ASSUME NEW sender \in Accounts, NEW d \in Devices, NEW o \in Operators,
               NEW actor \in Actors,
               \/ \E roles \in RoleSets :
                    registerFirstMasterDevice(sender, d, o, actor, roles)
               \/ registerAgentDevice(sender, d, o, actor)
               \/ registerDelegate(sender, d, o, actor)
        PROVE  UNCHANGED <<operatorNonce, accepted, replayed>>
    BY <2>1 DEF registerFirstMasterDevice, registerAgentDevice, registerDelegate,
                RegisterK10Actor, quorumVars, k11Vars
  <2>2. ASSUME NEW sender \in Accounts, NEW d \in Devices,
               revokeAgentDevice(sender, d)
        PROVE  UNCHANGED <<operatorNonce, accepted, replayed>>
    BY <2>2 DEF revokeAgentDevice, quorumVars, k11Vars
  <2> QED BY <1>1, <1>2, <1>3, <1>8, <2>1, <2>2 DEF MasterNext
<1>9. CASE UNCHANGED vars
  BY <1>1, <1>9 DEF vars, quorumVars, k11Vars
<1>10. ASSUME NEW o \in Operators, resetMaster(o)
       PROVE  NonceAhead' /\ replayed' = {}
  <2>1. /\ accepted' = {a \in accepted : a.challenge.operatorOmni # o}
        /\ operatorNonce' = [operatorNonce EXCEPT ![o] = 0]
        /\ replayed' = replayed
    BY <1>10 DEF resetMaster
  <2>2. operatorNonce \in [Operators -> Nat]
    BY DEF TypeOK
  <2>3. \A a \in accepted' :
          operatorNonce'[a.challenge.operatorOmni] = operatorNonce[a.challenge.operatorOmni]
    BY <2>1, <2>2
  <2> QED BY <2>1, <2>3 DEF NonceAhead
<1> QED BY <1>4, <1>5, <1>6, <1>7, <1>8, <1>9, <1>10
        DEF Next, QuorumNext, AuthenticatorNext, ResetNext

\* Between two resets of its operator no K11 assertion is accepted twice,
\* whatever the authenticators count and however long an assertion is held: an
\* accepted challenge names a nonce below the operator's
\* (SidecarRegistry.sol:553, :620).
THEOREM SingleUse == Spec => []AcceptedAtMostOnce
<1> DEFINE IInv == TypeOK /\ NonceAhead /\ replayed = {}
<1>1. Init => IInv
  BY TypeInit DEF Init, NonceAhead
<1>2. IInv /\ [Next]_vars => IInv'
  BY TypeNext, NonceNext
<1>3. IInv => AcceptedAtMostOnce
  BY DEF AcceptedAtMostOnce
<1> QED BY <1>1, <1>2, <1>3, PTL DEF Spec
-----------------------------------------------------------------------------
(***************************************************************************)
(* The recovery quorum.  A registration only adds to the positions of live *)
(* recovery masters and a revocation takes away at most one, which is what *)
(* the contract's count minus one stands for.                              *)
(***************************************************************************)
LEMMA PositionsFinite ==
  ASSUME TypeOK, NEW o \in Operators
  PROVE  /\ IsFiniteSet(RecoveryPositions(o))
         /\ Cardinality(RecoveryPositions(o)) \in Nat
         /\ activeRecoveryMasterCount(o) \in Nat
         /\ activeRecoveryMasterCount(o) <= Cardinality(RecoveryPositions(o))
<1>0. operatorDevices[o] \in Seq(Devices)
  BY DEF TypeOK
<1>1. /\ RecoveryPositions(o) \subseteq 1..Len(operatorDevices[o])
      /\ Len(operatorDevices[o]) \in Nat
  BY <1>0 DEF RecoveryPositions
<1>2. IsFiniteSet(1..Len(operatorDevices[o]))
  BY <1>1, FS_Interval
<1>3. IsFiniteSet(RecoveryPositions(o))
  BY <1>1, <1>2, FS_Subset
<1>4. Cardinality(RecoveryPositions(o)) \in Nat
  BY <1>3, FS_CardinalityType
<1> QED BY <1>3, <1>4, WidthType DEF activeRecoveryMasterCount

\* An operator whose list and listed rows stay keeps its recovery masters.
LEMMA PositionsKeep ==
  ASSUME TypeOK, NEW o \in Operators, operatorDevices'[o] = operatorDevices[o],
         \A i \in DOMAIN operatorDevices[o] : SameRow(operatorDevices[o][i])
  PROVE  RecoveryPositions(o)' = RecoveryPositions(o)
BY DEF RecoveryPositions, SameRow, isActive, Registered

\* What a step does to the recovery masters of an operator.
LEMMA PositionsStep ==
  ASSUME TypeOK, ListsMatchRows, [Next]_vars, NEW o \in Operators
  PROVE  \/ RecoveryPositions(o)' = RecoveryPositions(o)
         \/ \E d \in Devices : /\ RegisterStep(d, o) /\ devices'[d].tier = "MASTER"
                               /\ RecoveryPositions(o) \subseteq RecoveryPositions(o)'
         \/ \E d \in Devices, i \in DOMAIN operatorDevices[o] :
              /\ RevokeStep(d) /\ devices[d].tier = "MASTER" /\ devices[d].operatorOmni = o
              /\ RecoveryPositions(o)' = RecoveryPositions(o) \ {i}
         \/ resetMaster(o)
<1> DEFINE L == operatorDevices
<1>0. /\ L[o] \in Seq(Devices) /\ DOMAIN L[o] = 1..Len(L[o]) /\ Len(L[o]) \in Nat
      /\ \A i \in DOMAIN L[o] : L[o][i] \in Devices /\ devices[L[o][i]].operatorOmni = o
  BY DEF TypeOK, ListsMatchRows
<1>1. CASE KeepStep
  BY <1>0, <1>1, PositionsKeep DEF KeepStep
<1>2. ASSUME NEW d \in Devices, NEW p \in Operators, RegisterStep(d, p)
      PROVE  \/ RecoveryPositions(o)' = RecoveryPositions(o)
             \/ /\ p = o /\ devices'[d].tier = "MASTER"
                /\ RecoveryPositions(o) \subseteq RecoveryPositions(o)'
  <2>1. \A i \in DOMAIN L[o] : L[o][i] # d /\ SameRow(L[o][i])
    BY <1>0, <1>2, RegistryAssumption DEF RegisterStep, Registered
  <2>2. CASE p # o
    <3>1. L'[o] = L[o]
      BY <1>2, <2>2 DEF RegisterStep, TypeOK
    <3> QED BY <2>1, <3>1, PositionsKeep
  <2>3. CASE p = o
    <3>1. /\ DOMAIN L'[o] = DOMAIN L[o] \cup {Len(L[o]) + 1}
          /\ \A i \in DOMAIN L[o] : L'[o][i] = L[o][i]
          /\ L'[o][Len(L[o]) + 1] = d
          /\ Len(L[o]) + 1 \notin DOMAIN L[o]
      BY <1>0, <1>2, <2>3 DEF RegisterStep, TypeOK
    <3>2. \A i \in DOMAIN L[o] : i \in RecoveryPositions(o)' <=> i \in RecoveryPositions(o)
      BY <2>1, <3>1 DEF RecoveryPositions, SameRow, isActive, Registered
    <3>3. /\ RecoveryPositions(o) \subseteq DOMAIN L[o]
          /\ RecoveryPositions(o)' \subseteq DOMAIN L'[o]
      BY DEF RecoveryPositions
    <3>4. Len(L[o]) + 1 \in RecoveryPositions(o)' => devices'[d].tier = "MASTER"
      BY <3>1 DEF RecoveryPositions
    <3>5. RecoveryPositions(o) \subseteq RecoveryPositions(o)'
      BY <3>2, <3>3
    <3>6. CASE devices'[d].tier = "MASTER"
      BY <2>3, <3>5, <3>6
    <3>7. CASE devices'[d].tier # "MASTER"
      BY <3>1, <3>2, <3>3, <3>4, <3>5, <3>7
    <3> QED BY <3>6, <3>7
  <2> QED BY <2>2, <2>3
<1>3. ASSUME NEW d \in Devices, RevokeStep(d)
      PROVE  \/ RecoveryPositions(o)' = RecoveryPositions(o)
             \/ /\ devices[d].tier = "MASTER" /\ devices[d].operatorOmni = o
                /\ \E i \in DOMAIN L[o] :
                     RecoveryPositions(o)' = RecoveryPositions(o) \ {i}
  <2>1. L'[o] = L[o]
    BY <1>3 DEF RevokeStep
  <2>2. CASE devices[d].operatorOmni # o
    <3>1. \A i \in DOMAIN L[o] : SameRow(L[o][i])
      BY <1>0, <1>3, <2>2 DEF RevokeStep
    <3> QED BY <2>1, <3>1, PositionsKeep
  <2>3. CASE devices[d].operatorOmni = o
    <3>1. PICK i \in DOMAIN L[o] : L[o][i] = d
      BY <1>3, <2>3 DEF RevokeStep, isActive, ListsMatchRows
    <3>2. \A j \in DOMAIN L[o] : j # i => L[o][j] # d
      BY <3>1 DEF ListsMatchRows
    <3>3. \A j \in DOMAIN L[o] : j # i =>
            (j \in RecoveryPositions(o)' <=> j \in RecoveryPositions(o))
      BY <1>0, <1>3, <2>1, <3>2
         DEF RevokeStep, RecoveryPositions, SameRow, isActive, Registered
    <3>4. i \notin RecoveryPositions(o)'
      BY <1>3, <2>1, <3>1 DEF RevokeStep, RecoveryPositions, isActive
    <3>5. /\ RecoveryPositions(o) \subseteq DOMAIN L[o]
          /\ RecoveryPositions(o)' \subseteq DOMAIN L[o]
      BY <2>1 DEF RecoveryPositions
    <3>6. RecoveryPositions(o)' = RecoveryPositions(o) \ {i}
      BY <3>3, <3>4, <3>5
    <3>7. CASE devices[d].tier # "MASTER"
      <4>1. i \notin RecoveryPositions(o)
        BY <3>1, <3>7 DEF RecoveryPositions
      <4> QED BY <3>6, <4>1
    <3>8. CASE devices[d].tier = "MASTER"
      BY <2>3, <3>6, <3>8
    <3> QED BY <3>7, <3>8
  <2> QED BY <2>2, <2>3
<1>4. ASSUME NEW p \in Operators, resetMaster(p), p # o
      PROVE  RecoveryPositions(o)' = RecoveryPositions(o)
  <2>1. L'[o] = L[o]
    BY <1>4 DEF resetMaster, TypeOK
  <2>2. \A i \in DOMAIN L[o] : devices'[L[o][i]] = devices[L[o][i]]
    BY <1>0, <1>4, ResetRows
  <2> QED BY <2>1, <2>2, PositionsKeep DEF SameRow
<1> HIDE DEF L
<1>5. \/ KeepStep
      \/ \E d \in Devices, p \in Operators : RegisterStep(d, p)
      \/ \E d \in Devices : RevokeStep(d)
      \/ \E p \in Operators : resetMaster(p)
  BY StepShape
<1> QED BY <1>1, <1>2, <1>3, <1>4, <1>5 DEF L

\* A revocation leaves the masters the threshold asks for.
LEMMA RevocationLeaves ==
  ASSUME TypeOK, NEW o \in Operators, NEW i,
         RemainingAfter(o) >= MinRequired(o),
         RecoveryPositions(o)' = RecoveryPositions(o) \ {i}
  PROVE  /\ Cardinality(RecoveryPositions(o)') \in Nat
         /\ Cardinality(RecoveryPositions(o)') >= 1
         /\ Cardinality(RecoveryPositions(o)') >= recoveryThreshold[o]
<1>1. /\ IsFiniteSet(RecoveryPositions(o)) /\ Cardinality(RecoveryPositions(o)) \in Nat
      /\ activeRecoveryMasterCount(o) \in Nat
      /\ activeRecoveryMasterCount(o) <= Cardinality(RecoveryPositions(o))
  BY PositionsFinite
<1>2. recoveryThreshold[o] \in 0..U8Max
  BY DEF TypeOK
<1>3. PICK S : S = RecoveryPositions(o)
  OBVIOUS
<1>4. /\ IsFiniteSet(S \ {i})
      /\ Cardinality(S \ {i}) = IF i \in S THEN Cardinality(S) - 1 ELSE Cardinality(S)
  BY <1>1, <1>3, FS_RemoveElement
<1>5. Cardinality(S \ {i}) \in Nat
  BY <1>4, FS_CardinalityType
<1>6. Cardinality(S \ {i}) >= Cardinality(S) - 1
  BY <1>1, <1>3, <1>4
<1> QED BY <1>1, <1>2, <1>3, <1>5, <1>6, WidthType DEF RemainingAfter, MinRequired

LEMMA QuorumNextInv ==
  ASSUME TypeOK, ListsMatchRows, QuorumSatisfiable, [Next]_vars
  PROVE  QuorumSatisfiable'
<1> SUFFICES ASSUME NEW o \in Operators, RecoveryPositions(o)' # {}
             PROVE  recoveryThreshold'[o] \in 1..Cardinality(RecoveryPositions(o)')
  BY DEF QuorumSatisfiable
<1>0. TypeOK'
  BY TypeNext
<1>1. /\ IsFiniteSet(RecoveryPositions(o)) /\ Cardinality(RecoveryPositions(o)) \in Nat
      /\ activeRecoveryMasterCount(o) <= Cardinality(RecoveryPositions(o))
      /\ activeRecoveryMasterCount(o) \in Nat
  BY PositionsFinite
<1>2. /\ IsFiniteSet(RecoveryPositions(o)')
      /\ Cardinality(RecoveryPositions(o)') \in Nat \ {0}
  <2>0. operatorDevices'[o] \in Seq(Devices)
    BY <1>0 DEF TypeOK
  <2>1. /\ RecoveryPositions(o)' \subseteq 1..Len(operatorDevices'[o])
        /\ Len(operatorDevices'[o]) \in Nat
    BY <2>0 DEF RecoveryPositions
  <2>2. IsFiniteSet(1..Len(operatorDevices'[o]))
    BY <2>1, FS_Interval
  <2>3. IsFiniteSet(RecoveryPositions(o)')
    BY <2>1, <2>2, FS_Subset
  <2> QED BY <2>3, FS_CardinalityType, FS_EmptySet
<1>3. recoveryThreshold \in [Operators -> 0..U8Max]
  BY DEF TypeOK
<1>4. \/ recoveryThreshold'[o] = recoveryThreshold[o]
      \/ \E n \in Nat \ {0} : /\ n <= activeRecoveryMasterCount(o) /\ KeepStep
                              /\ recoveryThreshold'[o] = n
      \/ recoveryThreshold'[o] = 1
      \/ recoveryThreshold'[o] = 0 /\ resetMaster(o)
  <2>1. CASE KeepStep
    BY <1>3, <2>1 DEF KeepStep, NewThreshold
  <2>2. CASE \E d \in Devices, p \in Operators : RegisterStep(d, p)
    BY <1>3, <2>2 DEF RegisterStep, NewThreshold
  <2>3. CASE \E d \in Devices : RevokeStep(d)
    BY <2>3 DEF RevokeStep
  <2>4. CASE \E p \in Operators : resetMaster(p)
    BY <1>3, <2>4 DEF resetMaster
  <2> QED BY <2>1, <2>2, <2>3, <2>4, StepShape
<1>5. ~resetMaster(o)
  <2> SUFFICES ASSUME resetMaster(o) PROVE RecoveryPositions(o)' = {}
    OBVIOUS
  <2>1. operatorDevices'[o] = <<>>
    BY DEF resetMaster, TypeOK
  <2> QED BY <2>1 DEF RecoveryPositions
<1>6. CASE recoveryThreshold'[o] = 1
  BY <1>2, <1>6
<1>7. ASSUME NEW n \in Nat \ {0}, n <= activeRecoveryMasterCount(o), KeepStep,
             recoveryThreshold'[o] = n
      PROVE  recoveryThreshold'[o] \in 1..Cardinality(RecoveryPositions(o)')
  <2>1. \A i \in DOMAIN operatorDevices[o] : operatorDevices[o][i] \in Devices
    BY DEF TypeOK
  <2>2. RecoveryPositions(o)' = RecoveryPositions(o)
    BY <1>7, <2>1, PositionsKeep DEF KeepStep
  <2> QED BY <1>1, <1>7, <2>2
<1>8. CASE recoveryThreshold'[o] = recoveryThreshold[o]
  <2>1. CASE RecoveryPositions(o)' = RecoveryPositions(o)
    BY <1>8, <2>1 DEF QuorumSatisfiable
  <2>2. ASSUME NEW d \in Devices, RegisterStep(d, o), devices'[d].tier = "MASTER",
               RecoveryPositions(o) \subseteq RecoveryPositions(o)'
        PROVE  recoveryThreshold'[o] \in 1..Cardinality(RecoveryPositions(o)')
    <3>1. CASE NewThreshold(o, 1)
      BY <1>2, <1>3, <3>1 DEF NewThreshold
    <3>2. CASE \E x \in Devices : RecoveryMaster(x, o)
      <4>1. PICK x \in Devices : RecoveryMaster(x, o)
        BY <3>2
      <4>2. PICK i \in DOMAIN operatorDevices[o] : operatorDevices[o][i] = x
        BY <4>1 DEF RecoveryMaster, isActive, ListsMatchRows
      <4>3. i \in RecoveryPositions(o)
        BY <4>1, <4>2 DEF RecoveryPositions, RecoveryMaster
      <4>4. recoveryThreshold[o] \in 1..Cardinality(RecoveryPositions(o))
        BY <4>3 DEF QuorumSatisfiable
      <4>5. Cardinality(RecoveryPositions(o)) <= Cardinality(RecoveryPositions(o)')
        BY <1>2, <2>2, FS_Subset
      <4> QED BY <1>1, <1>2, <1>8, <4>4, <4>5
    <3> QED BY <2>2, <3>1, <3>2 DEF RegisterStep
  <2>3. ASSUME NEW d \in Devices, NEW i, RevokeStep(d), devices[d].tier = "MASTER",
               devices[d].operatorOmni = o,
               RecoveryPositions(o)' = RecoveryPositions(o) \ {i}
        PROVE  recoveryThreshold'[o] \in 1..Cardinality(RecoveryPositions(o)')
    <3>1. RemainingAfter(o) >= MinRequired(o)
      BY <2>3 DEF RevokeStep
    <3>2. /\ Cardinality(RecoveryPositions(o)') \in Nat
          /\ Cardinality(RecoveryPositions(o)') >= recoveryThreshold[o]
      BY <2>3, <3>1, RevocationLeaves
    <3>3. recoveryThreshold[o] \in 1..Cardinality(RecoveryPositions(o))
      BY <2>3 DEF QuorumSatisfiable
    <3> QED BY <1>1, <1>8, <3>2, <3>3
  <2> QED BY <1>5, <2>1, <2>2, <2>3, PositionsStep
<1> QED BY <1>4, <1>5, <1>6, <1>7, <1>8

\* The recovery quorum can be met by live masters in every reachable state,
\* for any number of masters, up to and past the saturation of the count at
\* 255: whatever order of registrations, revocations and threshold changes led
\* there (SidecarRegistry.sol:409, :468).
THEOREM QuorumCanBeMet == Spec => []QuorumSatisfiable
<1> DEFINE IInv == TypeOK /\ ListsMatchRows /\ QuorumSatisfiable
<1>1. Init => QuorumSatisfiable
  BY DEF Init, QuorumSatisfiable, RecoveryPositions
<1>2. Init => IInv
  BY <1>1, TypeInit, ListsInit
<1>3. IInv /\ [Next]_vars => IInv'
  BY TypeNext, ListsNext, QuorumNextInv
<1> QED BY <1>2, <1>3, PTL DEF Spec

\* The last live recovery master of an operator goes only through resetMaster:
\* the contract counts what a revocation would leave (SidecarRegistry.sol:404).
THEOREM LastMasterStays == Spec => NeverStranded
<1> DEFINE A == \A o \in Operators :
                  /\ RecoveryPositions(o) # {}
                  /\ operatorMasterWallet'[o] # NoAccount
                  => RecoveryPositions(o)' # {}
<1>1. ASSUME TypeOK, ListsMatchRows, [Next]_vars PROVE A
  <2> SUFFICES ASSUME NEW o \in Operators, RecoveryPositions(o) # {},
                      operatorMasterWallet'[o] # NoAccount
               PROVE  RecoveryPositions(o)' # {}
    OBVIOUS
  <2>1. ~resetMaster(o)
    BY <1>1 DEF resetMaster, TypeOK
  <2>2. ASSUME NEW d \in Devices, NEW i, RevokeStep(d), devices[d].tier = "MASTER",
               devices[d].operatorOmni = o,
               RecoveryPositions(o)' = RecoveryPositions(o) \ {i}
        PROVE  RecoveryPositions(o)' # {}
    <3>1. RemainingAfter(o) >= MinRequired(o)
      BY <2>2 DEF RevokeStep
    <3>2. Cardinality(RecoveryPositions(o)') >= 1
      BY <1>1, <2>2, <3>1, RevocationLeaves
    <3> QED BY <3>2, FS_EmptySet
  <2> QED BY <1>1, <2>1, <2>2, PositionsStep
<1>2. TypeOK /\ ListsMatchRows /\ [Next]_vars => [A]_vars
  BY <1>1
<1> HIDE DEF A
<1>3. Spec => [][A]_vars
  BY <1>2, TypeCorrect, ListsCorrect, PTL DEF Spec
<1> QED BY <1>3 DEF NeverStranded, A
=============================================================================
