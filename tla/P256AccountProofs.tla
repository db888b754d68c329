-------------------------- MODULE P256AccountProofs --------------------------
(***************************************************************************)
(* Proofs about P256Account for every set of credentials, guardians and    *)
(* passkeys and every bundle length: the counters are exact, the account   *)
(* is never without a live signer, a recovery evicts every earlier key,    *)
(* takes a full quorum of distinct passkeys and uses each assertion once.  *)
(***************************************************************************)
EXTENDS P256Account, FiniteSetTheorems, TLAPS

LEMMA WidthType == U8Max \in Nat
  BY DEF U8Max

\* A generation is never ahead of the account's: recover() moves past them all.
GenerationsPast == \A c \in CredIds : signers[c].generation <= signerGeneration

\* What made an assertion count is spent: its nonce is behind the account's.
NoncesPast == \A a \in accepted : a.nonce < recoveryNonce

\* A live entry holds a real key.
KeysSet == \A c \in CredIds : signers[c].active => signers[c].key \in Keys

IInv ==
  /\ TypeOK
  /\ SignersCounted
  /\ GuardiansCounted
  /\ EvictedStayOut
  /\ RecoveryAtMostOnce
  /\ GenerationsPast
  /\ NoncesPast
  /\ KeysSet

LEMMA LiveFinite ==
  /\ IsFiniteSet(LiveSigners) /\ Cardinality(LiveSigners) \in Nat
  /\ IsFiniteSet(ActiveGuardians) /\ Cardinality(ActiveGuardians) \in Nat
<1>1. LiveSigners \in SUBSET CredIds /\ ActiveGuardians \in SUBSET GuardianIds
  BY DEF LiveSigners, ActiveGuardians
<1> QED BY <1>1, AccountAssumption, FS_Subset, FS_CardinalityType

LEMMA IInvInit == Init => IInv
<1> SUFFICES ASSUME Init PROVE IInv
  OBVIOUS
<1>1. PICK c \in CredIds, k \in Keys :
        signers = [x \in CredIds |->
                     IF x = c THEN [key |-> k, active |-> TRUE, generation |-> 0]
                              ELSE NoSigner]
  BY DEF Init
<1>2. LiveSigners = {c} /\ ActiveGuardians = {}
  BY <1>1 DEF Init, LiveSigners, ActiveGuardians, signerActive, NoSigner, NoGuardian
<1>3. TypeOK
  <2>1. signers \in [CredIds -> Signer]
    BY <1>1 DEF Signer, NoSigner
  <2>2. guardians \in [GuardianIds -> Guardian]
    BY DEF Init, Guardian, NoGuardian
  <2>3. bundle \in Seq(Calls)
    BY DEF Init
  <2>4. executing \in BOOLEAN
    BY DEF Init
  <2>5. recoveryThreshold \in 0..U8Max
    BY WidthType DEF Init
  <2>6. /\ activeSignerCount \in Nat /\ signerGeneration \in Nat
        /\ activeGuardianCount \in Nat /\ recoveryNonce \in Nat
    BY DEF Init
  <2>7. /\ held \in SUBSET Assertions /\ accepted \subseteq held
        /\ replayed \subseteq held /\ evicted \subseteq Keys
    BY DEF Init
  <2> QED BY <2>1, <2>2, <2>3, <2>4, <2>5, <2>6, <2>7 DEF TypeOK
<1>4. SignersCounted /\ GuardiansCounted
  <2>1. Cardinality(LiveSigners) = 1 /\ LiveSigners # {}
    BY <1>2, FS_Singleton
  <2>2. Cardinality(ActiveGuardians) = 0
    BY <1>2, FS_EmptySet
  <2> QED BY <2>1, <2>2 DEF Init, SignersCounted, GuardiansCounted
<1>5. EvictedStayOut /\ RecoveryAtMostOnce /\ NoncesPast
  BY DEF Init, EvictedStayOut, RecoveryAtMostOnce, NoncesPast
<1>6. GenerationsPast /\ KeysSet
  BY <1>1 DEF Init, GenerationsPast, KeysSet, NoSigner
<1> QED BY <1>3, <1>4, <1>5, <1>6 DEF IInv

\* Steps that leave signers and guardians alone.
LEMMA QuietStep ==
  ASSUME IInv, TypeOK', UNCHANGED <<signerVars, guardianVars, evicted>>,
         RecoveryAtMostOnce', NoncesPast'
  PROVE  IInv'
<1>1. LiveSigners' = LiveSigners /\ ActiveGuardians' = ActiveGuardians
  BY DEF LiveSigners, ActiveGuardians, signerActive, signerVars, guardianVars
<1> QED
  BY <1>1 DEF IInv, SignersCounted, GuardiansCounted, EvictedStayOut,
       GenerationsPast, KeysSet, signerVars, guardianVars

LEMMA HeadTail ==
  ASSUME TypeOK, bundle # <<>>
  PROVE  Head(bundle) \in Calls /\ Tail(bundle) \in Seq(Calls)
  BY DEF TypeOK

\* One executed call, by function.
LEMMA ExecuteCall ==
  ASSUME IInv, NEW call \in Calls, ~Reverts(call),
         \/ addSigner(call) \/ removeSigner(call)
         \/ addGuardian(call) \/ removeGuardian(call)
         \/ setRecoveryThreshold(call),
         UNCHANGED <<recoveryNonce, assertionVars>>,
         bundle' \in Seq(Calls), executing' \in BOOLEAN
  PROVE  IInv'
<1> USE DEF IInv
<1>0. /\ held' = held /\ accepted' = accepted /\ replayed' = replayed
      /\ recoveryNonce' = recoveryNonce
  BY DEF assertionVars
<1>n. RecoveryAtMostOnce' /\ NoncesPast'
  BY <1>0 DEF RecoveryAtMostOnce, NoncesPast
<1>1. CASE addSigner(call)
  <2>1. /\ call.cred \in CredIds /\ call.key \in Keys
        /\ ~signerActive(signers[call.cred])
    BY <1>1 DEF addSigner, Calls, Reverts
  <2>2. LiveSigners' = LiveSigners \cup {call.cred} /\ call.cred \notin LiveSigners
    BY <1>1, <2>1 DEF addSigner, LiveSigners, signerActive, TypeOK
  <2>3. ActiveGuardians' = ActiveGuardians
    BY <1>1 DEF addSigner, ActiveGuardians, guardianVars
  <2>4. TypeOK'
    BY <1>0, <1>1, <2>1 DEF addSigner, TypeOK, Signer, guardianVars
  <2>5. SignersCounted'
    BY <1>1, <2>2, LiveFinite, FS_AddElement DEF addSigner, SignersCounted
  <2>6. GuardiansCounted'
    BY <1>1, <2>3 DEF addSigner, GuardiansCounted, guardianVars
  <2>7. EvictedStayOut'
    BY <1>1, <2>1, <2>2 DEF addSigner, EvictedStayOut, TypeOK, LiveSigners
  <2>8. GenerationsPast' /\ KeysSet'
    BY <1>1, <2>1 DEF addSigner, GenerationsPast, KeysSet, TypeOK
  <2> QED BY <1>n, <2>4, <2>5, <2>6, <2>7, <2>8
<1>2. CASE removeSigner(call)
  <2>1. /\ call.cred \in CredIds
        /\ signerActive(signers[call.cred])
        /\ activeSignerCount > 1
    BY <1>2 DEF removeSigner, Calls, Reverts, TypeOK
  <2>2. LiveSigners' = LiveSigners \ {call.cred} /\ call.cred \in LiveSigners
    BY <1>2, <2>1 DEF removeSigner, LiveSigners, signerActive, TypeOK, Signer
  <2>3. ActiveGuardians' = ActiveGuardians
    BY <1>2 DEF removeSigner, ActiveGuardians, guardianVars
  <2>4. TypeOK'
    <3>1. activeSignerCount' \in Nat
      BY <1>2, <2>1 DEF removeSigner, TypeOK
    <3>2. signers' \in [CredIds -> Signer]
      BY <1>2, <2>1 DEF removeSigner, TypeOK, Signer
    <3> QED BY <1>0, <1>2, <3>1, <3>2 DEF removeSigner, TypeOK, guardianVars
  <2>5. SignersCounted'
    <3>1. Cardinality(LiveSigners') = Cardinality(LiveSigners) - 1
      BY <2>2, LiveFinite, FS_RemoveElement
    <3>2. Cardinality(LiveSigners) > 1
      BY <2>1 DEF SignersCounted
    <3>3. Cardinality(LiveSigners') # 0
      BY <3>1, <3>2, LiveFinite
    <3>4. LiveSigners' # {}
      BY <3>3, FS_EmptySet
    <3> QED BY <1>2, <3>1, <3>4 DEF removeSigner, SignersCounted
  <2>6. GuardiansCounted'
    BY <1>2, <2>3 DEF removeSigner, GuardiansCounted, guardianVars
  <2>7. EvictedStayOut'
    BY <1>2, <2>1, <2>2 DEF removeSigner, EvictedStayOut, TypeOK, LiveSigners, Signer
  <2>8. GenerationsPast' /\ KeysSet'
    BY <1>2, <2>1 DEF removeSigner, GenerationsPast, KeysSet, TypeOK, Signer
  <2> QED BY <1>n, <2>4, <2>5, <2>6, <2>7, <2>8
<1>g. ASSUME UNCHANGED <<signerVars, evicted>>
      PROVE  /\ SignersCounted' /\ EvictedStayOut' /\ GenerationsPast' /\ KeysSet'
             /\ signers' \in [CredIds -> Signer] /\ activeSignerCount' \in Nat
             /\ signerGeneration' \in Nat /\ evicted' \subseteq Keys
  <2>1. LiveSigners' = LiveSigners
    BY <1>g DEF LiveSigners, signerActive, signerVars
  <2> QED BY <1>g, <2>1 DEF SignersCounted, EvictedStayOut, GenerationsPast,
               KeysSet, TypeOK, signerVars
<1>3. CASE addGuardian(call)
  <2>1. /\ call.guardian \in GuardianIds /\ call.key \in Keys
        /\ ~guardians[call.guardian].active
    BY <1>3 DEF addGuardian, Calls, Reverts
  <2>2. /\ ActiveGuardians' = ActiveGuardians \cup {call.guardian}
        /\ call.guardian \notin ActiveGuardians
    BY <1>3, <2>1 DEF addGuardian, ActiveGuardians, TypeOK
  <2>3. TypeOK'
    BY <1>0, <1>3, <1>g, <2>1 DEF addGuardian, TypeOK, Guardian
  <2>4. GuardiansCounted'
    <3>1. Cardinality(ActiveGuardians') = Cardinality(ActiveGuardians) + 1
      BY <2>2, LiveFinite, FS_AddElement
    <3>2. recoveryThreshold \in Nat
      BY WidthType DEF TypeOK
    <3> QED BY <1>3, <3>1, <3>2 DEF addGuardian, GuardiansCounted, TypeOK
  <2> QED BY <1>3, <1>n, <1>g, <2>3, <2>4 DEF addGuardian
<1>4. CASE removeGuardian(call)
  <2>1. call.guardian \in GuardianIds /\ guardians[call.guardian].active
    BY <1>4 DEF removeGuardian, Calls, Reverts
  <2>2. /\ ActiveGuardians' = ActiveGuardians \ {call.guardian}
        /\ call.guardian \in ActiveGuardians
    BY <1>4, <2>1 DEF removeGuardian, ActiveGuardians, TypeOK, Guardian
  <2>3. Cardinality(ActiveGuardians') = Cardinality(ActiveGuardians) - 1
    BY <2>2, LiveFinite, FS_RemoveElement
  <2>4. Cardinality(ActiveGuardians) # 0
    BY <2>2, LiveFinite, FS_EmptySet
  <2>5. activeGuardianCount - 1 \in Nat
    BY <2>4, LiveFinite DEF GuardiansCounted
  <2>6. recoveryThreshold' \in 0..U8Max /\ recoveryThreshold' <= activeGuardianCount'
    BY <1>4, <2>5, WidthType DEF removeGuardian, ThresholdFor, TypeOK
  <2>7. TypeOK'
    BY <1>0, <1>4, <1>g, <2>1, <2>5, <2>6 DEF removeGuardian, TypeOK, Guardian
  <2>8. GuardiansCounted'
    BY <1>4, <2>3, <2>6 DEF removeGuardian, GuardiansCounted
  <2> QED BY <1>4, <1>n, <1>g, <2>7, <2>8 DEF removeGuardian
<1>5. CASE setRecoveryThreshold(call)
  <2>1. call.threshold \in Thresholds /\ ~(call.threshold > activeGuardianCount)
    BY <1>5 DEF setRecoveryThreshold, Calls, Reverts
  <2>2. call.threshold \in 0..U8Max
    BY <2>1, AccountAssumption
  <2>3. ActiveGuardians' = ActiveGuardians
    BY <1>5 DEF setRecoveryThreshold, ActiveGuardians
  <2>4. TypeOK'
    BY <1>0, <1>5, <1>g, <2>2 DEF setRecoveryThreshold, TypeOK
  <2>5. GuardiansCounted'
    BY <1>5, <2>1, <2>2, <2>3, WidthType
    DEF setRecoveryThreshold, GuardiansCounted, TypeOK
  <2> QED BY <1>5, <1>n, <1>g, <2>4, <2>5 DEF setRecoveryThreshold
<1> QED BY <1>1, <1>2, <1>3, <1>4, <1>5

LEMMA RecoverStep ==
  ASSUME IInv, NEW c \in CredIds, NEW new \in Keys, NEW G \in SUBSET GuardianIds,
         recover(c, new, G)
  PROVE  IInv'
<1> USE DEF IInv
<1>1. LiveSigners' = {c}
  BY DEF recover, LiveSigners, signerActive, TypeOK, Signer, GenerationsPast
<1>2. ActiveGuardians' = ActiveGuardians
  BY DEF recover, ActiveGuardians, guardianVars
<1>3. \A a \in ValidAssertions(G, c, new) : a \in held /\ a.nonce = recoveryNonce
  BY DEF ValidAssertions
<1>4. TypeOK'
  BY <1>3 DEF recover, TypeOK, Signer, guardianVars, entryPointVars, NextRecoveryNonce,
     KeysSet, LiveSigners, signerActive
<1>5. SignersCounted' /\ GuardiansCounted'
  BY <1>1, <1>2, FS_Singleton DEF recover, SignersCounted, GuardiansCounted, guardianVars
<1>6. EvictedStayOut'
  BY <1>1 DEF recover, EvictedStayOut, TypeOK
<1>7. GenerationsPast' /\ KeysSet'
  BY DEF recover, GenerationsPast, KeysSet, TypeOK, Signer
<1>8. RecoveryAtMostOnce' /\ NoncesPast'
  BY <1>3 DEF recover, RecoveryAtMostOnce, NoncesPast, TypeOK, Assertions, NextRecoveryNonce
<1> QED BY <1>4, <1>5, <1>6, <1>7, <1>8

LEMMA IInvNext == IInv /\ [Next]_vars => IInv'
<1> SUFFICES ASSUME IInv, [Next]_vars PROVE IInv'
  OBVIOUS
<1>t. TypeOK /\ RecoveryAtMostOnce /\ NoncesPast
  BY DEF IInv
<1>1. ASSUME NEW c \in CredIds, NEW call \in Calls, validateUserOp(c, call)
      PROVE  IInv'
  <2>1. TypeOK'
    BY <1>1, <1>t DEF validateUserOp, TypeOK, signerVars, guardianVars, assertionVars
  <2> QED BY <1>1, <1>t, <2>1, QuietStep
          DEF validateUserOp, RecoveryAtMostOnce, NoncesPast, assertionVars
<1>2. ASSUME execute PROVE IInv'
  <2>1. /\ Head(bundle) \in Calls
        /\ bundle' \in Seq(Calls) /\ executing' \in BOOLEAN
    BY <1>2, <1>t, HeadTail DEF execute
  <2>2. CASE Reverts(Head(bundle)) /\ UNCHANGED <<signerVars, guardianVars, evicted>>
    <3>1. TypeOK'
      BY <1>2, <1>t, <2>1, <2>2
      DEF execute, TypeOK, signerVars, guardianVars, assertionVars
    <3> QED BY <1>2, <1>t, <2>2, <3>1, QuietStep
            DEF execute, RecoveryAtMostOnce, NoncesPast, assertionVars
  <2>3. CASE ~Reverts(Head(bundle))
    BY <1>2, <2>1, <2>3, ExecuteCall DEF execute
  <2> QED BY <1>2, <2>2, <2>3 DEF execute
<1>3. ASSUME NEW k \in Keys, NEW new \in Keys, NEW c \in CredIds, SignRecovery(k, c, new)
      PROVE  IInv'
  <2>1. [by |-> k, cred |-> c, key |-> new, nonce |-> recoveryNonce] \in Assertions
    BY <1>3, <1>t, AccountAssumption DEF SignRecovery, Assertions, TypeOK
  <2>2. TypeOK'
    BY <1>3, <1>t, <2>1 DEF SignRecovery, TypeOK, signerVars, guardianVars, entryPointVars
  <2> QED BY <1>3, <1>t, <2>2, QuietStep DEF SignRecovery, RecoveryAtMostOnce, NoncesPast
<1>4. ASSUME NEW a \in held, ForgetAssertion(a) PROVE IInv'
  <2>1. TypeOK'
    BY <1>4, <1>t DEF ForgetAssertion, TypeOK, signerVars, guardianVars, entryPointVars
  <2> QED BY <1>4, <1>t, <2>1, QuietStep DEF ForgetAssertion, RecoveryAtMostOnce, NoncesPast
<1>5. CASE UNCHANGED vars
  <2>1. TypeOK'
    BY <1>5, <1>t DEF vars, TypeOK, signerVars, guardianVars, entryPointVars, assertionVars
  <2> QED BY <1>5, <1>t, <2>1, QuietStep
          DEF vars, RecoveryAtMostOnce, NoncesPast, assertionVars
<1> QED BY <1>1, <1>2, <1>3, <1>4, <1>5, RecoverStep DEF Next

LEMMA IInvCorrect == Spec => []IInv
  BY IInvInit, IInvNext, PTL DEF Spec

\* The types of the account's state hold in every reachable state.
THEOREM TypeCorrect == Spec => []TypeOK
<1>1. IInv => TypeOK
  BY DEF IInv
<1> QED BY <1>1, IInvCorrect, PTL

\* The signer counter is exact and the account always has a live signer, for
\* bundles of any length.
THEOREM NeverLockedOut == Spec => []SignersCounted
<1>1. IInv => SignersCounted
  BY DEF IInv
<1> QED BY <1>1, IInvCorrect, PTL

\* The guardian counter is exact and bounds the threshold.
THEOREM GuardiansExact == Spec => []GuardiansCounted
<1>1. IInv => GuardiansCounted
  BY DEF IInv
<1> QED BY <1>1, IInvCorrect, PTL

\* A key that a recovery evicted authorises nothing until it is enrolled anew.
THEOREM RecoveryEvicts == Spec => []EvictedStayOut
<1>1. IInv => EvictedStayOut
  BY DEF IInv
<1> QED BY <1>1, IInvCorrect, PTL

\* A guardian assertion counts in at most one recovery.
THEOREM RecoverySingleUse == Spec => []RecoveryAtMostOnce
<1>1. IInv => RecoveryAtMostOnce
  BY DEF IInv
<1> QED BY <1>1, IInvCorrect, PTL

\* A recovery counts as many distinct passkeys as guardians: the passkeys of
\* the guardians whose assertion verified are in bijection with them.
LEMMA QuorumKeys ==
  ASSUME IInv, NEW c \in CredIds, NEW new \in Keys, NEW G \in SUBSET GuardianIds,
         DistinctGuardians(G)
  PROVE  Cardinality({a.by : a \in ValidAssertions(G, c, new)})
           = Cardinality(ValidGuardians(G, c, new))
<1> DEFINE S == ValidGuardians(G, c, new)
           T == {a.by : a \in ValidAssertions(G, c, new)}
           f == [g \in S |-> guardians[g].key]
<1>1. S \in SUBSET GuardianIds /\ S \subseteq G
  BY DEF ValidGuardians
<1>2. IsFiniteSet(S)
  BY <1>1, AccountAssumption, FS_Subset
<1>3. f \in [S -> T]
  BY DEF ValidGuardians
<1>4. \A g, h \in S : f[g] = f[h] => g = h
  BY <1>1 DEF DistinctGuardians
<1>5. \A t \in T : \E g \in S : f[g] = t
  <2> SUFFICES ASSUME NEW a \in ValidAssertions(G, c, new)
               PROVE  \E g \in S : f[g] = a.by
    OBVIOUS
  <2>1. PICK g \in G : a.by = guardians[g].key
    BY DEF ValidAssertions
  <2>2. g \in S
    BY <2>1 DEF ValidGuardians
  <2> QED BY <2>1, <2>2
<1>6. f \in Bijection(S, T)
  BY <1>3, <1>4, <1>5 DEF Bijection, Injection, Surjection, IsInjective
<1>7. ExistsBijection(S, T)
  BY <1>6 DEF ExistsBijection
<1> QED BY <1>2, <1>7, FS_Bijection

\* Signers are replaced only by threshold-many distinct passkeys, each with an
\* assertion that never counted before.
THEOREM RecoveryQuorum == Spec => RecoveryNeedsQuorum
<1> DEFINE Q == signerGeneration' # signerGeneration =>
                  Cardinality({a.by : a \in accepted' \ accepted}) >= recoveryThreshold
<1>1. IInv /\ [Next]_vars => Q
  <2> SUFFICES ASSUME IInv, [Next]_vars, signerGeneration' # signerGeneration
               PROVE  Cardinality({a.by : a \in accepted' \ accepted}) >= recoveryThreshold
    OBVIOUS
  <2>1. PICK c \in CredIds, new \in Keys, G \in SUBSET GuardianIds : recover(c, new, G)
    BY DEF Next, vars, validateUserOp, execute, addSigner, removeSigner, addGuardian,
       removeGuardian, setRecoveryThreshold, SignRecovery, ForgetAssertion, signerVars
  <2>2. accepted' \ accepted = ValidAssertions(G, c, new)
    BY <2>1 DEF recover, ValidAssertions, IInv, NoncesPast, TypeOK, Assertions
  <2> QED BY <2>1, <2>2, QuorumKeys DEF recover
<1>2. IInv /\ [Next]_vars => [Q]_vars
  BY <1>1
<1> QED BY <1>2, IInvCorrect, PTL DEF Spec, RecoveryNeedsQuorum
=============================================================================
